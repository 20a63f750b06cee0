--------------------------- MODULE Billing_proofs ---------------------------
(***************************************************************************)
(* TLAPS proofs about Billing and Subscriptions, for any finite set of     *)
(* jobs, any webhook requests and report sweeps, and any number of events, *)
(* periods, retries and accidents.                                         *)
(***************************************************************************)
EXTENDS BillingInv, FiniteSetTheorems, SequenceTheorems, TLAPS

-----------------------------------------------------------------------------
(* Counting.                                                               *)

\* One element more, one more.
LEMMA OneMore ==
    ASSUME NEW S, IsFiniteSet(S), NEW x, x \notin S
    PROVE  /\ IsFiniteSet(S \cup {x})
           /\ Cardinality(S) \in Nat
           /\ Cardinality(S \cup {x}) = Cardinality(S) + 1
  BY FS_AddElement, FS_CardinalityType

\* Positions of a sequence that satisfy something are finitely many.
LEMMA FinitePositions ==
    ASSUME NEW T, NEW q \in Seq(T), NEW S \in SUBSET DOMAIN q
    PROVE  IsFiniteSet(S) /\ Cardinality(S) \in Nat
<1>1. Len(q) \in Nat /\ DOMAIN q = 1 .. Len(q)
  OBVIOUS
<1>2. IsFiniteSet(1 .. Len(q))
  BY <1>1, FS_Interval
<1> QED
  BY <1>1, <1>2, FS_Subset, FS_CardinalityType

-----------------------------------------------------------------------------
(* The row and the sessions that write it.                                 *)

\* What a commit does, by what the session had loaded.
LEMMA CommitCases ==
    ASSUME NEW w, NEW new, CommitRow(w, new),
           sub \in Row \cup {NoRow}, session[w].row \in Row \cup {NoRow},
           new \in Row \/ (new = NoRow /\ session[w].row = NoRow),
           session[w].row # NoRow => sub # NoRow
    PROVE  /\ sub' \in Row \cup {NoRow}
           /\ sub # NoRow \/ new # NoRow => sub' # NoRow
           /\ session' = [session EXCEPT ![w] = NoSession]
           /\ ~raced' => ~raced /\ sub = session[w].row /\ sub' = new
           /\ raced \in BOOLEAN => raced' \in BOOLEAN
<1> DEFINE old == session[w].row
<1>1. /\ session' = [session EXCEPT ![w] = NoSession]
      /\ raced' = (raced \/ sub # old)
  BY DEF CommitRow, Close, Stale
<1>2. CASE old = NoRow
  <2>1. CASE new = NoRow
    <3>1. sub' = [f \in DOMAIN sub |-> sub[f]]
      BY <1>2, <2>1 DEF CommitRow, Merge
    <3>2. sub' = sub
      BY <3>1 DEF Row, NoRow
    <3> QED
      BY <1>1, <1>2, <2>1, <3>2
  <2>2. CASE new # NoRow
    BY <1>1, <1>2, <2>2 DEF CommitRow
  <2> QED
    BY <2>1, <2>2
<1>3. CASE old # NoRow
  <2>1. old \in Row /\ new \in Row /\ sub \in Row
    BY <1>3
  <2>2. sub' = [f \in DOMAIN sub |-> IF new[f] = old[f] THEN sub[f] ELSE new[f]]
    BY <1>3 DEF CommitRow, Merge
  <2>3. DOMAIN sub = {"status", "used", "ends"}
    BY <2>1 DEF Row
  <2>4. sub' = [status |-> IF new.status = old.status THEN sub.status ELSE new.status,
                used |-> IF new.used = old.used THEN sub.used ELSE new.used,
                ends |-> IF new.ends = old.ends THEN sub.ends ELSE new.ends]
    BY <2>2, <2>3
  <2>5. sub' \in Row
    BY <2>1, <2>4 DEF Row
  <2>6. NoRow \notin Row
    BY DEF NoRow, Row, Statuses
  <2>7. sub = old => sub' = new
    BY <2>1, <2>4 DEF Row
  <2> QED
    BY <1>1, <2>5, <2>6, <2>7
<1> QED
  BY <1>2, <1>3

\* The sessions' part of a step that commits the session of w.
LEMMA CommitKeepsSessions ==
    ASSUME SubscriptionsTypeOK, SessionInv, NEW w \in Writers, NEW new,
           CommitRow(w, new),
           new \in Row \/ (new = NoRow /\ session[w].row = NoRow),
           UNCHANGED stripeVars, applied' \in 0 .. MaxEvents,
           orderly' \in BOOLEAN, resets' \in Nat
    PROVE  /\ SubscriptionsTypeOK'
           /\ SessionInv'
           /\ sub # NoRow => sub' # NoRow
           /\ ~raced' => ~raced /\ sub = session[w].row /\ sub' = new
           /\ session' = [session EXCEPT ![w] = NoSession]
<1>1. /\ sub \in Row \cup {NoRow}
      /\ session \in [Writers -> Session \cup {NoSession}]
      /\ raced \in BOOLEAN
      /\ session[w].row # NoRow => sub # NoRow
  BY DEF SubscriptionsTypeOK, SessionInv
<1>2. session[w].row \in Row \cup {NoRow}
  BY <1>1 DEF Session, NoSession
<1>3. /\ sub' \in Row \cup {NoRow}
      /\ sub # NoRow \/ new # NoRow => sub' # NoRow
      /\ session' = [session EXCEPT ![w] = NoSession]
      /\ ~raced' => ~raced /\ sub = session[w].row /\ sub' = new
      /\ raced' \in BOOLEAN
  BY <1>1, <1>2, CommitCases
<1>4. session' \in [Writers -> Session \cup {NoSession}]
  BY <1>1, <1>3
<1>5. \A v \in Writers : session'[v] \in {session[v], NoSession}
  BY <1>1, <1>3
<1>6. SubscriptionsTypeOK'
  <2>1. \A h \in Handlers : session'[h] # NoSession =>
            session'[h].event \in 1 .. Len(emitted')
    BY <1>5 DEF SubscriptionsTypeOK, InSession, Writers, stripeVars
  <2> QED
    BY <1>3, <1>4, <2>1 DEF SubscriptionsTypeOK, InSession, stripeVars
<1>7. SessionInv'
  <2>1. NoSession.row = NoRow
    BY DEF NoSession
  <2>2. "reset" \in Writers
    BY DEF Writers
  <2>3. \A v \in Writers : session'[v].row # NoRow => sub' # NoRow
    BY <1>3, <1>5, <2>1 DEF SessionInv
  <2>4. session'["reset"] # NoSession => session'["reset"].row # NoRow
    BY <1>5, <2>2 DEF SessionInv, InSession
  <2> QED
    BY <2>3, <2>4 DEF SessionInv, InSession
<1> QED
  BY <1>3, <1>6, <1>7

\* The sessions' part of a step that opens the session of w.
LEMMA LoadKeepsSessions ==
    ASSUME SubscriptionsTypeOK, SessionInv, NEW w \in Writers, NEW n \in 0 .. MaxEvents,
           Load(w, n), w \in Handlers => n \in 1 .. Len(emitted),
           w = "reset" => sub # NoRow,
           UNCHANGED <<clock, stripe, emitted, sub, raced, resets, applied>>,
           pending' \subseteq pending, orderly' \in BOOLEAN
    PROVE  SubscriptionsTypeOK' /\ SessionInv'
<1> DEFINE new == [row |-> sub, event |-> n]
<1>1. /\ session' = [session EXCEPT ![w] = new]
      /\ new \in Session
      /\ session \in [Writers -> Session \cup {NoSession}]
  BY DEF Load, Session, SubscriptionsTypeOK
<1>2. session' \in [Writers -> Session \cup {NoSession}]
  BY <1>1
<1>3. \A v \in Writers : session'[v] = IF v = w THEN new ELSE session[v]
  BY <1>1
<1>4. \A h \in Handlers : session'[h] # NoSession => session'[h].event \in 1 .. Len(emitted)
  BY <1>3 DEF SubscriptionsTypeOK, InSession, Writers
<1>5. SubscriptionsTypeOK'
  BY <1>2, <1>4 DEF SubscriptionsTypeOK, InSession
<1>6. "reset" \in Writers
  BY DEF Writers
<1>7. \A v \in Writers : session'[v].row # NoRow => sub # NoRow
  BY <1>3 DEF SessionInv
<1>8. session'["reset"] # NoSession => session'["reset"].row # NoRow
  BY <1>3, <1>6 DEF SessionInv, InSession
<1> QED
  BY <1>5, <1>7, <1>8 DEF SessionInv, InSession

\* The sessions' part of a step that closes the session of w without a commit.
LEMMA CloseKeepsSessions ==
    ASSUME SubscriptionsTypeOK, SessionInv, NEW w \in Writers, Close(w),
           UNCHANGED <<stripeVars, sub, raced, resets, applied>>, orderly' \in BOOLEAN
    PROVE  SubscriptionsTypeOK' /\ SessionInv'
<1>1. /\ session' = [session EXCEPT ![w] = NoSession]
      /\ session \in [Writers -> Session \cup {NoSession}]
  BY DEF Close, SubscriptionsTypeOK
<1>2. session' \in [Writers -> Session \cup {NoSession}]
  BY <1>1
<1>3. \A v \in Writers : session'[v] \in {session[v], NoSession}
  BY <1>1
<1>4. NoSession.row = NoRow /\ "reset" \in Writers
  BY DEF NoSession, Writers
<1>5. SubscriptionsTypeOK'
  <2>1. \A h \in Handlers : session'[h] # NoSession =>
            session'[h].event \in 1 .. Len(emitted)
    BY <1>3 DEF SubscriptionsTypeOK, InSession, Writers
  <2> QED
    BY <1>2, <2>1 DEF SubscriptionsTypeOK, InSession, stripeVars
<1>6. \A v \in Writers : session'[v].row # NoRow => sub # NoRow
  BY <1>3, <1>4 DEF SessionInv
<1>7. session'["reset"] # NoSession => session'["reset"].row # NoRow
  BY <1>3, <1>4 DEF SessionInv, InSession
<1> QED
  BY <1>5, <1>6, <1>7 DEF SessionInv, InSession

-----------------------------------------------------------------------------
(* The rows that the writers compute.                                      *)

LEMMA HandlerRow ==
    ASSUME NEW row \in Row \cup {NoRow}, NEW e \in Event, clock \in 0 .. MaxPeriods
    PROVE  \/ process_webhook_event(row, e) \in Row
           \/ process_webhook_event(row, e) = NoRow /\ row = NoRow
<1>1. /\ e.period + 1 \in 0 .. MaxPeriods + 1
      /\ clock \in 0 .. MaxPeriods + 1
      /\ status_map(e.status) \in Statuses
      /\ MaxPeriods \in Nat
  BY SubscriptionAssumption DEF Event, status_map, Statuses
<1>2. CASE e.type = "checkout"
  <2>1. handle_checkout_session_completed(row) \in Row
    BY <1>1 DEF handle_checkout_session_completed, Row, NoRow, Statuses
  <2> QED
    BY <1>2, <2>1 DEF process_webhook_event
<1>3. CASE e.type # "checkout" /\ row = NoRow
  BY <1>3 DEF process_webhook_event
<1>4. CASE e.type # "checkout" /\ row # NoRow
  <2>1. /\ row \in Row
        /\ handle_subscription_updated(row, e) \in Row
        /\ handle_subscription_deleted(row) \in Row
        /\ handle_invoice_paid(row, e) \in Row
        /\ handle_invoice_payment_failed(row) \in Row
    BY <1>1, <1>4 DEF handle_subscription_updated, handle_subscription_deleted,
                      handle_invoice_paid, handle_invoice_payment_failed, Row, Statuses
  <2>2. e.type \in {"updated", "deleted", "paid", "failed"}
    BY <1>4 DEF Event
  <2> QED
    BY <1>4, <2>1, <2>2 DEF process_webhook_event
<1> QED
  BY <1>2, <1>3, <1>4

-----------------------------------------------------------------------------
(* Stripe, its events and the sweep keep rows and sessions well typed.     *)

LEMMA EmitKeepsSessions ==
    ASSUME SubscriptionsTypeOK, SessionInv, NEW new, NEW types,
           new \in [status : StripeStatuses, period : 0 .. MaxPeriods],
           types \in Seq({"checkout", "updated", "deleted", "paid", "failed"}),
           Emit(new, types)
    PROVE  SubscriptionsTypeOK' /\ SessionInv'
<1> DEFINE more == [i \in 1 .. Len(types) |->
                      [type |-> types[i], status |-> new.status, period |-> new.period]]
<1>1. /\ Len(types) \in Nat
      /\ Len(emitted) + Len(types) <= MaxEvents
      /\ emitted' = emitted \o more
      /\ stripe' = new
      /\ UNCHANGED <<clock, rowVars, eventVars>>
  BY DEF Emit
<1>2. more \in Seq(Event) /\ Len(more) = Len(types)
  <2>1. \A i \in 1 .. Len(types) : types[i] \in {"checkout", "updated", "deleted", "paid", "failed"}
    BY <1>1
  <2>2. \A i \in 1 .. Len(types) :
          [type |-> types[i], status |-> new.status, period |-> new.period] \in Event
    BY <2>1 DEF Event
  <2>3. more \in [1 .. Len(types) -> Event]
    BY <2>2
  <2>4. more \in Seq(Event)
    <3>1. Len(types) \in Nat
      BY <1>1
    <3> HIDE DEF more
    <3> QED
      BY <2>3, <3>1, SeqDef
  <2>5. DOMAIN more = 1 .. Len(types)
    OBVIOUS
  <2> QED
    BY <1>1, <2>4, <2>5, LenProperties
<1> HIDE DEF more
<1>3. emitted \in Seq(Event) /\ Len(emitted) \in Nat
  BY DEF SubscriptionsTypeOK
<1>4. /\ emitted' \in Seq(Event)
      /\ Len(emitted') = Len(emitted) + Len(types)
  <2>1. emitted \o more \in Seq(Event) /\ Len(emitted \o more) = Len(emitted) + Len(more)
    BY <1>2, <1>3, ConcatProperties
  <2> QED
    BY <1>1, <1>2, <2>1
<1>5. pending' \subseteq 1 .. Len(emitted')
  <2>1. pending' = pending \cup (Len(emitted) + 1 .. Len(emitted) + Len(types))
    BY DEF Emit
  <2>2. pending \subseteq 1 .. Len(emitted)
    BY DEF SubscriptionsTypeOK
  <2>3. ASSUME NEW n \in pending' PROVE n \in 1 .. Len(emitted')
    BY <1>1, <1>3, <1>4, <2>1, <2>2, <2>3
  <2> QED
    BY <2>3
<1>6. \A h \in Handlers : InSession(h) => session[h].event \in 1 .. Len(emitted')
  BY <1>1, <1>3, <1>4 DEF SubscriptionsTypeOK
<1> QED
  BY <1>1, <1>4, <1>5, <1>6
  DEF SubscriptionsTypeOK, SessionInv, InSession, rowVars, eventVars

EventTypes == {"checkout", "updated", "deleted", "paid", "failed"}

\* One or two events that all carry the status of `new`; a first one is a checkout.
EmitsTruly(new, types) ==
    /\ Emit(new, types)
    /\ Len(types) > 0
    /\ \A i \in 1 .. Len(types) :
         EventSays([type |-> types[i], status |-> new.status, period |-> new.period])
    /\ stripe.status = "none" => types[1] = "checkout"

LEMMA FewEvents ==
    ASSUME NEW new, NEW types, Emit(new, types), Len(types) \in {1, 2},
           \A i \in {1, 2} : i <= Len(types) =>
             EventSays([type |-> types[i], status |-> new.status, period |-> new.period]),
           stripe.status = "none" => types[1] = "checkout"
    PROVE  EmitsTruly(new, types)
<1>1. ASSUME NEW i \in 1 .. Len(types) PROVE i \in {1, 2} /\ i <= Len(types)
  <2>1. CASE Len(types) = 1
    BY <2>1
  <2>2. CASE Len(types) = 2
    BY <2>2
  <2> QED
    BY <2>1, <2>2
<1> QED
  BY <1>1 DEF EmitsTruly

\* Whatever happens at Stripe, its events carry the status that came of it.
LEMMA StripeEmits ==
    ASSUME SubscriptionsTypeOK, Subscribe \/ Renew \/ PaymentFails \/ Recover \/ End
    PROVE  \E new \in [status : StripeStatuses, period : 0 .. MaxPeriods],
              types \in Seq(EventTypes) : EmitsTruly(new, types)
<1>0. /\ clock \in 0 .. MaxPeriods
      /\ stripe \in [status : StripeStatuses, period : 0 .. MaxPeriods]
  BY DEF SubscriptionsTypeOK
<1>p. ASSUME NEW x \in EventTypes, NEW y \in EventTypes
      PROVE  <<x, y>> \in Seq(EventTypes) /\ Len(<<x, y>>) = 2
             /\ <<x, y>>[1] = x /\ <<x, y>>[2] = y
  OBVIOUS
<1>q. <<"deleted">> \in Seq(EventTypes) /\ Len(<<"deleted">>) = 1
      /\ <<"deleted">>[1] = "deleted"
  BY DEF EventTypes
<1>e. /\ "checkout" \in EventTypes /\ "updated" \in EventTypes
      /\ "paid" \in EventTypes /\ "failed" \in EventTypes
  BY DEF EventTypes
<1>1. CASE Subscribe
  <2> DEFINE new == [status |-> "active", period |-> clock]
             types == <<"checkout", "paid">>
  <2>1. new \in [status : StripeStatuses, period : 0 .. MaxPeriods]
        /\ new.status = "active"
    BY <1>0 DEF StripeStatuses
  <2>2. types \in Seq(EventTypes) /\ Len(types) = 2 /\ types[1] = "checkout"
        /\ types[2] = "paid"
    BY <1>p, <1>e
  <2>3. Emit(new, types)
    BY <1>1 DEF Subscribe
  <2> HIDE DEF new, types
  <2>4. EmitsTruly(new, types)
    BY <2>1, <2>2, <2>3, FewEvents DEF EventSays
  <2> QED
    BY <2>1, <2>2, <2>4
<1>2. CASE Renew
  <2> DEFINE new == [stripe EXCEPT !.period = clock]
             types == <<"updated", "paid">>
  <2>1. new \in [status : StripeStatuses, period : 0 .. MaxPeriods]
        /\ new.status = "active" /\ stripe.status # "none"
    BY <1>0, <1>2 DEF Renew
  <2>2. types \in Seq(EventTypes) /\ Len(types) = 2 /\ types[1] = "updated"
        /\ types[2] = "paid"
    BY <1>p, <1>e
  <2>3. Emit(new, types)
    BY <1>2 DEF Renew
  <2> HIDE DEF new, types
  <2>4. EmitsTruly(new, types)
    BY <2>1, <2>2, <2>3, FewEvents DEF EventSays
  <2> QED
    BY <2>1, <2>2, <2>4
<1>3. CASE PaymentFails
  <2> DEFINE new == [status |-> "past_due", period |-> clock]
             types == <<"updated", "failed">>
  <2>1. new \in [status : StripeStatuses, period : 0 .. MaxPeriods]
        /\ new.status = "past_due" /\ stripe.status # "none"
    BY <1>0, <1>3 DEF PaymentFails, StripeStatuses
  <2>2. types \in Seq(EventTypes) /\ Len(types) = 2 /\ types[1] = "updated"
        /\ types[2] = "failed"
    BY <1>p, <1>e
  <2>3. Emit(new, types)
    BY <1>3 DEF PaymentFails
  <2> HIDE DEF new, types
  <2>4. EmitsTruly(new, types)
    BY <2>1, <2>2, <2>3, FewEvents DEF EventSays
  <2> QED
    BY <2>1, <2>2, <2>4
<1>4. CASE Recover
  <2> DEFINE new == [stripe EXCEPT !.status = "active"]
             types == <<"updated", "paid">>
  <2>1. new \in [status : StripeStatuses, period : 0 .. MaxPeriods]
        /\ new.status = "active" /\ stripe.status # "none"
    BY <1>0, <1>4 DEF Recover, StripeStatuses
  <2>2. types \in Seq(EventTypes) /\ Len(types) = 2 /\ types[1] = "updated"
        /\ types[2] = "paid"
    BY <1>p, <1>e
  <2>3. Emit(new, types)
    BY <1>4 DEF Recover
  <2> HIDE DEF new, types
  <2>4. EmitsTruly(new, types)
    BY <2>1, <2>2, <2>3, FewEvents DEF EventSays
  <2> QED
    BY <2>1, <2>2, <2>4
<1>5. CASE End
  <2> DEFINE new == [stripe EXCEPT !.status = "canceled"]
             types == <<"deleted">>
  <2>1. new \in [status : StripeStatuses, period : 0 .. MaxPeriods]
        /\ new.status = "canceled" /\ stripe.status # "none"
    BY <1>0, <1>5 DEF End, StripeStatuses
  <2>2. types \in Seq(EventTypes) /\ Len(types) = 1 /\ types[1] = "deleted"
    BY <1>q
  <2>3. Emit(new, types)
    BY <1>5 DEF End
  <2> HIDE DEF new, types
  <2>4. EmitsTruly(new, types)
    BY <2>1, <2>2, <2>3, FewEvents DEF EventSays
  <2> QED
    BY <2>1, <2>2, <2>4
<1> QED
  BY <1>1, <1>2, <1>3, <1>4, <1>5

LEMMA StripeStep ==
    ASSUME SubscriptionsTypeOK, SessionInv,
           Subscribe \/ Renew \/ PaymentFails \/ Recover \/ End
    PROVE  /\ SubscriptionsTypeOK' /\ SessionInv'
           /\ UNCHANGED <<clock, rowVars, eventVars>>
  BY StripeEmits, EmitKeepsSessions DEF Emit, EventTypes, EmitsTruly

LEMMA PeriodEndsType ==
    ASSUME SubscriptionsTypeOK, SessionInv, PeriodEnds
    PROVE  SubscriptionsTypeOK' /\ SessionInv'
  BY SubscriptionAssumption
  DEF PeriodEnds, SubscriptionsTypeOK, SessionInv, InSession, rowVars, eventVars

\* A handler commits what it made of the row.
LEMMA HandledType ==
    ASSUME SubscriptionsTypeOK, SessionInv, NEW h \in Handlers, Handled(h)
    PROVE  LET e == emitted[session[h].event]
               old == session[h].row
               new == process_webhook_event(old, e)
           IN  /\ SubscriptionsTypeOK'
               /\ SessionInv'
               /\ e \in Event
               /\ old \in Row \cup {NoRow}
               /\ new \in Row \/ (new = NoRow /\ old = NoRow)
               /\ sub # NoRow => sub' # NoRow
               /\ ~raced' => ~raced /\ sub = old /\ sub' = new
               /\ session' = [session EXCEPT ![h] = NoSession]
<1> DEFINE n == session[h].event
           e == emitted[n]
           old == session[h].row
           new == process_webhook_event(old, e)
<1>1. h \in Writers
  BY DEF Writers
<1>2. /\ session[h] \in Session
      /\ n \in 1 .. Len(emitted)
  BY <1>1 DEF Handled, SubscriptionsTypeOK, InSession
<1>3. n \in 0 .. MaxEvents /\ old \in Row \cup {NoRow}
  BY <1>2 DEF Session
<1>4. e \in Event
  BY <1>2 DEF SubscriptionsTypeOK
<1>5. new \in Row \/ (new = NoRow /\ old = NoRow)
  BY <1>3, <1>4, HandlerRow DEF SubscriptionsTypeOK
<1>6. /\ CommitRow(h, new)
      /\ resets' \in Nat
      /\ applied' \in 0 .. MaxEvents
      /\ orderly' \in BOOLEAN
      /\ UNCHANGED stripeVars
  BY <1>3 DEF Handled, SubscriptionsTypeOK
<1> HIDE DEF new, e, old, n
<1>7. /\ SubscriptionsTypeOK'
      /\ SessionInv'
      /\ sub # NoRow => sub' # NoRow
      /\ ~raced' => ~raced /\ sub = session[h].row /\ sub' = new
      /\ session' = [session EXCEPT ![h] = NoSession]
  BY <1>1, <1>5, <1>6, CommitKeepsSessions DEF old
<1> QED
  BY <1>3, <1>4, <1>5, <1>7 DEF n, e, old, new

\* The sweep resets what it selected.
LEMMA ResetType ==
    ASSUME SubscriptionsTypeOK, SessionInv, reset_monthly_usage
    PROVE  LET old == session["reset"].row
               new == [old EXCEPT !.used = 0, !.ends = clock + 1]
           IN  /\ SubscriptionsTypeOK'
               /\ SessionInv'
               /\ old \in Row /\ new \in Row
               /\ sub # NoRow => sub' # NoRow
               /\ ~raced' => ~raced /\ sub = old /\ sub' = new
               /\ session' = [session EXCEPT !["reset"] = NoSession]
<1> DEFINE old == session["reset"].row
           new == [old EXCEPT !.used = 0, !.ends = clock + 1]
<1>1. "reset" \in Writers
  BY DEF Writers
<1>2. old \in Row
  BY <1>1 DEF reset_monthly_usage, SubscriptionsTypeOK, SessionInv, InSession, Session
<1>3. new \in Row
  <2>1. clock + 1 \in 0 .. MaxPeriods + 1
    BY SubscriptionAssumption DEF SubscriptionsTypeOK
  <2> QED
    BY <1>2, <2>1 DEF Row
<1>4. /\ CommitRow("reset", new)
      /\ resets' \in Nat
      /\ applied' \in 0 .. MaxEvents
      /\ orderly' \in BOOLEAN
      /\ UNCHANGED stripeVars
  BY DEF reset_monthly_usage, SubscriptionsTypeOK, eventVars
<1> HIDE DEF new
<1>5. /\ SubscriptionsTypeOK'
      /\ SessionInv'
      /\ sub # NoRow => sub' # NoRow
      /\ ~raced' => ~raced /\ sub = session["reset"].row /\ sub' = new
      /\ session' = [session EXCEPT !["reset"] = NoSession]
  BY <1>1, <1>3, <1>4, CommitKeepsSessions
<1> QED
  BY <1>2, <1>3, <1>5 DEF new

LEMMA ReceiveType ==
    ASSUME SubscriptionsTypeOK, SessionInv, NEW h \in Handlers, Receive(h)
    PROVE  SubscriptionsTypeOK' /\ SessionInv'
<1>1. PICK n \in pending :
        /\ Load(h, n)
        /\ pending' \in {pending, pending \ {n}}
        /\ orderly' = /\ orderly
                      /\ n \in {applied, applied + 1}
                      /\ \A g \in Handlers : ~InSession(g)
        /\ UNCHANGED <<clock, stripe, emitted, sub, raced, resets, applied>>
  BY DEF Receive
<1>2. h \in Writers /\ h # "reset"
  BY SubscriptionAssumption DEF Writers
<1>3. n \in 1 .. Len(emitted) /\ n \in 0 .. MaxEvents
  BY <1>1, SubscriptionAssumption DEF SubscriptionsTypeOK
<1>4. pending' \subseteq pending /\ orderly' \in BOOLEAN
  BY <1>1 DEF SubscriptionsTypeOK
<1> QED
  BY <1>1, <1>2, <1>3, <1>4, LoadKeepsSessions

LEMMA SelectType ==
    ASSUME SubscriptionsTypeOK, SessionInv, SelectOverdue
    PROVE  SubscriptionsTypeOK' /\ SessionInv'
<1>1. "reset" \in Writers /\ "reset" \notin Handlers /\ 0 \in 0 .. MaxEvents
  BY SubscriptionAssumption DEF Writers
<1>2. sub # NoRow
  BY DEF SelectOverdue, Usable, NoRow
<1>3. /\ Load("reset", 0)
      /\ UNCHANGED <<clock, stripe, emitted, sub, raced, resets, applied>>
      /\ pending' \subseteq pending
      /\ orderly' \in BOOLEAN
  BY DEF SelectOverdue, stripeVars, eventVars, SubscriptionsTypeOK
<1> QED
  BY <1>1, <1>2, <1>3, LoadKeepsSessions

LEMMA DroppedType ==
    ASSUME SubscriptionsTypeOK, SessionInv, NEW w \in Handlers \cup {"reset"}, Dropped(w)
    PROVE  SubscriptionsTypeOK' /\ SessionInv'
<1>1. w \in Writers
  BY DEF Writers
<1>2. orderly' \in BOOLEAN
  BY DEF Dropped, SubscriptionsTypeOK
<1> QED
  BY <1>1, <1>2, CloseKeepsSessions DEF Dropped

LEMMA SubscriptionsType ==
    ASSUME SubscriptionsTypeOK, SessionInv, SubscriptionsNext
    PROVE  SubscriptionsTypeOK' /\ SessionInv'
  BY StripeStep, PeriodEndsType, HandledType, ResetType, ReceiveType, SelectType,
     DroppedType DEF SubscriptionsNext

-----------------------------------------------------------------------------
(* The steps of jobs and sweeps keep the types.                            *)

RowStatuses == {"processing", "completed", "failed"}

LEMMA SetLast ==
    ASSUME NEW T, NEW q \in Seq(T), NEW x \in T
    PROVE  /\ [q EXCEPT ![Len(q)] = x] \in Seq(T)
           /\ Len([q EXCEPT ![Len(q)] = x]) = Len(q)
           /\ \A i \in DOMAIN q : [q EXCEPT ![Len(q)] = x][i] = IF i = Len(q) THEN x ELSE q[i]
<1> DEFINE r == [q EXCEPT ![Len(q)] = x]
<1>1. Len(q) \in Nat /\ DOMAIN q = 1 .. Len(q) /\ DOMAIN r = 1 .. Len(q)
  OBVIOUS
<1>2. \A i \in 1 .. Len(q) : r[i] = IF i = Len(q) THEN x ELSE q[i]
  BY <1>1
<1>3. \A i \in 1 .. Len(q) : r[i] \in T
  <2>1. \A i \in 1 .. Len(q) : q[i] \in T
    OBVIOUS
  <2> QED
    BY <1>2, <2>1
<1>4. r \in [1 .. Len(q) -> T]
  BY <1>1, <1>3
<1>5. r \in Seq(T)
  BY <1>1, <1>4, SeqDef
<1>6. Len(r) = Len(q)
  BY <1>1, <1>5, LenProperties
<1> QED
  BY <1>1, <1>2, <1>5, <1>6

\* Writing to the history keeps its type; only the rows of j are touched.
LEMMA RowsType ==
    ASSUME rows \in [Jobs -> Seq(RowStatuses)], NEW j \in Jobs, NEW status \in RowStatuses,
           LastRow(j, status) \/ NewRow(j, status)
    PROVE  /\ rows' \in [Jobs -> Seq(RowStatuses)]
           /\ \A k \in Jobs \ {j} : rows'[k] = rows[k]
<1>1. CASE LastRow(j, status)
  <2>1. [rows[j] EXCEPT ![Len(rows[j])] = status] \in Seq(RowStatuses)
    BY SetLast
  <2>2. rows' = [rows EXCEPT ![j] = [rows[j] EXCEPT ![Len(rows[j])] = status]]
    BY <1>1 DEF LastRow
  <2> QED
    BY <2>1, <2>2
<1>2. CASE NewRow(j, status)
  <2>1. Append(rows[j], status) \in Seq(RowStatuses)
    OBVIOUS
  <2>2. rows' = [rows EXCEPT ![j] = Append(rows[j], status)]
    BY <1>2 DEF NewRow
  <2> QED
    BY <2>1, <2>2
<1> QED
  BY <1>1, <1>2

\* What jobs alone write.
JobsTypeOK ==
    /\ phase \in [Jobs -> Phases]
    /\ rows \in [Jobs -> Seq(RowStatuses)]
    /\ tries \in [Jobs -> 0 .. Retries]
    /\ accidents \in 0 .. MaxAccidents
    /\ mishaps \in [Jobs -> Nat]
    /\ excuses \in Nat

RecordsTypeOK ==
    /\ records \in Seq(UsageRecord)
    /\ invoiced \in Seq(Nat)
    /\ Len(invoiced) = Len(records)
    /\ sweep \in [Sweeps -> [todo : SUBSET DOMAIN records,
                            marked : SUBSET DOMAIN records, on : BOOLEAN]]
    /\ disturbed \subseteq DOMAIN records

LEMMA TypeParts ==
    BillingTypeOK <=> SubscriptionsTypeOK /\ JobsTypeOK /\ RecordsTypeOK
  BY DEF BillingTypeOK, JobsTypeOK, RecordsTypeOK, RowStatuses

\* An action that concerns one job.
JobAction(j) ==
    \/ Ask(j) \/ AskUnchecked(j) \/ Work(j) \/ ChargeAnswerLost(j)
    \/ Lose(j) \/ TimeOut(j) \/ Revoke(j)

LEMMA RetryType ==
    ASSUME JobsTypeOK, NEW j \in Jobs, Retry(j)
    PROVE  /\ phase' \in [Jobs -> Phases]
           /\ phase'[j] \in {"queued", "failed"}
           /\ tries' \in [Jobs -> 0 .. Retries]
<1>1. "queued" \in Phases /\ "failed" \in Phases
  BY DEF Phases
<1>2. phase' \in [Jobs -> Phases] /\ phase'[j] \in {"queued", "failed"}
  BY <1>1 DEF Retry, JobsTypeOK
<1>3. tries' \in [Jobs -> 0 .. Retries]
  <2>1. CASE tries[j] < Retries
    <3>1. tries[j] + 1 \in 0 .. Retries
      BY <2>1, BillingAssumption DEF JobsTypeOK
    <3> QED
      BY <2>1, <3>1 DEF Retry, JobsTypeOK
  <2>2. CASE ~(tries[j] < Retries)
    BY <2>2 DEF Retry, JobsTypeOK
  <2> QED
    BY <2>1, <2>2
<1> QED
  BY <1>2, <1>3

LEMMA RaiseType ==
    ASSUME JobsTypeOK, NEW j \in Jobs, Raise(j)
    PROVE  /\ phase' \in [Jobs -> Phases]
           /\ rows' \in [Jobs -> Seq(RowStatuses)]
           /\ tries' \in [Jobs -> 0 .. Retries]
<1>1. "failed" \in RowStatuses
  BY DEF RowStatuses
<1>2. rows' \in [Jobs -> Seq(RowStatuses)]
  BY <1>1, RowsType DEF Raise, JobsTypeOK
<1> QED
  BY <1>2, RetryType DEF Raise

LEMMA AccidentType ==
    ASSUME JobsTypeOK, Accident
    PROVE  accidents' \in 0 .. MaxAccidents
  BY BillingAssumption DEF JobsTypeOK, Accident

LEMMA ChargedAlreadyType ==
    ASSUME JobsTypeOK, NEW j \in Jobs,
           ChargedAlready(j) \/ UNCHANGED <<mishaps, excuses>>
    PROVE  mishaps' \in [Jobs -> Nat] /\ excuses' \in Nat
<1>1. CASE phase'[j] = "queued" /\ ChargedAlready(j)
  <2>1. mishaps' = [mishaps EXCEPT ![j] = @ + 1] /\ excuses' = excuses + 1
    BY <1>1 DEF ChargedAlready
  <2> QED
    BY <2>1 DEF JobsTypeOK
<1>2. CASE UNCHANGED <<mishaps, excuses>>
  BY <1>2 DEF JobsTypeOK
<1> QED
  BY <1>1, <1>2 DEF ChargedAlready

LEMMA JobsType ==
    ASSUME JobsTypeOK, NEW j \in Jobs, JobAction(j)
    PROVE  JobsTypeOK'
<1>0. "completed" \in RowStatuses /\ "processing" \in RowStatuses
      /\ "failed" \in RowStatuses
  BY DEF RowStatuses
<1>1. CASE Ask(j) \/ AskUnchecked(j)
  <2>1. PICK allowed, excused \in BOOLEAN : Answer(j, allowed, excused)
    <3>1. check_usage_limit \in BOOLEAN
      BY DEF check_usage_limit
    <3> QED
      BY <1>1, <3>1 DEF Ask, AskUnchecked
  <2>2. phase' \in [Jobs -> Phases]
    BY <2>1 DEF Answer, JobsTypeOK, Phases
  <2>3. excuses' \in Nat
    BY <2>1 DEF Answer, JobsTypeOK
  <2> QED
    BY <2>1, <2>2, <2>3 DEF Answer, JobsTypeOK
<1>2. CASE Begin(j)
  <2>1. rows' \in [Jobs -> Seq(RowStatuses)]
    BY <1>0, <1>2, RowsType DEF Begin, JobsTypeOK
  <2> QED
    BY <1>2, <2>1 DEF Begin, JobsTypeOK, Phases
<1>3. CASE Built(j)
  <2>1. rows' \in [Jobs -> Seq(RowStatuses)]
    BY <1>0, <1>3, RowsType DEF Built, JobsTypeOK
  <2> QED
    BY <1>3, <2>1 DEF Built, JobsTypeOK, Phases
<1>4. CASE BuildFails(j)
  <2>1. CASE Raise(j)
    BY <1>4, <2>1, RaiseType DEF BuildFails, JobsTypeOK
  <2>2. CASE Swallow(j)
    BY <1>4, <2>2 DEF BuildFails, Swallow, JobsTypeOK, Phases
  <2>3. CASE NewRow(j, "failed") /\ phase' = [phase EXCEPT ![j] = "over"]
             /\ UNCHANGED tries
    <3>1. rows' \in [Jobs -> Seq(RowStatuses)]
      BY <1>0, <2>3, RowsType DEF JobsTypeOK
    <3> QED
      BY <1>4, <2>3, <3>1 DEF BuildFails, JobsTypeOK, Phases
  <2> QED
    BY <1>4, <2>1, <2>2, <2>3 DEF BuildFails
<1>5. CASE LoadSubscription(j)
  BY <1>5 DEF LoadSubscription, JobsTypeOK, Phases
<1>6. CASE Charge(j)
  BY <1>6 DEF Charge, JobsTypeOK, Phases
<1>7. CASE ChargeFails(j)
  BY <1>7, RaiseType DEF ChargeFails, Swallow, JobsTypeOK, Phases
<1>8. CASE Finish(j)
  BY <1>8 DEF Finish, JobsTypeOK, Phases
<1>9. CASE ChargeAnswerLost(j)
  <2>1. /\ phase' \in [Jobs -> Phases]
        /\ rows' \in [Jobs -> Seq(RowStatuses)]
        /\ tries' \in [Jobs -> 0 .. Retries]
    BY <1>9, RaiseType DEF ChargeAnswerLost, Swallow, JobsTypeOK, Phases
  <2> QED
    BY <1>9, <2>1, AccidentType, ChargedAlreadyType DEF ChargeAnswerLost, JobsTypeOK
<1>10. CASE Lose(j)
  <2>1. mishaps' \in [Jobs -> Nat] /\ excuses' \in Nat /\ accidents' \in 0 .. MaxAccidents
    BY <1>10, AccidentType, ChargedAlreadyType DEF Lose
  <2> QED
    BY <1>10, <2>1 DEF Lose, JobsTypeOK, Phases
<1>11. CASE BeginFails(j)
  BY <1>11, RetryType DEF BeginFails, JobsTypeOK
<1>12. CASE FinishFails(j)
  BY <1>12, RetryType, ChargedAlreadyType DEF FinishFails, JobsTypeOK
<1>13. CASE TimeOut(j) \/ Revoke(j)
  BY <1>13 DEF TimeOut, Revoke, Kill, JobsTypeOK, Phases
<1> QED
  BY <1>1, <1>2, <1>3, <1>4, <1>5, <1>6, <1>7, <1>8, <1>9, <1>10, <1>11, <1>12, <1>13
  DEF JobAction, Work

\* What an action about one job does to the records and to the subscription.
LEMMA JobTouches ==
    ASSUME NEW j \in Jobs, JobAction(j)
    PROVE  /\ UNCHANGED <<stripeVars, eventVars, sweep, disturbed>>
           /\ \/ Commit(j) /\ phase[j] = "charging" /\ (Charge(j) \/ ChargeAnswerLost(j))
              \/ UNCHANGED <<records, invoiced, sub, raced, resets>>
           /\ \/ Commit(j)
              \/ UNCHANGED session
              \/ Close(j)
              \/ Load(j, 0)
<1>1. CASE Ask(j) \/ AskUnchecked(j)
  BY <1>1 DEF Ask, AskUnchecked, Answer, subVars, stripeVars, eventVars, rowVars, sweepVars
<1>2. CASE Begin(j) \/ BeginFails(j) \/ Built(j) \/ BuildFails(j) \/ Finish(j)
           \/ FinishFails(j)
  BY <1>2 DEF Begin, BeginFails, Built, BuildFails, Finish, FinishFails, subVars,
              stripeVars, eventVars, rowVars, sweepVars
<1>3. CASE LoadSubscription(j)
  BY <1>3 DEF LoadSubscription, stripeVars, eventVars, sweepVars
<1>4. CASE ChargeFails(j) \/ Lose(j) \/ TimeOut(j) \/ Revoke(j)
  BY <1>4 DEF ChargeFails, Lose, TimeOut, Revoke, Kill, stripeVars, eventVars, sweepVars
<1>5. CASE Charge(j) \/ ChargeAnswerLost(j)
  BY <1>5 DEF Charge, ChargeAnswerLost, Commit
<1> QED
  BY <1>1, <1>2, <1>3, <1>4, <1>5 DEF JobAction, Work

\* A job charges the subscription: the types of the row and the sessions.
LEMMA CommitType ==
    ASSUME SubscriptionsTypeOK, SessionInv, NEW j \in Jobs, Commit(j)
    PROVE  LET old == session[j].row
               new == IF old = NoRow THEN old ELSE [old EXCEPT !.used = @ + 1]
           IN  /\ SubscriptionsTypeOK'
               /\ SessionInv'
               /\ old \in Row \cup {NoRow}
               /\ new \in Row \/ (new = NoRow /\ old = NoRow)
               /\ sub # NoRow => sub' # NoRow
               /\ ~raced' => ~raced /\ sub = old /\ sub' = new
               /\ session' = [session EXCEPT ![j] = NoSession]
<1> DEFINE old == session[j].row
           new == IF old = NoRow THEN old ELSE [old EXCEPT !.used = @ + 1]
<1>1. j \in Writers
  BY DEF Writers
<1>2. old \in Row \cup {NoRow}
  BY <1>1 DEF SubscriptionsTypeOK, Session, NoSession
<1>3. new \in Row \/ (new = NoRow /\ old = NoRow)
  BY <1>2 DEF Row
<1>4. /\ CommitRow(j, new)
      /\ resets' \in Nat
      /\ applied' \in 0 .. MaxEvents
      /\ orderly' \in BOOLEAN
      /\ UNCHANGED stripeVars
  BY DEF Commit, SubscriptionsTypeOK, eventVars
<1> HIDE DEF new
<1>5. /\ SubscriptionsTypeOK'
      /\ SessionInv'
      /\ sub # NoRow => sub' # NoRow
      /\ ~raced' => ~raced /\ sub = session[j].row /\ sub' = new
      /\ session' = [session EXCEPT ![j] = NoSession]
  BY <1>1, <1>3, <1>4, CommitKeepsSessions
<1> QED
  BY <1>2, <1>3, <1>5 DEF new

LEMMA JobKeepsSessions ==
    ASSUME SubscriptionsTypeOK, SessionInv, NEW j \in Jobs, JobAction(j)
    PROVE  SubscriptionsTypeOK' /\ SessionInv'
<1>1. j \in Writers /\ j # "reset" /\ j \notin Handlers /\ 0 \in 0 .. MaxEvents
  BY SubscriptionAssumption DEF Writers
<1>2. CASE Commit(j)
  BY <1>2, CommitType
<1>3. CASE ~Commit(j)
  <2>1. UNCHANGED <<stripeVars, eventVars, sub, raced, resets>>
    BY <1>3, JobTouches
  <2>2. orderly' \in BOOLEAN
    BY <2>1 DEF eventVars, SubscriptionsTypeOK
  <2>3. CASE UNCHANGED session
    BY <2>1, <2>3 DEF stripeVars, eventVars, SubscriptionsTypeOK, SessionInv, InSession
  <2>4. CASE Close(j)
    BY <1>1, <2>1, <2>2, <2>4, CloseKeepsSessions DEF eventVars
  <2>5. CASE Load(j, 0)
    BY <1>1, <2>1, <2>2, <2>5, LoadKeepsSessions DEF stripeVars, eventVars
  <2> QED
    BY <1>3, <2>3, <2>4, <2>5, JobTouches
<1> QED
  BY <1>2, <1>3

\* An action of a report sweep.
SweepAction(s) ==
    \/ Report(s) \/ SweepDies(s)
    \/ \E i \in DOMAIN records : ReportAnswerLost(s, i)

\* A sweep changes nothing but the sweeps, the invoices and the marks.
LEMMA SweepTouches ==
    ASSUME RecordsTypeOK, NEW s \in Sweeps, SweepAction(s)
    PROVE  /\ UNCHANGED <<subVars, jobVars, mishaps, excuses>>
           /\ \/ UNCHANGED records
              \/ records' = [i \in DOMAIN records |->
                               [records[i] EXCEPT !.reported = @ \/ i \in sweep[s].marked]]
           /\ \/ UNCHANGED accidents
              \/ Accident
  BY DEF SweepAction, Report, StartSweep, CommitSweep, Reported, NotReported, SweepDies,
         ReportAnswerLost, Accident

\* The next step is one of these.
LEMMA Steps ==
    ASSUME Next
    PROVE  \/ /\ SubscriptionsNext
              /\ UNCHANGED <<jobVars, records, sweepVars, accidents, mishaps, excuses>>
           \/ \E j \in Jobs : JobAction(j)
           \/ \E s \in Sweeps : SweepAction(s)
  BY DEF Next, JobAction, SweepAction
-----------------------------------------------------------------------------
(* The records.                                                            *)

\* No record is added, and none changes hands.
RecordsKept ==
    /\ DOMAIN records' = DOMAIN records
    /\ \A i \in DOMAIN records :
         records'[i].job = records[i].job /\ records'[i].month = records[i].month

\* What one more charge does to the two sequences.
LEMMA CommitRecords ==
    ASSUME RecordsTypeOK, clock \in 0 .. MaxPeriods, NEW j \in Jobs, Commit(j)
    PROVE  /\ records' \in Seq(UsageRecord) /\ invoiced' \in Seq(Nat)
           /\ Len(records) \in Nat
           /\ Len(records') = Len(records) + 1 /\ Len(invoiced') = Len(records')
           /\ DOMAIN records' = DOMAIN records \cup {Len(records) + 1}
           /\ Len(records) + 1 \notin DOMAIN records
           /\ \A i \in DOMAIN records : records'[i] = records[i] /\ invoiced'[i] = invoiced[i]
           /\ records'[Len(records) + 1] = [job |-> j, month |-> clock, reported |-> FALSE]
           /\ invoiced'[Len(records) + 1] = 0
<1> DEFINE new == [job |-> j, month |-> clock, reported |-> FALSE]
<1>1. new \in UsageRecord
  BY DEF UsageRecord
<1>2. /\ records \in Seq(UsageRecord) /\ invoiced \in Seq(Nat)
      /\ Len(invoiced) = Len(records)
      /\ Len(records) \in Nat
      /\ DOMAIN records = 1 .. Len(records)
  BY DEF RecordsTypeOK
<1>3. records' = Append(records, new) /\ invoiced' = Append(invoiced, 0)
  BY DEF Commit
<1> HIDE DEF new
<1>4. /\ records' \in Seq(UsageRecord) /\ Len(records') = Len(records) + 1
      /\ \A i \in 1 .. Len(records) : records'[i] = records[i]
      /\ records'[Len(records) + 1] = new
  BY <1>1, <1>2, <1>3, AppendProperties
<1>5. /\ invoiced' \in Seq(Nat) /\ Len(invoiced') = Len(records) + 1
      /\ \A i \in 1 .. Len(records) : invoiced'[i] = invoiced[i]
      /\ invoiced'[Len(records) + 1] = 0
  BY <1>2, <1>3, AppendProperties
<1>6. DOMAIN records' = 1 .. Len(records) + 1
  BY <1>4
<1>7. /\ 1 .. Len(records) + 1 = 1 .. Len(records) \cup {Len(records) + 1}
      /\ Len(records) + 1 \notin 1 .. Len(records)
  BY <1>2
<1> QED
  BY <1>2, <1>4, <1>5, <1>6, <1>7 DEF new

\* What counting a record does.
LEMMA CountInvoices ==
    ASSUME RecordsTypeOK, NEW n \in DOMAIN records, Count(n)
    PROVE  /\ invoiced' \in Seq(Nat) /\ Len(invoiced') = Len(invoiced)
           /\ \A i \in DOMAIN records : invoiced[i] \in Nat
           /\ \A i \in DOMAIN records :
                invoiced'[i] = IF i = n THEN invoiced[i] + 1 ELSE invoiced[i]
<1>1. /\ invoiced \in Seq(Nat) /\ Len(invoiced) = Len(records)
      /\ Len(invoiced) \in Nat
      /\ DOMAIN records = 1 .. Len(invoiced) /\ DOMAIN invoiced = 1 .. Len(invoiced)
  BY DEF RecordsTypeOK
<1>2. \A i \in 1 .. Len(invoiced) : invoiced[i] \in Nat
  BY <1>1
<1>3. invoiced' = [i \in 1 .. Len(invoiced) |->
                     IF i = n THEN invoiced[i] + 1 ELSE invoiced[i]]
  BY <1>1 DEF Count
<1>4. invoiced' \in [1 .. Len(invoiced) -> Nat]
  BY <1>2, <1>3
<1>5. invoiced' \in Seq(Nat) /\ Len(invoiced') = Len(invoiced)
  BY <1>1, <1>3, <1>4, SeqDef, LenProperties
<1> QED
  BY <1>1, <1>2, <1>3, <1>5

\* What committing the marks of a sweep does.
LEMMA MarkRecords ==
    ASSUME RecordsTypeOK, NEW s \in Sweeps, CommitSweep(s)
    PROVE  /\ records' \in Seq(UsageRecord) /\ DOMAIN records' = DOMAIN records
           /\ Len(records') = Len(records)
           /\ RecordsKept
           /\ \A i \in DOMAIN records :
                records'[i].reported = (records[i].reported \/ i \in sweep[s].marked)
<1>1. /\ records \in Seq(UsageRecord)
      /\ Len(records) \in Nat
      /\ DOMAIN records = 1 .. Len(records)
  BY DEF RecordsTypeOK
<1>2. \A i \in 1 .. Len(records) : records[i] \in UsageRecord
  BY <1>1
<1>3. records' = [i \in 1 .. Len(records) |->
                    [records[i] EXCEPT !.reported = @ \/ i \in sweep[s].marked]]
  BY <1>1 DEF CommitSweep
<1>4. \A i \in 1 .. Len(records) :
        /\ records'[i] \in UsageRecord
        /\ records'[i].job = records[i].job
        /\ records'[i].month = records[i].month
        /\ records'[i].reported = (records[i].reported \/ i \in sweep[s].marked)
  <2> TAKE i \in 1 .. Len(records)
  <2>1. records'[i] = [records[i] EXCEPT !.reported = @ \/ i \in sweep[s].marked]
    BY <1>3
  <2> QED
    BY <1>2, <2>1 DEF UsageRecord
<1>5. records' \in [1 .. Len(records) -> UsageRecord]
  BY <1>3, <1>4
<1>6. records' \in Seq(UsageRecord) /\ Len(records') = Len(records)
  BY <1>1, <1>3, <1>5, SeqDef, LenProperties
<1> QED
  BY <1>1, <1>3, <1>4, <1>6 DEF RecordsKept

\* A sweep's own set of records, and the records somebody holds.
LEMMA SweepType ==
    ASSUME RecordsTypeOK, NEW s \in Sweeps
    PROVE  /\ sweep[s].todo \subseteq DOMAIN records
           /\ sweep[s].marked \subseteq DOMAIN records
           /\ sweep[s].on \in BOOLEAN
           /\ Unreported \subseteq DOMAIN records
  BY DEF RecordsTypeOK, Unreported

LEMMA RecordsType ==
    ASSUME RecordsTypeOK, clock \in 0 .. MaxPeriods, Next
    PROVE  RecordsTypeOK'
<1>1. CASE UNCHANGED <<records, sweepVars>>
  BY <1>1 DEF RecordsTypeOK, sweepVars
<1>2. ASSUME NEW j \in Jobs, JobAction(j) PROVE RecordsTypeOK'
  <2>1. CASE Commit(j)
    <3>1. DOMAIN records \subseteq DOMAIN records'
      BY <2>1, CommitRecords
    <3>2. UNCHANGED <<sweep, disturbed>>
      BY <1>2, JobTouches
    <3>3. SUBSET DOMAIN records \subseteq SUBSET DOMAIN records'
      BY <3>1
    <3>4. sweep' \in [Sweeps -> [todo : SUBSET DOMAIN records',
                                marked : SUBSET DOMAIN records', on : BOOLEAN]]
      BY <3>2, <3>3 DEF RecordsTypeOK
    <3> QED
      BY <2>1, <3>1, <3>2, <3>4, CommitRecords DEF RecordsTypeOK
  <2>2. CASE ~Commit(j)
    BY <1>1, <1>2, <2>2, JobTouches DEF sweepVars
  <2> QED
    BY <2>1, <2>2
<1>3. ASSUME NEW s \in Sweeps, SweepAction(s) PROVE RecordsTypeOK'
  <2>0. /\ NoSweep \in [todo : SUBSET DOMAIN records, marked : SUBSET DOMAIN records,
                        on : BOOLEAN]
        /\ sweep[s] \in [todo : SUBSET DOMAIN records, marked : SUBSET DOMAIN records,
                         on : BOOLEAN]
    BY DEF NoSweep, RecordsTypeOK
  <2>1. CASE StartSweep(s)
    BY <2>1, SweepType DEF StartSweep, RecordsTypeOK
  <2>2. CASE CommitSweep(s)
    BY <2>0, <2>2, MarkRecords DEF CommitSweep, RecordsTypeOK
  <2>3. ASSUME NEW i \in DOMAIN records,
               Reported(s, i) \/ NotReported(s, i) \/ ReportAnswerLost(s, i)
        PROVE  RecordsTypeOK'
    <3>1. /\ invoiced' \in Seq(Nat) /\ Len(invoiced') = Len(records)
          /\ UNCHANGED records
      BY <2>3, CountInvoices DEF Reported, NotReported, ReportAnswerLost, RecordsTypeOK
    <3>2. disturbed' \subseteq DOMAIN records
      BY <2>3 DEF Reported, NotReported, ReportAnswerLost, RecordsTypeOK
    <3>3. \/ sweep' = [sweep EXCEPT ![s].todo = @ \ {i}]
          \/ sweep' = [sweep EXCEPT ![s].todo = @ \ {i}, ![s].marked = @ \cup {i}]
      BY <2>3 DEF Reported, NotReported, ReportAnswerLost
    <3>4. sweep' \in [Sweeps -> [todo : SUBSET DOMAIN records,
                                marked : SUBSET DOMAIN records, on : BOOLEAN]]
      <4> DEFINE Held == [todo : SUBSET DOMAIN records, marked : SUBSET DOMAIN records,
                          on : BOOLEAN]
                 less == [sweep[s] EXCEPT !.todo = @ \ {i}]
                 more == [sweep[s] EXCEPT !.todo = @ \ {i}, !.marked = @ \cup {i}]
      <4>1. sweep \in [Sweeps -> Held]
        BY DEF RecordsTypeOK
      <4>2. less \in Held /\ more \in Held
        BY <2>0
      <4>3. sweep' = [sweep EXCEPT ![s] = less] \/ sweep' = [sweep EXCEPT ![s] = more]
        BY <3>3, <4>1
      <4> QED
        BY <4>1, <4>2, <4>3
    <3> QED
      BY <3>1, <3>2, <3>4 DEF RecordsTypeOK
  <2>4. CASE SweepDies(s)
    BY <2>0, <2>4, SweepType DEF SweepDies, RecordsTypeOK
  <2> QED
    BY <1>3, <2>1, <2>2, <2>3, <2>4 DEF SweepAction, Report
<1> QED
  BY <1>1, <1>2, <1>3, Steps

LEMMA BillingType ==
    ASSUME BillingTypeOK, SessionInv, Next
    PROVE  BillingTypeOK' /\ SessionInv'
<1>0. SubscriptionsTypeOK /\ JobsTypeOK /\ RecordsTypeOK /\ clock \in 0 .. MaxPeriods
  BY TypeParts DEF SubscriptionsTypeOK
<1>1. RecordsTypeOK'
  BY <1>0, RecordsType
<1>2. SubscriptionsTypeOK' /\ SessionInv' /\ JobsTypeOK'
  <2>1. CASE SubscriptionsNext /\ UNCHANGED <<jobVars, records, sweepVars, accidents, mishaps,
                                              excuses>>
    BY <1>0, <2>1, SubscriptionsType DEF JobsTypeOK, jobVars
  <2>2. CASE \E j \in Jobs : JobAction(j)
    BY <1>0, <2>2, JobKeepsSessions, JobsType
  <2>3. ASSUME NEW s \in Sweeps, SweepAction(s)
        PROVE  SubscriptionsTypeOK' /\ SessionInv' /\ JobsTypeOK'
    <3>1. UNCHANGED <<subVars, jobVars, mishaps, excuses>>
      BY <1>0, <2>3, SweepTouches
    <3>2. accidents' \in 0 .. MaxAccidents
      BY <1>0, <2>3, SweepTouches, BillingAssumption DEF Accident, JobsTypeOK
    <3>3. SubscriptionsTypeOK' /\ SessionInv'
      BY <1>0, <3>1 DEF subVars, stripeVars, rowVars, eventVars, SubscriptionsTypeOK,
                        SessionInv, InSession
    <3> QED
      BY <1>0, <3>1, <3>2, <3>3 DEF jobVars, JobsTypeOK
  <2> QED
    BY <2>1, <2>2, <2>3, Steps
<1> QED
  BY <1>1, <1>2, TypeParts, PTL
-----------------------------------------------------------------------------
(* The invoices.                                                           *)

\* InvoiceInv, of one record: what is known of a record nothing disturbed.
Tracked(i) ==
    /\ invoiced[i] <= 1
    /\ \A s \in Sweeps : i \in sweep[s].todo => invoiced[i] = 0
    /\ \A s, o \in Sweeps : i \in HeldBy(s) \cap HeldBy(o) => s = o
    /\ \/ records[i].reported
       \/ \E s \in Sweeps : i \in HeldBy(s)
       \/ invoiced[i] = 0

LEMMA InvoiceKept ==
    ASSUME InvoiceInv, UNCHANGED <<records, sweepVars>>
    PROVE  InvoiceInv'
  BY DEF InvoiceInv, MarkedIsInvoiced, HeldBy, sweepVars

LEMMA InvoiceOfCommit ==
    ASSUME RecordsTypeOK, clock \in 0 .. MaxPeriods, InvoiceInv, NEW j \in Jobs, Commit(j)
    PROVE  InvoiceInv'
<1> DEFINE n == Len(records) + 1
<1>1. /\ DOMAIN records' = DOMAIN records \cup {n}
      /\ n \notin DOMAIN records
      /\ \A i \in DOMAIN records : records'[i] = records[i] /\ invoiced'[i] = invoiced[i]
      /\ records'[n] = [job |-> j, month |-> clock, reported |-> FALSE]
      /\ invoiced'[n] = 0
  BY CommitRecords, Zenon
<1>2. UNCHANGED <<sweep, disturbed>>
  BY DEF Commit
<1>3. \A s \in Sweeps : sweep[s].todo \subseteq DOMAIN records
                        /\ sweep[s].marked \subseteq DOMAIN records
  BY SweepType
<1> HIDE DEF n
<1>4. MarkedIsInvoiced'
  BY <1>1 DEF InvoiceInv, MarkedIsInvoiced
<1>5. \A s \in Sweeps : \A i \in sweep'[s].marked : invoiced'[i] > 0
  BY <1>1, <1>2, <1>3 DEF InvoiceInv
<1>6. ASSUME NEW i \in DOMAIN records' \ disturbed' PROVE Tracked(i)'
  <2>1. CASE i = n
    BY <1>1, <1>2, <1>3, <2>1 DEF Tracked, HeldBy
  <2>2. CASE i # n
    BY <1>1, <1>2, <2>2 DEF InvoiceInv, Tracked, HeldBy
  <2> QED
    BY <2>1, <2>2
<1> QED
  BY <1>4, <1>5, <1>6 DEF InvoiceInv, Tracked

LEMMA InvoiceOfStart ==
    ASSUME RecordsTypeOK, InvoiceInv, NEW s \in Sweeps, StartSweep(s)
    PROVE  InvoiceInv'
<1>1. /\ UNCHANGED <<records, invoiced>>
      /\ \A o \in Sweeps \ {s} : sweep'[o] = sweep[o]
      /\ sweep'[s].todo = Unreported /\ sweep'[s].marked = {}
      /\ disturbed \subseteq disturbed'
      /\ \A i \in Unreported \ disturbed' : \A o \in Sweeps : i \notin HeldBy(o)
  BY DEF StartSweep, RecordsTypeOK
<1>2. MarkedIsInvoiced'
  BY <1>1 DEF InvoiceInv, MarkedIsInvoiced
<1>3. \A o \in Sweeps : \A i \in sweep'[o].marked : invoiced'[i] > 0
  BY <1>1 DEF InvoiceInv
<1>4. ASSUME NEW i \in DOMAIN records' \ disturbed' PROVE Tracked(i)'
  <2>0. i \in DOMAIN records \ disturbed
    BY <1>1, <1>4
  <2>1. Tracked(i)
    BY <2>0 DEF InvoiceInv, Tracked
  <2>2. CASE records[i].reported
    <3>1. i \notin Unreported
      BY <2>2 DEF Unreported
    <3> QED
      BY <1>1, <2>1, <2>2, <3>1 DEF Tracked, HeldBy
  <2>3. CASE ~records[i].reported
    <3>1. i \in Unreported
      BY <2>0, <2>3 DEF Unreported
    <3>2. \A o \in Sweeps : i \notin sweep[o].todo /\ i \notin sweep[o].marked
      BY <1>1, <1>4, <3>1 DEF HeldBy
    <3>3. invoiced[i] = 0
      BY <2>1, <2>3, <3>2 DEF Tracked, HeldBy
    <3> QED
      BY <1>1, <3>1, <3>2, <3>3 DEF Tracked, HeldBy
  <2> QED
    BY <2>2, <2>3
<1> QED
  BY <1>2, <1>3, <1>4 DEF InvoiceInv, Tracked

\* A record leaves what its sweep has still to report.
LEMMA InvoiceOfReport ==
    ASSUME RecordsTypeOK, InvoiceInv, NEW s \in Sweeps, NEW n \in DOMAIN records,
           Reported(s, n) \/ NotReported(s, n) \/ ReportAnswerLost(s, n)
    PROVE  InvoiceInv'
<1>0. sweep[s] \in [todo : SUBSET DOMAIN records, marked : SUBSET DOMAIN records,
                    on : BOOLEAN]
  BY DEF RecordsTypeOK
<1>1. /\ UNCHANGED records
      /\ n \in sweep[s].todo
      /\ \A o \in Sweeps \ {s} : sweep'[o] = sweep[o]
      /\ sweep'[s].todo = sweep[s].todo \ {n}
      /\ \/ Count(n) /\ UNCHANGED disturbed /\ sweep'[s].marked = sweep[s].marked \cup {n}
         \/ UNCHANGED <<invoiced, disturbed>> /\ sweep'[s].marked = sweep[s].marked
         \/ /\ Count(n)
            /\ sweep'[s].marked = sweep[s].marked
            /\ disturbed' = disturbed \cup {n}
  BY <1>0 DEF Reported, NotReported, ReportAnswerLost, RecordsTypeOK
<1>2. /\ \A i \in DOMAIN records : invoiced[i] \in Nat
      /\ \A i \in DOMAIN records \ {n} : invoiced'[i] = invoiced[i]
      /\ invoiced'[n] = invoiced[n] \/ invoiced'[n] = invoiced[n] + 1
      /\ Count(n) => invoiced'[n] = invoiced[n] + 1
  <2>1. CASE Count(n)
    BY <2>1, CountInvoices
  <2>2. CASE UNCHANGED invoiced
    <3>1. \A i \in DOMAIN records : invoiced[i] \in Nat
      BY DEF RecordsTypeOK
    <3>2. Count(n) => invoiced'[n] = invoiced[n] + 1
      BY CountInvoices
    <3> QED
      BY <2>2, <3>1, <3>2
  <2> QED
    BY <1>1, <2>1, <2>2
<1>3. MarkedIsInvoiced'
  BY <1>1, <1>2 DEF InvoiceInv, MarkedIsInvoiced
<1>4. ASSUME NEW o \in Sweeps, NEW i \in sweep'[o].marked PROVE invoiced'[i] > 0
  <2>1. \A k \in sweep[o].marked : k \in DOMAIN records /\ invoiced[k] > 0
    BY SweepType DEF InvoiceInv
  <2>2. CASE o # s
    BY <1>1, <1>2, <1>4, <2>1, <2>2
  <2>3. CASE o = s /\ i \in sweep[s].marked
    BY <1>2, <2>1, <2>3
  <2>4. CASE o = s /\ i \notin sweep[s].marked
    <3>1. i = n /\ Count(n)
      BY <1>1, <1>4, <2>4
    <3> QED
      BY <1>2, <3>1
  <2> QED
    BY <2>2, <2>3, <2>4
<1>5. ASSUME NEW i \in DOMAIN records' \ disturbed' PROVE Tracked(i)'
  <2>0. i \in DOMAIN records \ disturbed
    BY <1>1, <1>5
  <2>1. Tracked(i)
    BY <2>0 DEF InvoiceInv, Tracked
  <2>2. CASE i # n
    <3>1. \A o \in Sweeps : /\ i \in sweep'[o].todo <=> i \in sweep[o].todo
                            /\ i \in sweep'[o].marked <=> i \in sweep[o].marked
      BY <1>1, <2>2
    <3>2. invoiced'[i] = invoiced[i]
      BY <1>2, <2>0, <2>2
    <3> QED
      BY <1>1, <2>1, <3>1, <3>2 DEF Tracked, HeldBy
  <2>3. CASE i = n
    <3>1. /\ invoiced[n] = 0
          /\ \A o \in Sweeps \ {s} : n \notin sweep'[o].todo /\ n \notin sweep'[o].marked
      BY <1>1, <2>1, <2>3 DEF Tracked, HeldBy
    <3>2. n \notin sweep'[s].todo
      BY <1>1
    <3>3. \/ invoiced'[n] = 1 /\ n \in sweep'[s].marked
          \/ invoiced'[n] = 0
      BY <1>1, <1>2, <1>5, <2>3, <3>1
    <3> QED
      BY <2>3, <3>1, <3>2, <3>3 DEF Tracked, HeldBy
  <2> QED
    BY <2>2, <2>3
<1> QED
  BY <1>3, <1>4, <1>5 DEF InvoiceInv, Tracked

\* A sweep ends, with its marks in the records or with the records disturbed.
LEMMA InvoiceOfEnd ==
    ASSUME RecordsTypeOK, InvoiceInv, NEW s \in Sweeps, CommitSweep(s) \/ SweepDies(s)
    PROVE  InvoiceInv'
<1>1. /\ DOMAIN records' = DOMAIN records
      /\ UNCHANGED invoiced
      /\ \A o \in Sweeps \ {s} : sweep'[o] = sweep[o]
      /\ sweep'[s].todo = {} /\ sweep'[s].marked = {}
      /\ \/ /\ sweep[s].todo = {}
            /\ UNCHANGED disturbed
            /\ \A i \in DOMAIN records :
                 records'[i].reported = (records[i].reported \/ i \in sweep[s].marked)
         \/ /\ UNCHANGED records
            /\ disturbed' = disturbed \cup sweep[s].marked
  <2>1. CASE CommitSweep(s)
    BY <2>1, MarkRecords DEF CommitSweep, RecordsTypeOK, NoSweep
  <2>2. CASE SweepDies(s)
    BY <2>2 DEF SweepDies, RecordsTypeOK, NoSweep
  <2> QED
    BY <2>1, <2>2
<1>2. MarkedIsInvoiced'
  BY <1>1 DEF InvoiceInv, MarkedIsInvoiced
<1>3. \A o \in Sweeps : \A i \in sweep'[o].marked : invoiced'[i] > 0
  BY <1>1 DEF InvoiceInv
<1>4. ASSUME NEW i \in DOMAIN records' \ disturbed' PROVE Tracked(i)'
  <2>0. i \in DOMAIN records \ disturbed
    BY <1>1, <1>4
  <2>1. Tracked(i)
    BY <2>0 DEF InvoiceInv, Tracked
  <2>2. /\ invoiced'[i] <= 1
        /\ \A o \in Sweeps : i \in sweep'[o].todo => invoiced'[i] = 0
        /\ \A o, p \in Sweeps : i \in (HeldBy(o) \cap HeldBy(p))' => o = p
    BY <1>1, <2>1 DEF Tracked, HeldBy
  <2>3. \/ records'[i].reported
        \/ \E o \in Sweeps : i \in HeldBy(o)'
        \/ invoiced'[i] = 0
    <3>1. CASE \E o \in Sweeps \ {s} : i \in HeldBy(o)
      BY <1>1, <3>1 DEF HeldBy
    <3>2. CASE i \in HeldBy(s)
      BY <1>1, <1>4, <2>0, <2>1, <3>2 DEF HeldBy, Tracked
    <3>3. CASE records[i].reported \/ invoiced[i] = 0
      BY <1>1, <2>0, <3>3
    <3> QED
      BY <2>1, <3>1, <3>2, <3>3 DEF Tracked
  <2> QED
    BY <2>2, <2>3 DEF Tracked
<1> QED
  BY <1>2, <1>3, <1>4 DEF InvoiceInv, Tracked

LEMMA InvoiceStep ==
    ASSUME BillingTypeOK, InvoiceInv, Next
    PROVE  InvoiceInv'
<1>0. RecordsTypeOK /\ clock \in 0 .. MaxPeriods
  BY TypeParts DEF SubscriptionsTypeOK
<1>1. CASE UNCHANGED <<records, sweepVars>>
  BY <1>1, InvoiceKept
<1>2. ASSUME NEW j \in Jobs, JobAction(j) PROVE InvoiceInv'
  <2>1. CASE Commit(j)
    BY <1>0, <2>1, InvoiceOfCommit
  <2>2. CASE ~Commit(j)
    BY <1>1, <1>2, <2>2, JobTouches DEF sweepVars
  <2> QED
    BY <2>1, <2>2
<1>3. ASSUME NEW s \in Sweeps, SweepAction(s) PROVE InvoiceInv'
  BY <1>0, <1>3, InvoiceOfStart, InvoiceOfReport, InvoiceOfEnd DEF SweepAction, Report
<1> QED
  BY <1>1, <1>2, <1>3, Steps
-----------------------------------------------------------------------------
(* The charges of a job.                                                   *)

LEMMA ChargesNat ==
    ASSUME RecordsTypeOK, NEW k
    PROVE  IsFiniteSet(RecordsOf(k)) /\ Charges(k) \in Nat
<1>1. RecordsOf(k) \subseteq DOMAIN records /\ records \in Seq(UsageRecord)
  BY DEF RecordsOf, RecordsTypeOK
<1> QED
  BY <1>1, FinitePositions DEF Charges

LEMMA ChargesKept ==
    ASSUME RecordsKept, NEW k
    PROVE  RecordsOf(k)' = RecordsOf(k) /\ Charges(k)' = Charges(k)
<1>1. RecordsOf(k)' = RecordsOf(k)
  BY DEF RecordsKept, RecordsOf
<1> QED
  BY <1>1 DEF Charges

LEMMA ChargesOfCommit ==
    ASSUME RecordsTypeOK, clock \in 0 .. MaxPeriods, NEW j \in Jobs, Commit(j)
    PROVE  /\ Charges(j)' = Charges(j) + 1
           /\ RecordsOf(j)' # {}
           /\ \A k \in Jobs \ {j} : RecordsOf(k)' = RecordsOf(k) /\ Charges(k)' = Charges(k)
<1> DEFINE n == Len(records) + 1
<1>1. /\ DOMAIN records' = DOMAIN records \cup {n}
      /\ n \notin DOMAIN records
      /\ \A i \in DOMAIN records : records'[i] = records[i]
      /\ records'[n] = [job |-> j, month |-> clock, reported |-> FALSE]
  BY CommitRecords, Zenon
<1> HIDE DEF n
<1>2. RecordsOf(j)' = RecordsOf(j) \cup {n} /\ n \notin RecordsOf(j)
  BY <1>1 DEF RecordsOf
<1>3. ASSUME NEW k \in Jobs \ {j} PROVE RecordsOf(k)' = RecordsOf(k)
  BY <1>1 DEF RecordsOf
<1>4. Charges(j)' = Charges(j) + 1
  BY <1>2, ChargesNat, OneMore DEF Charges
<1> QED
  BY <1>2, <1>3, <1>4 DEF Charges

\* No step but a charge changes whose records there are.
LEMMA KeepsRecords ==
    ASSUME BillingTypeOK, Next, \A j \in Jobs : ~(JobAction(j) /\ Commit(j))
    PROVE  RecordsKept
<1>1. CASE UNCHANGED records
  BY <1>1 DEF RecordsKept
<1>2. ASSUME NEW s \in Sweeps, SweepAction(s) PROVE RecordsKept
  <2>1. CASE CommitSweep(s)
    BY <2>1, MarkRecords, TypeParts
  <2>2. CASE ~CommitSweep(s)
    BY <1>1, <1>2, <2>2 DEF SweepAction, Report, StartSweep, Reported, NotReported,
                            SweepDies, ReportAnswerLost
  <2> QED
    BY <2>1, <2>2
<1>3. ASSUME NEW j \in Jobs, JobAction(j) PROVE RecordsKept
  BY <1>1, <1>3, JobTouches
<1> QED
  BY <1>1, <1>2, <1>3, Steps

\* ChargeInv, of one job.
ChargeOf(j) ==
    /\ Charges(j) <= mishaps[j]
                     + (IF phase[j] \in Spent THEN 1 ELSE 0)
    /\ phase[j] \in {"charged", "completed"} => RecordsOf(j) # {}

\* The job itself: what each of its steps leaves of its phase and its mishaps.
LEMMA ChargeOfJob ==
    ASSUME JobsTypeOK, RecordsTypeOK, clock \in 0 .. MaxPeriods, NEW j \in Jobs,
           JobAction(j), Commit(j) \/ RecordsKept, ChargeOf(j)
    PROVE  ChargeOf(j)'
<1>0. /\ phase \in [Jobs -> Phases] /\ mishaps \in [Jobs -> Nat]
      /\ mishaps[j] \in Nat /\ Charges(j) \in Nat
  BY ChargesNat DEF JobsTypeOK
<1>k. UNCHANGED records => Charges(j)' = Charges(j) /\ RecordsOf(j)' = RecordsOf(j)
  BY ChargesKept DEF RecordsKept
<1>1. CASE Ask(j) \/ AskUnchecked(j) \/ Begin(j) \/ BeginFails(j) \/ Built(j)
           \/ BuildFails(j) \/ LoadSubscription(j) \/ ChargeFails(j)
  <2>1. /\ phase[j] \in {"idle", "queued", "working", "built", "charging"}
        /\ phase'[j] \notin {"charged", "completed"}
        /\ UNCHANGED <<records, mishaps>>
    BY <1>0, <1>1 DEF Ask, AskUnchecked, Answer, Begin, BeginFails, Built, BuildFails,
                      Raise, Retry, Swallow, LoadSubscription, ChargeFails
  <2> QED
    BY <1>0, <1>k, <2>1 DEF ChargeOf, Spent
<1>2. CASE Charge(j)
  <2>1. /\ phase[j] = "charging" /\ phase'[j] \in {"charged", "over"}
        /\ UNCHANGED mishaps /\ Commit(j)
    BY <1>0, <1>2 DEF Charge
  <2> QED
    BY <1>0, <2>1, ChargesOfCommit DEF ChargeOf, Spent
<1>3. CASE ChargeAnswerLost(j)
  <2>1. /\ phase[j] = "charging" /\ Commit(j)
        /\ \/ phase'[j] = "queued" /\ mishaps'[j] = mishaps[j] + 1
           \/ phase'[j] \in {"failed", "over"} /\ UNCHANGED mishaps
    BY <1>0, <1>3 DEF ChargeAnswerLost, Raise, Retry, Swallow, ChargedAlready
  <2> QED
    BY <1>0, <2>1, ChargesOfCommit DEF ChargeOf, Spent
<1>4. CASE Finish(j)
  <2>1. /\ phase[j] = "charged" /\ phase'[j] = "completed"
        /\ UNCHANGED <<records, mishaps>>
    BY <1>0, <1>4 DEF Finish
  <2> QED
    BY <1>0, <1>k, <2>1 DEF ChargeOf, Spent
<1>5. CASE FinishFails(j)
  <2>1. /\ phase[j] = "charged" /\ UNCHANGED records
        /\ \/ phase'[j] = "queued" /\ mishaps'[j] = mishaps[j] + 1
           \/ phase'[j] = "failed" /\ UNCHANGED mishaps
    BY <1>0, <1>5 DEF FinishFails, Retry, ChargedAlready
  <2> QED
    BY <1>0, <1>k, <2>1 DEF ChargeOf, Spent
<1>6. CASE Lose(j)
  <2>1. /\ UNCHANGED records
        /\ \/ /\ phase[j] = "charged"
              /\ \/ phase'[j] = "queued" /\ mishaps'[j] = mishaps[j] + 1
                 \/ phase'[j] = "over" /\ UNCHANGED mishaps
           \/ /\ phase[j] \notin Spent
              /\ phase'[j] \in {"queued", "over"} /\ UNCHANGED mishaps
    <3>1. phase'[j] \in {"queued", "over"} /\ phase[j] \in Running /\ UNCHANGED records
      BY <1>0, <1>6 DEF Lose
    <3>2. CASE phase[j] = "charged"
      <4>1. ChargedAlready(j)
        BY <1>6, <3>2 DEF Lose
      <4> QED
        BY <1>0, <3>1, <3>2, <4>1 DEF ChargedAlready
    <3>3. CASE phase[j] # "charged"
      BY <1>6, <3>1, <3>3 DEF Lose, Running, Spent
    <3> QED
      BY <3>2, <3>3
  <2> QED
    BY <1>0, <1>k, <2>1 DEF ChargeOf, Spent
<1>7. CASE TimeOut(j) \/ Revoke(j)
  <2>1. phase'[j] \in {"failed", "cancelled"} /\ UNCHANGED <<records, mishaps>>
    BY <1>0, <1>7 DEF TimeOut, Revoke, Kill
  <2> QED
    BY <1>0, <1>k, <2>1 DEF ChargeOf, Spent
<1> QED
  BY <1>1, <1>2, <1>3, <1>4, <1>5, <1>6, <1>7 DEF JobAction, Work

\* Another job's phase, rows, tries and mishaps are not the job's business.
LEMMA OtherJobs ==
    ASSUME JobsTypeOK, NEW j \in Jobs, JobAction(j), NEW k \in Jobs \ {j}
    PROVE  phase'[k] = phase[k] /\ rows'[k] = rows[k] /\ mishaps'[k] = mishaps[k]
<1>1. CASE Ask(j) \/ AskUnchecked(j)
  BY <1>1 DEF Ask, AskUnchecked, Answer, JobsTypeOK
<1>2. CASE Begin(j) \/ Built(j) \/ LoadSubscription(j) \/ Finish(j)
  BY <1>2 DEF Begin, Built, LoadSubscription, Finish, LastRow, NewRow, JobsTypeOK
<1>3. CASE BuildFails(j) \/ ChargeFails(j)
  BY <1>3 DEF BuildFails, ChargeFails, Raise, Retry, Swallow, LastRow, NewRow, JobsTypeOK
<1>4. CASE Charge(j)
  BY <1>4 DEF Charge, JobsTypeOK
<1>5. CASE ChargeAnswerLost(j)
  BY <1>5 DEF ChargeAnswerLost, Raise, Retry, Swallow, ChargedAlready, LastRow, NewRow,
              JobsTypeOK
<1>6. CASE Lose(j)
  BY <1>6 DEF Lose, ChargedAlready, JobsTypeOK
<1>7. CASE BeginFails(j) \/ FinishFails(j)
  BY <1>7 DEF BeginFails, FinishFails, Retry, ChargedAlready, JobsTypeOK
<1>8. CASE TimeOut(j) \/ Revoke(j)
  BY <1>8 DEF TimeOut, Revoke, Kill, JobsTypeOK
<1> QED
  BY <1>1, <1>2, <1>3, <1>4, <1>5, <1>6, <1>7, <1>8 DEF JobAction, Work

LEMMA ChargeStep ==
    ASSUME BillingTypeOK, ChargeInv, Next
    PROVE  ChargeInv'
<1>0. RecordsTypeOK /\ JobsTypeOK /\ clock \in 0 .. MaxPeriods
  BY TypeParts DEF SubscriptionsTypeOK
<1>1. \A k \in Jobs : ChargeOf(k)
  BY DEF ChargeInv, ChargeOf
<1>2. ASSUME NEW k \in Jobs PROVE ChargeOf(k)'
  <2>1. CASE UNCHANGED <<phase, mishaps>> /\ \A j \in Jobs : ~(JobAction(j) /\ Commit(j))
    BY <1>1, <2>1, KeepsRecords, ChargesKept DEF ChargeOf
  <2>2. ASSUME NEW j \in Jobs, JobAction(j) PROVE ChargeOf(k)'
    <3>1. Commit(j) \/ RecordsKept
      BY <2>2, JobTouches DEF RecordsKept
    <3>2. CASE k = j
      BY <1>0, <1>1, <2>2, <3>1, <3>2, ChargeOfJob
    <3>3. CASE k # j
      <4>1. RecordsOf(k)' = RecordsOf(k) /\ Charges(k)' = Charges(k)
        BY <1>0, <3>1, <3>3, ChargesKept, ChargesOfCommit
      <4>2. phase'[k] = phase[k] /\ mishaps'[k] = mishaps[k]
        BY <1>0, <2>2, <3>3, OtherJobs
      <4> QED
        BY <1>1, <4>1, <4>2 DEF ChargeOf
    <3> QED
      BY <3>2, <3>3
  <2>3. CASE ~\E j \in Jobs : JobAction(j)
    <3>1. UNCHANGED <<phase, mishaps>>
      BY <1>0, <2>3, Steps, SweepTouches DEF jobVars
    <3> QED
      BY <2>1, <2>3, <3>1
  <2> QED
    BY <2>2, <2>3
<1> QED
  BY <1>2 DEF ChargeInv, ChargeOf
-----------------------------------------------------------------------------
(* The history behind a charge.                                            *)

LEMMA CountedNat ==
    ASSUME JobsTypeOK, NEW k \in Jobs
    PROVE  IsFiniteSet(CountedRows(k)) /\ Cardinality(CountedRows(k)) \in Nat
<1>1. CountedRows(k) \subseteq DOMAIN rows[k] /\ rows[k] \in Seq(RowStatuses)
  BY DEF CountedRows, JobsTypeOK
<1> QED
  BY <1>1, FinitePositions

\* A new row counts if it is a queued job's, or says that the part was built.
LEMMA CountedNew ==
    ASSUME JobsTypeOK, NEW j \in Jobs, NEW status \in RowStatuses, NewRow(j, status)
    PROVE  IF j \in Queued \/ status = "completed"
           THEN Cardinality(CountedRows(j))' = Cardinality(CountedRows(j)) + 1
           ELSE CountedRows(j)' = CountedRows(j)
<1> DEFINE q == rows[j]
           n == Len(q) + 1
<1>1. q \in Seq(RowStatuses) /\ Len(q) \in Nat /\ DOMAIN q = 1 .. Len(q)
  BY DEF JobsTypeOK
<1>2. rows'[j] = Append(q, status)
  BY DEF NewRow, JobsTypeOK
<1>3. /\ \A i \in 1 .. Len(q) : Append(q, status)[i] = q[i]
      /\ Append(q, status)[n] = status
      /\ DOMAIN Append(q, status) = 1 .. n
  BY <1>1, AppendProperties
<1>4. 1 .. n = DOMAIN q \cup {n} /\ n \notin DOMAIN q
  BY <1>1
<1> HIDE DEF n
<1>5. /\ DOMAIN rows'[j] = DOMAIN rows[j] \cup {n} /\ n \notin DOMAIN rows[j]
      /\ \A i \in DOMAIN rows[j] : rows'[j][i] = rows[j][i]
      /\ rows'[j][n] = status
  BY <1>1, <1>2, <1>3, <1>4
<1>6. CASE j \in Queued \/ status = "completed"
  <2>1. CountedRows(j)' = CountedRows(j) \cup {n} /\ n \notin CountedRows(j)
    BY <1>5, <1>6 DEF CountedRows, Studio
  <2> QED
    BY <1>6, <2>1, CountedNat, OneMore
<1>7. CASE ~(j \in Queued \/ status = "completed")
  <2>1. CountedRows(j)' = CountedRows(j)
    BY <1>5, <1>7 DEF CountedRows, Studio
  <2> QED
    BY <1>7, <2>1
<1> QED
  BY <1>6, <1>7

\* Every row of a queued job counts, whatever becomes of it.
LEMMA CountedLast ==
    ASSUME JobsTypeOK, NEW j \in Queued, NEW status \in RowStatuses, LastRow(j, status)
    PROVE  CountedRows(j)' = CountedRows(j)
<1>1. j \in Jobs /\ j \notin Studio
  BY BillingAssumption DEF Studio
<1>2. rows'[j] = [rows[j] EXCEPT ![Len(rows[j])] = status]
  BY <1>1 DEF LastRow, JobsTypeOK
<1>3. DOMAIN rows'[j] = DOMAIN rows[j]
  BY <1>2
<1> QED
  BY <1>1, <1>3 DEF CountedRows

\* HistoryInv, of one job.
HistoryOf(j) == Charges(j) + (IF Ahead(j) THEN 1 ELSE 0) <= Cardinality(CountedRows(j))

\* Whether it raises or gives up, a job keeps the rows it has.
LEMMA CountedFails ==
    ASSUME JobsTypeOK, NEW j \in Jobs,
           \/ j \in Queued /\ Raise(j)
           \/ Swallow(j)
           \/ j \notin Queued /\ NewRow(j, "failed") /\ phase' = [phase EXCEPT ![j] = "over"]
    PROVE  CountedRows(j)' = CountedRows(j) /\ ~Ahead(j)'
<1>0. "failed" \in RowStatuses
  BY DEF RowStatuses
<1>1. phase'[j] \in {"queued", "failed", "over"}
  BY DEF Raise, Retry, Swallow, JobsTypeOK
<1>2. CASE UNCHANGED rows
  BY <1>1, <1>2 DEF CountedRows, Ahead
<1>3. CASE j \in Queued /\ LastRow(j, "failed")
  BY <1>0, <1>1, <1>3, CountedLast DEF Ahead
<1>4. CASE j \notin Queued /\ NewRow(j, "failed")
  BY <1>0, <1>1, <1>4, CountedNew DEF Ahead
<1> QED
  BY <1>2, <1>3, <1>4 DEF Raise, Swallow

LEMMA HistoryOfJob ==
    ASSUME JobsTypeOK, RecordsTypeOK, clock \in 0 .. MaxPeriods, NEW j \in Jobs,
           JobAction(j), HistoryOf(j)
    PROVE  HistoryOf(j)'
<1>0. /\ phase \in [Jobs -> Phases]
      /\ Charges(j) \in Nat /\ Cardinality(CountedRows(j)) \in Nat
      /\ "processing" \in RowStatuses /\ "completed" \in RowStatuses
  BY ChargesNat, CountedNat DEF JobsTypeOK, RowStatuses
<1>r. UNCHANGED records => Charges(j)' = Charges(j)
  BY ChargesKept DEF RecordsKept
<1>1. CASE Ask(j) \/ AskUnchecked(j)
  <2>1. /\ phase[j] = "idle" /\ UNCHANGED <<rows, records>>
        /\ phase'[j] \in {"refused", "queued", "working"}
        /\ phase'[j] = "working" => j \notin Queued
    BY <1>0, <1>1 DEF Ask, AskUnchecked, Answer
  <2>2. ~Ahead(j) /\ ~Ahead(j)' /\ CountedRows(j)' = CountedRows(j)
    BY <2>1 DEF Ahead, CountedRows
  <2> QED
    BY <1>0, <1>r, <2>1, <2>2 DEF HistoryOf
<1>2. CASE Begin(j)
  <2>1. /\ phase[j] = "queued" /\ phase'[j] = "working" /\ UNCHANGED records
        /\ NewRow(j, "processing")
    BY <1>0, <1>2 DEF Begin
  <2>2. ~Ahead(j) /\ (Ahead(j)' <=> j \in Queued)
    BY <2>1 DEF Ahead
  <2>3. IF j \in Queued
        THEN Cardinality(CountedRows(j))' = Cardinality(CountedRows(j)) + 1
        ELSE CountedRows(j)' = CountedRows(j)
    BY <1>0, <2>1, CountedNew
  <2> QED
    BY <1>0, <1>r, <2>1, <2>2, <2>3 DEF HistoryOf
<1>3. CASE Built(j)
  <2>1. /\ phase[j] = "working" /\ phase'[j] = "built" /\ UNCHANGED records
        /\ IF j \in Queued THEN LastRow(j, "completed") ELSE NewRow(j, "completed")
    BY <1>0, <1>3 DEF Built
  <2>2. Ahead(j)' /\ (Ahead(j) <=> j \in Queued)
    BY <2>1 DEF Ahead
  <2>3. IF j \in Queued
        THEN CountedRows(j)' = CountedRows(j)
        ELSE Cardinality(CountedRows(j))' = Cardinality(CountedRows(j)) + 1
    BY <1>0, <2>1, CountedNew, CountedLast
  <2> QED
    BY <1>0, <1>r, <2>1, <2>2, <2>3 DEF HistoryOf
<1>4. CASE BuildFails(j) \/ ChargeFails(j)
  <2>1. /\ UNCHANGED records
        /\ \/ j \in Queued /\ Raise(j)
           \/ Swallow(j)
           \/ j \notin Queued /\ NewRow(j, "failed") /\ phase' = [phase EXCEPT ![j] = "over"]
    BY <1>4 DEF BuildFails, ChargeFails
  <2>2. CountedRows(j)' = CountedRows(j) /\ ~Ahead(j)'
    BY <2>1, CountedFails
  <2> QED
    BY <1>0, <1>r, <2>1, <2>2 DEF HistoryOf
<1>5. CASE LoadSubscription(j) \/ BeginFails(j) \/ Finish(j) \/ FinishFails(j)
           \/ Lose(j) \/ TimeOut(j) \/ Revoke(j)
  <2>1. /\ UNCHANGED <<rows, records>>
        /\ \/ phase[j] = "built" /\ phase'[j] = "charging"
           \/ phase'[j] \in {"completed", "queued", "failed", "cancelled", "over"}
    BY <1>0, <1>5 DEF LoadSubscription, BeginFails, Finish, FinishFails, Retry, Lose,
                      TimeOut, Revoke, Kill
  <2>2. CountedRows(j)' = CountedRows(j) /\ (Ahead(j)' => Ahead(j))
    BY <2>1 DEF Ahead, CountedRows
  <2> QED
    BY <1>0, <1>r, <2>1, <2>2 DEF HistoryOf
<1>6. CASE Charge(j) \/ ChargeAnswerLost(j)
  <2>1. /\ phase[j] = "charging" /\ Commit(j)
        /\ CountedRows(j)' = CountedRows(j) /\ ~Ahead(j)'
    <3>1. CASE Charge(j)
      BY <1>0, <3>1 DEF Charge, CountedRows, Ahead
    <3>2. CASE ChargeAnswerLost(j)
      BY <3>2, CountedFails DEF ChargeAnswerLost
    <3> QED
      BY <1>6, <3>1, <3>2
  <2>2. Ahead(j)
    BY <2>1 DEF Ahead
  <2>3. Charges(j)' = Charges(j) + 1
    BY <2>1, ChargesOfCommit
  <2> QED
    BY <1>0, <2>1, <2>2, <2>3 DEF HistoryOf
<1> QED
  BY <1>1, <1>2, <1>3, <1>4, <1>5, <1>6 DEF JobAction, Work

LEMMA HistoryStep ==
    ASSUME BillingTypeOK, HistoryInv, Next
    PROVE  HistoryInv'
<1>0. RecordsTypeOK /\ JobsTypeOK /\ clock \in 0 .. MaxPeriods
  BY TypeParts DEF SubscriptionsTypeOK
<1>1. \A k \in Jobs : HistoryOf(k)
  BY DEF HistoryInv, HistoryOf
<1>2. ASSUME NEW k \in Jobs PROVE HistoryOf(k)'
  <2>1. ASSUME NEW j \in Jobs, JobAction(j) PROVE HistoryOf(k)'
    <3>1. Commit(j) \/ RecordsKept
      BY <2>1, JobTouches DEF RecordsKept
    <3>2. CASE k = j
      BY <1>0, <1>1, <2>1, <3>2, HistoryOfJob
    <3>3. CASE k # j
      <4>1. Charges(k)' = Charges(k)
        BY <1>0, <3>1, <3>3, ChargesKept, ChargesOfCommit
      <4>2. phase'[k] = phase[k] /\ rows'[k] = rows[k]
        BY <1>0, <2>1, <3>3, OtherJobs
      <4> QED
        BY <1>1, <4>1, <4>2 DEF HistoryOf, Ahead, CountedRows
    <3> QED
      BY <3>2, <3>3
  <2>2. CASE ~\E j \in Jobs : JobAction(j)
    <3>1. UNCHANGED <<phase, rows>>
      BY <1>0, <2>2, Steps, SweepTouches DEF jobVars
    <3>2. Charges(k)' = Charges(k)
      BY <2>2, KeepsRecords, ChargesKept
    <3> QED
      BY <1>1, <3>1, <3>2 DEF HistoryOf, Ahead, CountedRows
  <2> QED
    BY <2>1, <2>2
<1> QED
  BY <1>2 DEF HistoryInv, HistoryOf
-----------------------------------------------------------------------------
(* The counter.                                                            *)

LEMMA NoRowIsNone ==
    NoRow \notin Row /\ NoRow.used = 0
  BY DEF NoRow, Row, Statuses

\* What a handler does to the counter of the row.
LEMMA HandlerCounts ==
    ASSUME NEW row \in Row \cup {NoRow}, NEW e \in Event,
           process_webhook_event(row, e) # NoRow, clock \in 0 .. MaxPeriods
    PROVE  IF ZeroesCounter(e)
           THEN process_webhook_event(row, e).used = 0
           ELSE row # NoRow /\ process_webhook_event(row, e).used = row.used
<1>1. CASE e.type = "checkout"
  <2>1. CASE row = NoRow
    BY <1>1, <2>1 DEF process_webhook_event, handle_checkout_session_completed,
                      ZeroesCounter
  <2>2. CASE row # NoRow
    BY <1>1, <2>2 DEF process_webhook_event, handle_checkout_session_completed,
                      ZeroesCounter, Row
  <2> QED
    BY <2>1, <2>2
<1>2. CASE e.type # "checkout"
  <2>1. row # NoRow /\ row \in Row
    BY <1>2 DEF process_webhook_event
  <2>2. e.type \in {"updated", "deleted", "paid", "failed"}
    BY <1>2 DEF Event
  <2>3. /\ handle_subscription_updated(row, e).used = row.used
        /\ handle_subscription_deleted(row).used = row.used
        /\ handle_invoice_paid(row, e).used = 0
        /\ handle_invoice_payment_failed(row).used = row.used
    BY <2>1 DEF handle_subscription_updated, handle_subscription_deleted,
                handle_invoice_paid, handle_invoice_payment_failed, Row
  <2> QED
    BY <1>2, <2>1, <2>2, <2>3 DEF process_webhook_event, ZeroesCounter
<1> QED
  BY <1>1, <1>2

\* Whoever writes the row without a race: the counter before and after.
LEMMA RowStep ==
    ASSUME BillingTypeOK, SessionInv, Next, ~raced'
    PROVE  /\ ~raced
           /\ \/ UNCHANGED <<sub, resets>>
              \/ sub' # NoRow /\ sub'.used = 0 /\ resets' = 0
              \/ /\ sub # NoRow /\ sub' # NoRow
                 /\ UNCHANGED resets
                 /\ sub'.used = sub.used
              \/ /\ \E j \in Jobs : JobAction(j) /\ Commit(j)
                 /\ resets' = resets + 1
                 /\ IF sub = NoRow THEN sub' = NoRow
                                   ELSE sub' # NoRow /\ sub'.used = sub.used + 1
<1>0. SubscriptionsTypeOK /\ RecordsTypeOK
  BY TypeParts
<1>1. CASE UNCHANGED <<sub, resets, raced>>
  BY <1>1
<1>2. ASSUME NEW h \in Handlers, Handled(h)
      PROVE  /\ ~raced
             /\ \/ UNCHANGED <<sub, resets>>
                \/ sub' # NoRow /\ sub'.used = 0 /\ resets' = 0
                \/ /\ sub # NoRow /\ sub' # NoRow
                   /\ UNCHANGED resets
                   /\ sub'.used = sub.used
  <2> DEFINE e == emitted[session[h].event]
             old == session[h].row
             new == process_webhook_event(old, e)
  <2>1. /\ e \in Event /\ old \in Row \cup {NoRow}
        /\ ~raced /\ sub = old /\ sub' = new
        /\ new = NoRow => old = NoRow
    BY <1>0, <1>2, HandledType
  <2>2. resets' = IF ZeroesCounter(e) /\ new # NoRow THEN 0 ELSE resets
    BY <1>2 DEF Handled
  <2>3. clock \in 0 .. MaxPeriods
    BY <1>0 DEF SubscriptionsTypeOK
  <2>4. new # NoRow => IF ZeroesCounter(e) THEN new.used = 0
                       ELSE old # NoRow /\ new.used = old.used
    BY <2>1, <2>3, HandlerCounts
  <2> HIDE DEF new, old, e
  <2> QED
    BY <2>1, <2>2, <2>4
<1>3. CASE reset_monthly_usage
  <2> DEFINE old == session["reset"].row
             new == [old EXCEPT !.used = 0, !.ends = clock + 1]
  <2>1. /\ old \in Row /\ new \in Row /\ ~raced /\ sub' = new
    BY <1>0, <1>3, ResetType
  <2>2. new.used = 0
    BY <2>1 DEF Row
  <2>3. resets' = 0
    BY <1>3 DEF reset_monthly_usage
  <2> QED
    BY <2>1, <2>2, <2>3, NoRowIsNone
<1>4. ASSUME NEW j \in Jobs, JobAction(j), Commit(j)
      PROVE  /\ ~raced
             /\ resets' = resets + 1
             /\ IF sub = NoRow THEN sub' = NoRow
                               ELSE sub' # NoRow /\ sub'.used = sub.used + 1
  <2> DEFINE old == session[j].row
             new == IF old = NoRow THEN old ELSE [old EXCEPT !.used = @ + 1]
  <2>1. /\ old \in Row \cup {NoRow}
        /\ new \in Row \/ (new = NoRow /\ old = NoRow)
        /\ ~raced /\ sub = old /\ sub' = new
    BY <1>0, <1>4, CommitType
  <2>2. old # NoRow => new \in Row /\ new.used = old.used + 1
    BY <2>1 DEF Row
  <2>3. resets' = resets + 1
    BY <1>4 DEF Commit
  <2> QED
    BY <2>1, <2>2, <2>3, NoRowIsNone
<1>5. CASE SubscriptionsNext
  <2>1. CASE Subscribe \/ Renew \/ PaymentFails \/ Recover \/ End
    BY <1>0, <1>1, <2>1, StripeStep DEF rowVars
  <2>2. CASE PeriodEnds
    BY <1>1, <2>2 DEF PeriodEnds, rowVars
  <2>3. CASE SelectOverdue
    BY <1>1, <2>3 DEF SelectOverdue
  <2>4. ASSUME NEW h \in Handlers, Receive(h) PROVE UNCHANGED <<sub, resets, raced>>
    BY <2>4 DEF Receive
  <2>5. ASSUME NEW w \in Handlers \cup {"reset"}, Dropped(w)
        PROVE  UNCHANGED <<sub, resets, raced>>
    BY <2>5 DEF Dropped
  <2> QED
    BY <1>1, <1>2, <1>3, <1>5, <2>1, <2>2, <2>3, <2>4, <2>5 DEF SubscriptionsNext
<1>6. ASSUME NEW j \in Jobs, JobAction(j), ~Commit(j) PROVE UNCHANGED <<sub, resets, raced>>
  BY <1>6, JobTouches
<1>7. ASSUME NEW s \in Sweeps, SweepAction(s) PROVE UNCHANGED <<sub, resets, raced>>
  BY <1>0, <1>7, SweepTouches DEF subVars, rowVars
<1> QED
  BY <1>1, <1>4, <1>5, <1>6, <1>7, Steps

LEMMA CounterStep ==
    ASSUME BillingTypeOK, SessionInv, CounterInv, Next
    PROVE  CounterInv'
<1>1. SUFFICES ASSUME sub' # NoRow, ~raced' PROVE sub'.used = resets'
  BY DEF CounterInv, CounterIsExact
<1>2. sub # NoRow /\ ~raced => sub.used = resets
  BY DEF CounterInv, CounterIsExact
<1> QED
  BY <1>1, <1>2, RowStep
-----------------------------------------------------------------------------
(* The allowance.                                                          *)

\* This month's records, which a user without a subscription is measured by.
ThisMonth == {i \in DOMAIN records : records[i].month = clock}

LEMMA InFlightFinite ==
    IsFiniteSet(InFlight) /\ Cardinality(InFlight) \in Nat
<1>1. InFlight \subseteq Jobs
  BY DEF InFlight
<1> QED
  BY <1>1, BillingAssumption, FS_Subset, FS_CardinalityType

LEMMA ThisMonthFinite ==
    ASSUME RecordsTypeOK
    PROVE  IsFiniteSet(ThisMonth) /\ Cardinality(ThisMonth) \in Nat
<1>1. ThisMonth \subseteq DOMAIN records /\ records \in Seq(UsageRecord)
  BY DEF ThisMonth, RecordsTypeOK
<1> QED
  BY <1>1, FinitePositions

\* How the jobs in flight change when one job does.
LEMMA InFlightStep ==
    ASSUME JobsTypeOK, JobsTypeOK', NEW j \in Jobs, \A k \in Jobs \ {j} : phase'[k] = phase[k]
    PROVE  /\ Cardinality(InFlight') \in Nat
           /\ Cardinality(InFlight') <= Cardinality(InFlight) + 1
           /\ InFlight = {} => Cardinality(InFlight') <= 1
           /\ phase'[j] \notin Uncharged \/ phase[j] \in Uncharged
              => Cardinality(InFlight') <= Cardinality(InFlight)
           /\ phase'[j] \notin Uncharged /\ phase[j] \in Uncharged
              => Cardinality(InFlight') + 1 = Cardinality(InFlight)
<1>1. InFlight' = {k \in Jobs : phase'[k] \in Uncharged}
  BY DEF InFlight, Uncharged
<1>2. /\ IsFiniteSet(InFlight) /\ Cardinality(InFlight) \in Nat
      /\ IsFiniteSet(InFlight') /\ Cardinality(InFlight') \in Nat
  <2>1. InFlight' \subseteq Jobs
    BY <1>1
  <2> QED
    BY <2>1, InFlightFinite, BillingAssumption, FS_Subset, FS_CardinalityType
<1>3. InFlight = {} => Cardinality(InFlight) = 0
  BY FS_EmptySet
<1>4. CASE phase'[j] \in Uncharged /\ phase[j] \notin Uncharged
  <2>1. InFlight' = InFlight \cup {j} /\ j \notin InFlight
    BY <1>1, <1>4 DEF InFlight
  <2>2. Cardinality(InFlight') = Cardinality(InFlight) + 1
    BY <1>2, <2>1, OneMore
  <2> QED
    BY <1>2, <1>4, <1>3, <2>2
<1>5. CASE phase'[j] \notin Uncharged /\ phase[j] \in Uncharged
  <2>1. InFlight = InFlight' \cup {j} /\ j \notin InFlight'
    BY <1>1, <1>5 DEF InFlight
  <2>2. Cardinality(InFlight) = Cardinality(InFlight') + 1
    BY <1>2, <2>1, OneMore
  <2> QED
    BY <1>2, <1>5, <2>1, <2>2
<1>6. CASE phase'[j] \in Uncharged <=> phase[j] \in Uncharged
  <2>1. InFlight' = InFlight
    BY <1>1, <1>6 DEF InFlight
  <2> QED
    BY <1>2, <1>6, <1>3, <2>1
<1> QED
  BY <1>4, <1>5, <1>6

\* What every job's step does to the jobs in flight and to the excuses: it may
\* add one under the limit, or with an excuse, and a charge takes one off.
LEMMA JobInFlight ==
    ASSUME BillingTypeOK, JobsTypeOK', NEW j \in Jobs, JobAction(j)
    PROVE  /\ Cardinality(InFlight') \in Nat
           /\ \/ /\ InFlight = {} /\ UsedNow < LimitNow
                 /\ Cardinality(InFlight') <= 1
                 /\ UNCHANGED <<excuses, records, sub, raced>>
              \/ /\ Cardinality(InFlight') <= Cardinality(InFlight) + 1
                 /\ excuses' = excuses + 1
                 /\ UNCHANGED <<records, sub, raced>>
              \/ /\ Cardinality(InFlight') <= Cardinality(InFlight)
                 /\ UNCHANGED <<excuses, records, sub, raced>>
              \/ /\ Cardinality(InFlight') <= Cardinality(InFlight)
                 /\ excuses' = excuses + 1
                 /\ Commit(j)
              \/ /\ Cardinality(InFlight') + 1 = Cardinality(InFlight)
                 /\ UNCHANGED excuses
                 /\ Commit(j)
<1>0. /\ JobsTypeOK /\ phase \in [Jobs -> Phases]
      /\ \A k \in Jobs \ {j} : phase'[k] = phase[k]
  BY TypeParts, OtherJobs DEF JobsTypeOK
<1>s. /\ Cardinality(InFlight') \in Nat
      /\ Cardinality(InFlight') <= Cardinality(InFlight) + 1
      /\ InFlight = {} => Cardinality(InFlight') <= 1
      /\ phase'[j] \notin Uncharged \/ phase[j] \in Uncharged
         => Cardinality(InFlight') <= Cardinality(InFlight)
      /\ phase'[j] \notin Uncharged /\ phase[j] \in Uncharged
         => Cardinality(InFlight') + 1 = Cardinality(InFlight)
  BY <1>0, InFlightStep
<1>1. CASE Ask(j)
  <2>1. /\ UNCHANGED <<records, sub, raced>>
        /\ ~check_usage_limit => phase'[j] = "refused" /\ UNCHANGED excuses
        /\ check_usage_limit /\ InFlight = {} => UNCHANGED excuses
        /\ check_usage_limit /\ InFlight # {} => excuses' = excuses + 1
    BY <1>0, <1>1 DEF Ask, Answer, subVars, rowVars
  <2>2. "refused" \notin Uncharged
    BY DEF Uncharged
  <2>3. check_usage_limit => UsedNow < LimitNow
    BY DEF check_usage_limit
  <2> QED
    BY <1>s, <2>1, <2>2, <2>3
<1>2. CASE AskUnchecked(j)
  <2>1. UNCHANGED <<records, sub, raced>> /\ excuses' = excuses + 1
    BY <1>2 DEF AskUnchecked, Answer, subVars, rowVars
  <2> QED
    BY <1>s, <2>1
<1>3. CASE Begin(j) \/ BeginFails(j) \/ Built(j) \/ BuildFails(j) \/ LoadSubscription(j)
           \/ ChargeFails(j) \/ Finish(j) \/ TimeOut(j) \/ Revoke(j)
  <2>1. UNCHANGED <<excuses, records, sub, raced>>
    BY <1>3 DEF Begin, BeginFails, Built, BuildFails, LoadSubscription, ChargeFails,
                Finish, TimeOut, Revoke, Kill, subVars, rowVars
  <2>2. phase'[j] \notin Uncharged \/ phase[j] \in Uncharged
    BY <1>0, <1>3 DEF Begin, BeginFails, Built, BuildFails, LoadSubscription, ChargeFails,
                      Finish, TimeOut, Revoke, Kill, Raise, Retry, Swallow, Uncharged
  <2> QED
    BY <1>s, <2>1, <2>2
<1>4. CASE Charge(j)
  <2>1. /\ phase[j] \in Uncharged /\ phase'[j] \notin Uncharged
        /\ UNCHANGED excuses /\ Commit(j)
    BY <1>0, <1>4 DEF Charge, Uncharged
  <2> QED
    BY <1>s, <2>1
<1>5. CASE ChargeAnswerLost(j)
  <2>1. /\ phase[j] \in Uncharged /\ Commit(j)
        /\ \/ excuses' = excuses + 1
           \/ phase'[j] \notin Uncharged /\ UNCHANGED excuses
    BY <1>0, <1>5 DEF ChargeAnswerLost, ChargedAlready, Raise, Retry, Swallow, Uncharged
  <2> QED
    BY <1>s, <2>1
<1>6. CASE FinishFails(j)
  <2>1. /\ UNCHANGED <<records, sub, raced>>
        /\ \/ excuses' = excuses + 1
           \/ phase'[j] \notin Uncharged /\ UNCHANGED excuses
    BY <1>0, <1>6 DEF FinishFails, ChargedAlready, Retry, Uncharged, subVars, rowVars
  <2> QED
    BY <1>s, <2>1
<1>7. CASE Lose(j)
  <2>1. UNCHANGED <<records, sub, raced>> /\ phase'[j] \in {"queued", "over"}
        /\ phase[j] \in Running
    BY <1>0, <1>7 DEF Lose
  <2>2. CASE phase[j] = "charged"
    <3>1. ChargedAlready(j)
      BY <1>7, <2>2 DEF Lose
    <3>2. \/ excuses' = excuses + 1
          \/ phase'[j] \notin Uncharged /\ UNCHANGED excuses
      BY <2>1, <3>1 DEF ChargedAlready, Uncharged
    <3> QED
      BY <1>s, <2>1, <3>2
  <2>3. CASE phase[j] # "charged"
    <3>1. phase[j] \in Uncharged /\ UNCHANGED excuses
      BY <1>7, <2>1, <2>3 DEF Lose, Running, Uncharged
    <3> QED
      BY <1>s, <2>1, <3>1
  <2> QED
    BY <2>2, <2>3
<1> QED
  BY <1>1, <1>2, <1>3, <1>4, <1>5, <1>6, <1>7 DEF JobAction, Work

\* What a charge adds to what has been used.
LEMMA UsedOfCommit ==
    ASSUME BillingTypeOK, SessionInv, Next, NEW j \in Jobs, JobAction(j), Commit(j), ~raced'
    PROVE  ~raced /\ UsedNow' = UsedNow + 1 /\ LimitNow' = LimitNow
<1>0. RecordsTypeOK /\ SubscriptionsTypeOK /\ clock \in 0 .. MaxPeriods /\ UNCHANGED clock
  BY TypeParts DEF Commit, stripeVars, SubscriptionsTypeOK
<1>1. /\ ~raced
      /\ IF sub = NoRow THEN sub' = NoRow
                        ELSE sub' # NoRow /\ sub'.used = sub.used + 1
  <2> DEFINE old == session[j].row
             new == IF old = NoRow THEN old ELSE [old EXCEPT !.used = @ + 1]
  <2>1. /\ old \in Row \cup {NoRow}
        /\ new \in Row \/ (new = NoRow /\ old = NoRow)
        /\ ~raced /\ sub = old /\ sub' = new
    BY <1>0, CommitType
  <2>2. old # NoRow => new \in Row /\ new.used = old.used + 1
    BY <2>1 DEF Row
  <2> QED
    BY <2>1, <2>2, NoRowIsNone
<1>2. CASE sub # NoRow
  BY <1>1, <1>2 DEF UsedNow, LimitNow
<1>3. CASE sub = NoRow
  <2> DEFINE n == Len(records) + 1
  <2>1. /\ DOMAIN records' = DOMAIN records \cup {n}
        /\ n \notin DOMAIN records
        /\ \A i \in DOMAIN records : records'[i] = records[i]
        /\ records'[n] = [job |-> j, month |-> clock, reported |-> FALSE]
    BY <1>0, CommitRecords, Zenon
  <2> HIDE DEF n
  <2>2. ThisMonth' = ThisMonth \cup {n} /\ n \notin ThisMonth
    BY <1>0, <2>1 DEF ThisMonth
  <2>3. Cardinality(ThisMonth') = Cardinality(ThisMonth) + 1
    BY <1>0, <2>2, ThisMonthFinite, OneMore
  <2> QED
    BY <1>1, <1>3, <2>3 DEF UsedNow, LimitNow, ThisMonth
<1> QED
  BY <1>2, <1>3

LEMMA UsedNat ==
    ASSUME BillingTypeOK
    PROVE  /\ UsedNow \in Nat /\ LimitNow \in Nat \ {0} /\ excuses \in Nat
           /\ Cardinality(InFlight) \in Nat
<1>1. RecordsTypeOK /\ SubscriptionsTypeOK /\ JobsTypeOK
  BY TypeParts
<1>2. CASE sub = NoRow
  BY <1>1, <1>2, ThisMonthFinite, BillingAssumption, InFlightFinite
  DEF UsedNow, LimitNow, ThisMonth, JobsTypeOK
<1>3. CASE sub # NoRow
  BY <1>1, <1>3, BillingAssumption, InFlightFinite
  DEF UsedNow, LimitNow, JobsTypeOK, SubscriptionsTypeOK, Row
<1> QED
  BY <1>2, <1>3

\* Time goes by period by period.
LEMMA ClockStep ==
    ASSUME BillingTypeOK, Next
    PROVE  clock' = clock \/ clock' = clock + 1
<1>1. CASE SubscriptionsNext
  <2>1. CASE Subscribe \/ Renew \/ PaymentFails \/ Recover \/ End
    BY <2>1 DEF Subscribe, Renew, PaymentFails, Recover, End, Emit
  <2>2. CASE PeriodEnds \/ SelectOverdue \/ reset_monthly_usage
    BY <2>2 DEF PeriodEnds, SelectOverdue, reset_monthly_usage, stripeVars
  <2>3. ASSUME NEW h \in Handlers, Receive(h) \/ Handled(h) PROVE clock' = clock
    BY <2>3 DEF Receive, Handled, stripeVars
  <2>4. ASSUME NEW w \in Handlers \cup {"reset"}, Dropped(w) PROVE clock' = clock
    BY <2>4 DEF Dropped, stripeVars
  <2> QED
    BY <1>1, <2>1, <2>2, <2>3, <2>4 DEF SubscriptionsNext
<1>2. ASSUME NEW j \in Jobs, JobAction(j) PROVE clock' = clock
  BY <1>2, JobTouches DEF stripeVars
<1>3. ASSUME NEW s \in Sweeps, SweepAction(s) PROVE clock' = clock
  BY <1>3, TypeParts, SweepTouches DEF subVars, stripeVars
<1> QED
  BY <1>1, <1>2, <1>3, Steps

\* Nothing is dated in the future.
MonthsPast == \A i \in DOMAIN records : records[i].month <= clock

LEMMA MonthStep ==
    ASSUME BillingTypeOK, MonthsPast, Next
    PROVE  MonthsPast'
<1>0. RecordsTypeOK /\ SubscriptionsTypeOK /\ clock \in Nat /\ clock \in 0 .. MaxPeriods
  BY TypeParts, SubscriptionAssumption DEF SubscriptionsTypeOK
<1>1. \A i \in DOMAIN records : records[i].month \in Nat
  <2>1. \A i \in DOMAIN records : records[i] \in UsageRecord
    BY <1>0 DEF RecordsTypeOK
  <2> QED
    BY <2>1, SubscriptionAssumption DEF UsageRecord
<1>2. clock' = clock \/ clock' = clock + 1
  BY ClockStep
<1>3. CASE RecordsKept
  BY <1>0, <1>1, <1>2, <1>3 DEF RecordsKept, MonthsPast
<1>4. ASSUME NEW j \in Jobs, JobAction(j), Commit(j) PROVE MonthsPast'
  <2> DEFINE n == Len(records) + 1
  <2>1. /\ DOMAIN records' = DOMAIN records \cup {n}
        /\ \A i \in DOMAIN records : records'[i] = records[i]
        /\ records'[n] = [job |-> j, month |-> clock, reported |-> FALSE]
    BY <1>0, <1>4, CommitRecords, Zenon
  <2> HIDE DEF n
  <2> QED
    BY <1>0, <1>1, <1>2, <2>1 DEF MonthsPast
<1> QED
  BY <1>3, <1>4, KeepsRecords
\* When the counter, the records and the month are what they were, so is the use.
LEMMA UsedKept ==
    ASSUME RecordsKept, UNCHANGED <<sub, clock>>
    PROVE  UsedNow' = UsedNow /\ LimitNow' = LimitNow
<1>1. ThisMonth' = ThisMonth
  BY DEF RecordsKept, ThisMonth
<1> QED
  BY <1>1 DEF UsedNow, LimitNow, ThisMonth

\* The part of AllowanceInv that is about jobs.
Room ==
    /\ Cardinality(InFlight) <= 1 + excuses
    /\ ~raced => UsedNow + Cardinality(InFlight) <= LimitNow + excuses

LEMMA RoomOfJob ==
    ASSUME BillingTypeOK, BillingTypeOK', SessionInv, Room, Next, NEW j \in Jobs,
           JobAction(j)
    PROVE  Room'
<1>0. /\ UsedNow \in Nat /\ LimitNow \in Nat \ {0} /\ excuses \in Nat
      /\ Cardinality(InFlight) \in Nat
  BY UsedNat
<1>1. JobsTypeOK'
  BY TypeParts, PTL
<1>2. UNCHANGED clock
  BY JobTouches DEF stripeVars
<1>3. UNCHANGED <<records, sub>> => UsedNow' = UsedNow /\ LimitNow' = LimitNow
  BY <1>2, UsedKept DEF RecordsKept
<1>4. Cardinality(InFlight') = Cardinality(InFlight)'
  OBVIOUS
<1>5. Cardinality(InFlight)' <= 1 + excuses'
  BY <1>0, <1>1, <1>4, JobInFlight DEF Room
<1>6. ASSUME ~raced' PROVE UsedNow' + Cardinality(InFlight)' <= LimitNow' + excuses'
  <2>1. Commit(j) => ~raced /\ UsedNow' = UsedNow + 1 /\ LimitNow' = LimitNow
    BY <1>6, UsedOfCommit
  <2>2. CASE Commit(j)
    <3>1. ~raced /\ UsedNow' = UsedNow + 1 /\ LimitNow' = LimitNow
      BY <2>1, <2>2
    <3>2. records' # records
      BY <2>2, CommitRecords, TypeParts DEF SubscriptionsTypeOK
    <3> QED
      BY <1>0, <1>1, <1>4, <3>1, <3>2, JobInFlight DEF Room
  <2>3. CASE ~Commit(j)
    <3>1. UNCHANGED <<records, sub, raced>>
      BY <2>3, JobTouches
    <3> QED
      BY <1>0, <1>1, <1>3, <1>4, <1>6, <2>3, <3>1, JobInFlight DEF Room
  <2> QED
    BY <2>2, <2>3
<1> QED
  BY <1>5, <1>6 DEF Room

LEMMA RoomOfOthers ==
    ASSUME BillingTypeOK, SessionInv, MonthsPast, Room, Next, ~\E j \in Jobs : JobAction(j)
    PROVE  Room'
<1>0. /\ UsedNow \in Nat /\ LimitNow \in Nat \ {0} /\ excuses \in Nat
      /\ Cardinality(InFlight) \in Nat
      /\ RecordsTypeOK /\ SubscriptionsTypeOK
  BY UsedNat, TypeParts
<1>1. UNCHANGED <<phase, excuses>>
  BY <1>0, Steps, SweepTouches DEF jobVars
<1>2. Cardinality(InFlight)' = Cardinality(InFlight)
  BY <1>1 DEF InFlight
<1>3. RecordsKept
  BY KeepsRecords
<1>4. ASSUME ~raced' PROVE UsedNow' + Cardinality(InFlight)' <= LimitNow' + excuses'
  <2>1. /\ ~raced
        /\ \/ UNCHANGED sub
           \/ sub' # NoRow /\ sub'.used = 0
           \/ sub # NoRow /\ sub' # NoRow /\ sub'.used = sub.used
    BY <1>4, RowStep
  <2>2. CASE sub' # NoRow /\ sub'.used = 0
    <3>1. UsedNow' = 0 /\ LimitNow' = PlanLimit
      BY <2>2 DEF UsedNow, LimitNow
    <3> QED
      BY <1>0, <1>1, <1>2, <3>1, BillingAssumption DEF Room
  <2>3. CASE sub # NoRow /\ sub' # NoRow /\ sub'.used = sub.used
    <3>1. UsedNow' = UsedNow /\ LimitNow' = LimitNow
      BY <2>3 DEF UsedNow, LimitNow
    <3> QED
      BY <1>0, <1>1, <1>2, <2>1, <3>1 DEF Room
  <2>4. CASE UNCHANGED <<sub, clock>>
    <3>1. UsedNow' = UsedNow /\ LimitNow' = LimitNow
      BY <1>3, <2>4, UsedKept
    <3> QED
      BY <1>0, <1>1, <1>2, <2>1, <3>1 DEF Room
  <2>5. CASE sub = NoRow /\ sub' = NoRow /\ clock' = clock + 1
    <3>1. ThisMonth' = {}
      <4>1. clock \in Nat
        BY <1>0, SubscriptionAssumption DEF SubscriptionsTypeOK
      <4>2. \A i \in DOMAIN records : records[i].month \in Nat
        <5>1. \A i \in DOMAIN records : records[i] \in UsageRecord
          BY <1>0 DEF RecordsTypeOK
        <5> QED
          BY <5>1, SubscriptionAssumption DEF UsageRecord
      <4>3. \A i \in DOMAIN records' : records'[i].month # clock'
        BY <1>3, <2>5, <4>1, <4>2 DEF RecordsKept, MonthsPast
      <4> QED
        BY <4>3 DEF ThisMonth
    <3>2. UsedNow' = 0 /\ LimitNow' = FreeLimit
      BY <2>5, <3>1, FS_EmptySet DEF UsedNow, LimitNow, ThisMonth
    <3> QED
      BY <1>0, <1>1, <1>2, <3>2, BillingAssumption DEF Room
  <2>6. CASE sub # NoRow /\ sub' = sub
    BY <1>0, <2>3, <2>6
  <2>7. clock' = clock \/ clock' = clock + 1
    BY ClockStep
  <2> QED
    BY <2>1, <2>2, <2>3, <2>4, <2>5, <2>6, <2>7
<1>5. Cardinality(InFlight)' <= 1 + excuses'
  BY <1>1, <1>2 DEF Room
<1> QED
  BY <1>4, <1>5 DEF Room

LEMMA AllowanceStep ==
    ASSUME BillingTypeOK, BillingTypeOK', SessionInv, AllowanceInv, Next
    PROVE  AllowanceInv'
<1>1. MonthsPast /\ Room
  BY DEF AllowanceInv, MonthsPast, Room
<1>2. MonthsPast'
  BY <1>1, MonthStep
<1>3. Room'
  BY <1>1, RoomOfJob, RoomOfOthers
<1> QED
  BY <1>2, <1>3 DEF AllowanceInv, MonthsPast, Room
-----------------------------------------------------------------------------
(* The events.                                                             *)

\* EventInv, of what the events say...
EventsSay ==
    /\ \A i \in DOMAIN emitted : EventSays(emitted[i])
    /\ IF emitted = << >>
       THEN stripe.status = (IF sub = NoRow THEN "none" ELSE "active")
       ELSE stripe.status = emitted[Len(emitted)].status
    /\ sub = NoRow => emitted = << >> \/ emitted[1].type = "checkout"

\* ... and of which of them the row has heard.
EventsHeard ==
    /\ applied <= Len(emitted)
    /\ orderly =>
         /\ \A n \in applied + 1 .. Len(emitted) :
              n \in pending \/ \E h \in Handlers : Handling(h, n)
         /\ \A h, g \in Handlers : InSession(h) /\ InSession(g) => h = g
         /\ \A h \in Handlers :
              InSession(h) => session[h].event \in {applied, applied + 1}
    /\ orderly /\ ~raced =>
         IF applied = 0
         THEN sub = NoRow \/ sub.status = "active"
         ELSE sub.status = status_map(emitted[applied].status)

\* A step that leaves the events and their handlers alone, and the row its status.
LEMMA EventKept ==
    ASSUME EventInv, UNCHANGED <<stripe, emitted, pending, applied, orderly>>,
           \A h \in Handlers : session'[h] = session[h],
           sub = NoRow <=> sub' = NoRow,
           ~raced' => ~raced /\ sub'.status = sub.status
    PROVE  EventInv'
<1>1. EventsSay /\ EventsHeard
  BY DEF EventInv, EventsSay, EventsHeard
<1>2. EventsSay'
  BY <1>1 DEF EventsSay
<1>3. EventsHeard'
  BY <1>1 DEF EventsHeard, InSession, Handling
<1> QED
  BY <1>2, <1>3 DEF EventInv, EventsSay, EventsHeard

LEMMA EventOfEmit ==
    ASSUME SubscriptionsTypeOK, EventInv, Subscribe \/ Renew \/ PaymentFails \/ Recover \/ End
    PROVE  EventInv'
<1>1. PICK new \in [status : StripeStatuses, period : 0 .. MaxPeriods],
           types \in Seq(EventTypes) : EmitsTruly(new, types)
  BY StripeEmits
<1> DEFINE event(i) == [type |-> types[i], status |-> new.status, period |-> new.period]
           more == [i \in 1 .. Len(types) |-> event(i)]
           m == Len(emitted)
           l == Len(types)
<1>2. /\ l \in Nat /\ l > 0 /\ m \in Nat
      /\ emitted \in Seq(Event) /\ DOMAIN emitted = 1 .. m
      /\ applied \in Nat
  BY <1>1, SubscriptionAssumption DEF EmitsTruly, SubscriptionsTypeOK
<1>3. /\ stripe' = new
      /\ emitted' = emitted \o more
      /\ pending' = pending \cup (m + 1 .. m + l)
      /\ UNCHANGED <<clock, rowVars, eventVars>>
      /\ \A i \in 1 .. l : EventSays(event(i))
      /\ stripe.status = "none" => types[1] = "checkout"
  BY <1>1 DEF EmitsTruly, Emit
<1>4. /\ Len(emitted') = m + l /\ DOMAIN emitted' = 1 .. m + l
      /\ \A i \in 1 .. m : emitted'[i] = emitted[i]
      /\ \A i \in 1 .. l : emitted'[m + i] = event(i)
  <2>1. \A i \in 1 .. l : event(i) \in Event
    BY <1>1, <1>2 DEF Event, EventTypes
  <2> HIDE DEF event
  <2>2. more \in [1 .. l -> Event]
    BY <2>1
  <2>3. more \in Seq(Event) /\ Len(more) = l
    BY <1>2, <2>2, SeqDef, LenProperties
  <2>4. \A i \in 1 .. l : more[i] = event(i)
    OBVIOUS
  <2> HIDE DEF more
  <2>5. /\ Len(emitted \o more) = m + l /\ emitted \o more \in Seq(Event)
        /\ \A i \in 1 .. m + l : (emitted \o more)[i] =
             IF i <= m THEN emitted[i] ELSE more[i - m]
    <3>1. /\ emitted \o more \in Seq(Event)
          /\ Len(emitted \o more) = Len(emitted) + Len(more)
          /\ \A i \in 1 .. Len(emitted) + Len(more) : (emitted \o more)[i] =
               IF i <= Len(emitted) THEN emitted[i] ELSE more[i - Len(emitted)]
      BY <1>2, <2>3, ConcatProperties
    <3> QED
      BY <2>3, <3>1
  <2>6. \A i \in 1 .. m : i \in 1 .. m + l /\ i <= m
    BY <1>2
  <2>7. \A i \in 1 .. l : m + i \in 1 .. m + l /\ ~(m + i <= m) /\ m + i - m = i
    BY <1>2
  <2>8. DOMAIN (emitted \o more) = 1 .. m + l
    BY <2>5
  <2> QED
    BY <1>3, <2>4, <2>5, <2>6, <2>7, <2>8
<1>5. /\ l \in 1 .. l /\ 1 \in 1 .. l
      /\ event(l).status = new.status /\ event(1).type = types[1]
  BY <1>2
<1>6. \A i \in 1 .. m + l : i \in 1 .. m \/ \E k \in 1 .. l : i = m + k
  <2> TAKE i \in 1 .. m + l
  <2>1. CASE i <= m
    BY <1>2, <2>1
  <2>2. CASE ~(i <= m)
    <3>1. i - m \in 1 .. l /\ i = m + (i - m)
      BY <1>2, <2>2
    <3> QED
      BY <3>1
  <2> QED
    BY <2>1, <2>2
<1> HIDE DEF event, more, l
<1>7. \A i \in DOMAIN emitted' : EventSays(emitted'[i])
  <2>1. \A i \in 1 .. m : EventSays(emitted[i])
    BY <1>2 DEF EventInv
  <2> QED
    BY <1>3, <1>4, <1>6, <2>1
<1>8. emitted' # << >> /\ stripe'.status = emitted'[Len(emitted')].status
  <2>1. Len(emitted') # 0
    BY <1>2, <1>4
  <2>2. Len(<< >>) = 0
    OBVIOUS
  <2>3. emitted' # << >>
    BY <2>1, <2>2
  <2>4. emitted'[m + l].status = new.status
    BY <1>4, <1>5
  <2> QED
    BY <1>3, <1>4, <2>3, <2>4
<1>9. sub' = NoRow => emitted'[1].type = "checkout"
  <2>1. CASE emitted = << >>
    <3>1. m = 0
      BY <2>1
    <3>2. emitted'[1] = event(1)
      <4>1. m + 1 = 1
        BY <3>1
      <4> QED
        BY <1>4, <1>5, <4>1
    <3>3. sub = NoRow => stripe.status = "none"
      BY <2>1 DEF EventInv
    <3> QED
      BY <1>3, <1>5, <3>2, <3>3 DEF rowVars
  <2>2. CASE emitted # << >>
    <3>1. m # 0
      BY <1>2, <2>2
    <3>2. 1 \in 1 .. m
      BY <1>2, <3>1
    <3> QED
      BY <1>3, <1>4, <2>2, <3>2 DEF EventInv, rowVars
  <2> QED
    BY <2>1, <2>2
<1>10. EventsSay'
  BY <1>7, <1>8, <1>9 DEF EventsSay
<1>11. EventsHeard'
  <2>1. applied' <= Len(emitted')
    BY <1>2, <1>3, <1>4 DEF EventInv, eventVars
  <2>2. ASSUME orderly'
        PROVE  /\ \A n \in applied' + 1 .. Len(emitted') :
                    n \in pending' \/ \E h \in Handlers : Handling(h, n)'
               /\ \A h, g \in Handlers : InSession(h)' /\ InSession(g)' => h = g
               /\ \A h \in Handlers :
                    InSession(h)' => session'[h].event \in {applied', applied' + 1}
    <3>1. ASSUME NEW n \in applied' + 1 .. Len(emitted')
          PROVE  n \in pending' \/ \E h \in Handlers : Handling(h, n)'
      <4>1. CASE n <= m
        <5>1. n \in applied + 1 .. m
          BY <1>2, <1>3, <3>1, <4>1 DEF eventVars
        <5> QED
          BY <1>3, <2>2, <5>1 DEF EventInv, eventVars, rowVars, Handling, InSession
      <4>2. CASE ~(n <= m)
        BY <1>2, <1>3, <1>4, <3>1, <4>2 DEF eventVars
      <4> QED
        BY <4>1, <4>2
    <3> QED
      BY <1>3, <2>2, <3>1 DEF EventInv, eventVars, rowVars, InSession
  <2>3. ASSUME orderly', ~raced'
        PROVE  IF applied' = 0
               THEN sub' = NoRow \/ sub'.status = "active"
               ELSE sub'.status = status_map(emitted'[applied'].status)
    <3>1. applied # 0 => applied \in 1 .. m
      BY <1>2 DEF EventInv
    <3> QED
      BY <1>3, <1>4, <2>3, <3>1 DEF EventInv, eventVars, rowVars
  <2> QED
    BY <2>1, <2>2, <2>3 DEF EventsHeard
<1> QED
  BY <1>10, <1>11 DEF EventInv, EventsSay, EventsHeard

LEMMA EventOfReceive ==
    ASSUME SubscriptionsTypeOK, EventInv, NEW h \in Handlers, Receive(h)
    PROVE  EventInv'
<1>0. EventsSay /\ EventsHeard
  BY DEF EventInv, EventsSay, EventsHeard
<1>1. PICK n \in pending :
        /\ Load(h, n)
        /\ pending' \in {pending, pending \ {n}}
        /\ orderly' = /\ orderly
                      /\ n \in {applied, applied + 1}
                      /\ \A g \in Handlers : ~InSession(g)
        /\ UNCHANGED <<clock, stripe, emitted, sub, raced, resets, applied>>
  BY DEF Receive
<1>2. /\ session' = [session EXCEPT ![h] = [row |-> sub, event |-> n]]
      /\ h \in Writers /\ session \in [Writers -> Session \cup {NoSession}]
      /\ n \in 1 .. Len(emitted)
  BY <1>1 DEF Load, Writers, SubscriptionsTypeOK
<1>3. /\ session'[h].event = n
      /\ session'[h] # NoSession
      /\ \A g \in Handlers \ {h} : session'[g] = session[g]
  <2>1. session'[h] = [row |-> sub, event |-> n]
    BY <1>2
  <2>2. n # -1
    BY <1>2 DEF SubscriptionsTypeOK
  <2> QED
    BY <1>2, <2>1, <2>2 DEF NoSession, Writers
<1>4. EventsSay'
  BY <1>0, <1>1 DEF EventsSay
<1>5. ASSUME orderly'
      PROVE  /\ \A k \in applied' + 1 .. Len(emitted') :
                  k \in pending' \/ \E g \in Handlers : Handling(g, k)'
             /\ \A f, g \in Handlers : InSession(f)' /\ InSession(g)' => f = g
             /\ \A g \in Handlers :
                  InSession(g)' => session'[g].event \in {applied', applied' + 1}
  <2>1. /\ orderly /\ n \in {applied, applied + 1}
        /\ \A g \in Handlers : ~InSession(g)
    BY <1>1, <1>5
  <2>2. Handling(h, n)'
    BY <1>3 DEF Handling, InSession
  <2>3. \A k \in applied + 1 .. Len(emitted) : k \in pending
    BY <1>0, <2>1 DEF EventsHeard, Handling
  <2>4. \A g \in Handlers \ {h} : ~InSession(g)'
    BY <1>3, <2>1 DEF InSession
  <2> QED
    BY <1>1, <1>3, <2>1, <2>2, <2>3, <2>4
<1>6. EventsHeard'
  BY <1>0, <1>1, <1>5 DEF EventsHeard
<1> QED
  BY <1>4, <1>6 DEF EventInv, EventsSay, EventsHeard

\* A handler that finds a row, or makes one, leaves the status its event came with.
LEMMA HandlerStatus ==
    ASSUME NEW row \in Row \cup {NoRow}, NEW e \in Event, EventSays(e),
           row # NoRow \/ e.type = "checkout"
    PROVE  process_webhook_event(row, e).status = status_map(e.status)
<1>1. CASE e.type = "checkout"
  <2>1. status_map(e.status) = "active"
    BY <1>1 DEF EventSays, status_map
  <2>2. handle_checkout_session_completed(row).status = "active"
    BY DEF handle_checkout_session_completed, Row
  <2> QED
    BY <1>1, <2>1, <2>2 DEF process_webhook_event
<1>2. CASE e.type # "checkout"
  <2>1. row # NoRow /\ row \in Row /\ e.type \in {"updated", "deleted", "paid", "failed"}
    BY <1>2 DEF Event
  <2>2. /\ handle_subscription_updated(row, e).status = status_map(e.status)
        /\ handle_subscription_deleted(row).status = "cancelled"
        /\ handle_invoice_paid(row, e).status = "active"
        /\ handle_invoice_payment_failed(row).status = "past_due"
    BY <2>1 DEF handle_subscription_updated, handle_subscription_deleted,
                handle_invoice_paid, handle_invoice_payment_failed, Row
  <2>3. /\ e.type = "deleted" => status_map(e.status) = "cancelled"
        /\ e.type = "paid" => status_map(e.status) = "active"
        /\ e.type = "failed" => status_map(e.status) = "past_due"
    BY DEF EventSays, status_map
  <2> QED
    BY <1>2, <2>1, <2>2, <2>3 DEF process_webhook_event
<1> QED
  BY <1>1, <1>2

LEMMA EventOfHandled ==
    ASSUME SubscriptionsTypeOK, SessionInv, EventInv, NEW h \in Handlers, Handled(h)
    PROVE  EventInv'
<1> DEFINE n == session[h].event
           e == emitted[n]
           old == session[h].row
           new == process_webhook_event(old, e)
<1>0. EventsSay /\ EventsHeard
  BY DEF EventInv, EventsSay, EventsHeard
<1>1. /\ e \in Event /\ old \in Row \cup {NoRow}
      /\ sub # NoRow => sub' # NoRow
      /\ ~raced' => ~raced /\ sub = old /\ sub' = new
      /\ session' = [session EXCEPT ![h] = NoSession]
  BY HandledType
<1>2. /\ UNCHANGED <<stripe, emitted, pending, orderly>> /\ applied' = n
      /\ InSession(h)
  BY DEF Handled, stripeVars
<1>3. /\ Len(emitted) \in Nat /\ DOMAIN emitted = 1 .. Len(emitted)
      /\ n \in 1 .. Len(emitted)
      /\ applied \in Nat
  BY <1>2, SubscriptionAssumption DEF SubscriptionsTypeOK
<1>4. /\ \A g \in Handlers \ {h} : session'[g] = session[g]
      /\ session'[h] = NoSession
  BY <1>1 DEF SubscriptionsTypeOK, Writers
<1>5. EventSays(e)
  BY <1>0, <1>3 DEF EventsSay
<1> HIDE DEF new, e, old
<1>6. EventsSay'
  <2>1. emitted # << >>
    BY <1>3
  <2> QED
    BY <1>0, <1>1, <1>2, <2>1 DEF EventsSay
<1>7. ASSUME orderly'
      PROVE  /\ \A k \in applied' + 1 .. Len(emitted') :
                  k \in pending' \/ \E g \in Handlers : Handling(g, k)'
             /\ \A f, g \in Handlers : InSession(f)' /\ InSession(g)' => f = g
             /\ \A g \in Handlers :
                  InSession(g)' => session'[g].event \in {applied', applied' + 1}
  <2>1. /\ orderly /\ n \in {applied, applied + 1}
        /\ \A g \in Handlers \ {h} : ~InSession(g)
    BY <1>0, <1>2, <1>7 DEF EventsHeard
  <2>2. \A g \in Handlers : ~InSession(g)'
    BY <1>4, <2>1 DEF InSession
  <2>3. ASSUME NEW k \in n + 1 .. Len(emitted) PROVE k \in pending
    <3>1. k \in applied + 1 .. Len(emitted) /\ k # n
      BY <1>3, <2>1, <2>3
    <3>2. ~\E g \in Handlers : Handling(g, k)
      BY <2>1, <3>1 DEF Handling
    <3> QED
      BY <1>0, <2>1, <3>1, <3>2 DEF EventsHeard
  <2> QED
    BY <1>2, <2>2, <2>3
<1>8. ASSUME orderly', ~raced' PROVE sub'.status = status_map(emitted'[applied'].status)
  <2>1. sub = old /\ sub' = new /\ ~raced /\ orderly /\ n \in {applied, applied + 1}
    BY <1>0, <1>1, <1>2, <1>8 DEF EventsHeard
  <2>2. old # NoRow \/ e.type = "checkout"
    <3>1. SUFFICES ASSUME sub = NoRow PROVE e.type = "checkout"
      BY <2>1
    <3>2. applied = 0
      <4>1. NoRow.status # status_map(emitted[applied].status)
        BY DEF NoRow, status_map
      <4> QED
        BY <1>0, <2>1, <3>1, <4>1 DEF EventsHeard
    <3>3. n = 1
      BY <1>3, <2>1, <3>2
    <3>4. emitted # << >>
      BY <1>3
    <3> QED
      BY <1>0, <3>1, <3>3, <3>4 DEF EventsSay, e
  <2>3. new.status = status_map(e.status)
    BY <1>1, <1>5, <2>2, HandlerStatus DEF new
  <2> QED
    BY <1>2, <2>1, <2>3 DEF e
<1>9. EventsHeard'
  <2>1. applied' <= Len(emitted') /\ applied' # 0
    BY <1>2, <1>3
  <2> QED
    BY <1>7, <1>8, <2>1 DEF EventsHeard
<1> QED
  BY <1>6, <1>9 DEF EventInv, EventsSay, EventsHeard

LEMMA EventOfDropped ==
    ASSUME SubscriptionsTypeOK, EventInv, NEW w \in Handlers \cup {"reset"}, Dropped(w)
    PROVE  EventInv'
<1>0. EventsSay /\ EventsHeard
  BY DEF EventInv, EventsSay, EventsHeard
<1>1. UNCHANGED <<stripe, emitted, pending, sub, raced, applied>>
  BY DEF Dropped, stripeVars
<1>2. CASE w \in Handlers
  <2>1. ~orderly'
    BY <1>2 DEF Dropped
  <2> QED
    BY <1>0, <1>1, <2>1 DEF EventInv, EventsSay, EventsHeard
<1>3. CASE w \notin Handlers
  <2>1. w = "reset" /\ "reset" \in Writers /\ "reset" \notin Handlers
    BY <1>3, SubscriptionAssumption DEF Writers
  <2>2. \A h \in Handlers : session'[h] = session[h]
    BY <2>1 DEF Dropped, Close, SubscriptionsTypeOK, Writers
  <2>3. orderly' = orderly
    BY <1>3 DEF Dropped, SubscriptionsTypeOK
  <2> QED
    BY <1>1, <2>2, <2>3, EventKept
<1> QED
  BY <1>2, <1>3

\* Without a subscription, a charge finds none.
LEMMA CommitKeepsNone ==
    ASSUME SubscriptionsTypeOK, SessionInv, NEW j \in Jobs, Commit(j), sub = NoRow
    PROVE  sub' = NoRow
<1>1. session[j].row = NoRow
  BY DEF SessionInv, Writers
<1>2. CommitRow(j, NoRow)
  BY <1>1 DEF Commit
<1>3. sub' = [f \in DOMAIN sub |-> sub[f]]
  BY <1>1, <1>2 DEF CommitRow, Merge
<1> QED
  BY <1>3 DEF NoRow

LEMMA EventOfCommit ==
    ASSUME SubscriptionsTypeOK, SessionInv, EventInv, NEW j \in Jobs, Commit(j)
    PROVE  EventInv'
<1> DEFINE old == session[j].row
           new == IF old = NoRow THEN old ELSE [old EXCEPT !.used = @ + 1]
<1>1. /\ old \in Row \cup {NoRow}
      /\ sub # NoRow => sub' # NoRow
      /\ ~raced' => ~raced /\ sub = old /\ sub' = new
      /\ session' = [session EXCEPT ![j] = NoSession]
  BY CommitType
<1>2. new.status = old.status
  BY <1>1 DEF Row
<1>3. \A h \in Handlers : session'[h] = session[h]
  BY <1>1, SubscriptionAssumption DEF SubscriptionsTypeOK, Writers
<1>4. UNCHANGED <<stripe, emitted, pending, applied, orderly>>
  BY DEF Commit, stripeVars, eventVars
<1> HIDE DEF new
<1> QED
  BY <1>1, <1>2, <1>3, <1>4, CommitKeepsNone, EventKept

LEMMA EventOfReset ==
    ASSUME SubscriptionsTypeOK, SessionInv, EventInv, reset_monthly_usage
    PROVE  EventInv'
<1> DEFINE old == session["reset"].row
           new == [old EXCEPT !.used = 0, !.ends = clock + 1]
<1>1. /\ old \in Row
      /\ sub # NoRow => sub' # NoRow
      /\ ~raced' => ~raced /\ sub = old /\ sub' = new
      /\ session' = [session EXCEPT !["reset"] = NoSession]
  BY ResetType
<1>2. new.status = old.status
  BY <1>1 DEF Row
<1>3. sub # NoRow
  BY <1>1, NoRowIsNone DEF SessionInv, Writers
<1>4. \A h \in Handlers : session'[h] = session[h]
  BY <1>1, SubscriptionAssumption DEF SubscriptionsTypeOK, Writers
<1>5. UNCHANGED <<stripe, emitted, pending, applied, orderly>>
  BY DEF reset_monthly_usage, stripeVars, eventVars
<1> HIDE DEF new
<1> QED
  BY <1>1, <1>2, <1>3, <1>4, <1>5, EventKept

LEMMA EventOfSelect ==
    ASSUME SubscriptionsTypeOK, EventInv, SelectOverdue
    PROVE  EventInv'
<1>1. \A h \in Handlers : session'[h] = session[h]
  BY SubscriptionAssumption DEF SelectOverdue, Load, SubscriptionsTypeOK, Writers
<1> QED
  BY <1>1, EventKept DEF SelectOverdue, stripeVars, eventVars

LEMMA EventStep ==
    ASSUME BillingTypeOK, SessionInv, EventInv, Next
    PROVE  EventInv'
<1>0. SubscriptionsTypeOK /\ RecordsTypeOK
  BY TypeParts
<1>1. CASE UNCHANGED subVars
  BY <1>1, EventKept DEF subVars, stripeVars, rowVars, eventVars
<1>2. CASE SubscriptionsNext
  <2>1. CASE PeriodEnds
    BY <2>1, EventKept DEF PeriodEnds, rowVars, eventVars
  <2> QED
    BY <1>0, <1>2, <2>1, EventOfEmit, EventOfReceive, EventOfHandled, EventOfDropped,
       EventOfReset, EventOfSelect DEF SubscriptionsNext
<1>3. ASSUME NEW j \in Jobs, JobAction(j) PROVE EventInv'
  <2>1. CASE Commit(j)
    BY <1>0, <2>1, EventOfCommit
  <2>2. CASE ~Commit(j)
    <3>1. j \notin Handlers /\ j \in Writers
      BY SubscriptionAssumption DEF Writers
    <3>2. \A h \in Handlers : session'[h] = session[h]
      BY <1>0, <1>3, <2>2, <3>1, JobTouches DEF Close, Load, SubscriptionsTypeOK, Writers
    <3>3. UNCHANGED <<stripe, emitted, pending, applied, orderly, sub, raced>>
      BY <1>3, <2>2, JobTouches DEF stripeVars, eventVars
    <3> QED
      BY <3>2, <3>3, EventKept
  <2> QED
    BY <2>1, <2>2
<1>4. ASSUME NEW s \in Sweeps, SweepAction(s) PROVE EventInv'
  BY <1>0, <1>1, <1>4, SweepTouches
<1> QED
  BY <1>1, <1>2, <1>3, <1>4, Steps
-----------------------------------------------------------------------------
(* The theorems.                                                           *)

LEMMA InitType ==
    ASSUME Init
    PROVE  BillingTypeOK /\ SessionInv
<1>1. SubscriptionsTypeOK
  <2>1. /\ sub \in Row \cup {NoRow}
        /\ stripe \in [status : StripeStatuses, period : 0 .. MaxPeriods]
    BY SubscriptionAssumption
    DEF Init, SubscriptionsInit, Row, Statuses, StripeStatuses
  <2>2. emitted \in Seq(Event) /\ Len(emitted) = 0 /\ pending \subseteq 1 .. Len(emitted)
    BY DEF Init, SubscriptionsInit
  <2>3. /\ session \in [Writers -> Session \cup {NoSession}]
        /\ \A h \in Handlers : ~InSession(h)
    BY DEF Init, SubscriptionsInit, InSession, Writers
  <2>4. /\ clock \in 0 .. MaxPeriods
        /\ 0 <= MaxEvents
        /\ applied \in 0 .. MaxEvents
        /\ orderly \in BOOLEAN /\ raced \in BOOLEAN /\ resets \in Nat
    <3>1. orderly \in BOOLEAN /\ raced \in BOOLEAN
      BY Zenon DEF Init, SubscriptionsInit
    <3>2. clock = 0 /\ applied = 0 /\ resets = 0
      BY DEF Init, SubscriptionsInit
    <3>3. MaxPeriods \in Nat /\ MaxEvents \in Nat
      BY SubscriptionAssumption
    <3>4. clock \in 0 .. MaxPeriods /\ 0 <= MaxEvents /\ applied \in 0 .. MaxEvents
          /\ resets \in Nat
      BY <3>2, <3>3
    <3> QED
      BY <3>1, <3>4
  <2> QED
    BY <2>1, <2>2, <2>3, <2>4 DEF SubscriptionsTypeOK
<1>2. JobsTypeOK
  BY BillingAssumption DEF Init, JobsTypeOK, Phases
<1>3. RecordsTypeOK
  BY DEF Init, RecordsTypeOK, NoSweep
<1>4. SessionInv
  BY DEF Init, SubscriptionsInit, SessionInv, InSession, Writers, NoSession
<1> QED
  BY <1>1, <1>2, <1>3, <1>4, TypeParts

LEMMA InitInv ==
    ASSUME Init
    PROVE  BillingIInv
<1>0. /\ BillingTypeOK /\ SessionInv /\ RecordsTypeOK /\ JobsTypeOK
  BY InitType, TypeParts
<1>1. /\ records = << >> /\ DOMAIN records = {} /\ DOMAIN emitted = {}
      /\ \A s \in Sweeps : sweep[s] = NoSweep
      /\ phase = [j \in Jobs |-> "idle"]
      /\ excuses = 0
  BY DEF Init, SubscriptionsInit
<1>2. CounterInv
  BY DEF Init, SubscriptionsInit, CounterInv, CounterIsExact
<1>3. \A j \in Jobs : Charges(j) = 0
  BY <1>1, FS_EmptySet DEF Charges, RecordsOf
<1>4. ChargeInv
  <2>1. ASSUME NEW j \in Jobs
        PROVE  /\ Charges(j) = 0 /\ mishaps[j] = 0
               /\ phase[j] \notin Spent
    BY <1>1, <1>3 DEF Init, Spent
  <2> SUFFICES ASSUME NEW j \in Jobs
               PROVE  /\ Charges(j) <= mishaps[j]
                         + (IF phase[j] \in Spent THEN 1 ELSE 0)
                      /\ phase[j] \in {"charged", "completed"} => RecordsOf(j) # {}
    BY DEF ChargeInv
  <2> QED
    BY <2>1 DEF Spent
<1>5. HistoryInv
  <2>1. ASSUME NEW j \in Jobs
        PROVE  Charges(j) = 0 /\ ~Ahead(j) /\ Cardinality(CountedRows(j)) \in Nat
    BY <1>0, <1>1, <1>3, CountedNat DEF Ahead
  <2> SUFFICES ASSUME NEW j \in Jobs
               PROVE  Charges(j) + (IF Ahead(j) THEN 1 ELSE 0)
                      <= Cardinality(CountedRows(j))
    BY DEF HistoryInv
  <2> QED
    BY <2>1
<1>6. AllowanceInv
  <2>1. InFlight = {} /\ Cardinality(InFlight) = 0
    BY <1>1, FS_EmptySet DEF InFlight, Uncharged
  <2>2. {i \in DOMAIN records : records[i].month = clock} = {}
    BY <1>1
  <2>3. UsedNow = 0
    <3>1. sub = NoRow \/ sub.used = 0
      BY DEF Init, SubscriptionsInit
    <3> QED
      BY <2>2, <3>1, FS_EmptySet DEF UsedNow
  <2> QED
    BY <1>0, <1>1, <2>1, <2>3, UsedNat DEF AllowanceInv
<1>7. InvoiceInv
  BY <1>1 DEF InvoiceInv, MarkedIsInvoiced, NoSweep
<1>8. EventInv
  <2>1. emitted = << >> /\ Len(emitted) = 0 /\ applied = 0
    BY DEF Init, SubscriptionsInit
  <2>2. \A h \in Handlers : ~InSession(h)
    BY DEF Init, SubscriptionsInit, InSession, Writers
  <2>3. /\ stripe.status = (IF sub = NoRow THEN "none" ELSE "active")
        /\ sub = NoRow \/ sub.status = "active"
    BY DEF Init, SubscriptionsInit, NoRow
  <2>4. applied + 1 .. Len(emitted) = {} /\ applied <= Len(emitted)
    BY <2>1
  <2> QED
    BY <1>1, <2>1, <2>2, <2>3, <2>4 DEF EventInv
<1> QED
  BY <1>0, <1>2, <1>4, <1>5, <1>6, <1>7, <1>8 DEF BillingIInv

LEMMA NextInv ==
    ASSUME BillingIInv, [Next]_bVars
    PROVE  BillingIInv'
<1>0. /\ BillingTypeOK /\ SessionInv /\ CounterInv /\ ChargeInv /\ HistoryInv
      /\ AllowanceInv /\ InvoiceInv /\ EventInv
  BY DEF BillingIInv
<1>1. CASE Next
  <2>1. BillingTypeOK' /\ SessionInv'
    BY <1>0, <1>1, BillingType
  <2> QED
    BY <1>0, <1>1, <2>1, CounterStep, ChargeStep, HistoryStep, AllowanceStep, InvoiceStep,
       EventStep DEF BillingIInv
<1>2. CASE UNCHANGED bVars
  <2>1. /\ UNCHANGED <<stripeVars, eventVars, sub, session, raced, resets>>
        /\ UNCHANGED <<phase, rows, tries, records, invoiced, sweep, disturbed>>
        /\ UNCHANGED <<accidents, mishaps, excuses>>
    BY <1>2 DEF bVars, subVars, rowVars, jobVars, sweepVars
  <2>2. BillingTypeOK'
    BY <1>0, <2>1 DEF BillingTypeOK, SubscriptionsTypeOK, InSession, stripeVars, eventVars
  <2>3. SessionInv' /\ CounterInv'
    BY <1>0, <2>1 DEF SessionInv, InSession, CounterInv, CounterIsExact
  <2>4. ChargeInv' /\ HistoryInv'
    BY <1>0, <2>1 DEF ChargeInv, HistoryInv, Charges, RecordsOf, CountedRows, Ahead
  <2>5. AllowanceInv'
    BY <1>0, <2>1 DEF AllowanceInv, UsedNow, LimitNow, InFlight, stripeVars
  <2>6. InvoiceInv'
    BY <1>0, <2>1, InvoiceKept DEF sweepVars
  <2>7. EventInv'
    BY <1>0, <2>1, EventKept DEF stripeVars, eventVars
  <2> QED
    BY <2>2, <2>3, <2>4, <2>5, <2>6, <2>7 DEF BillingIInv
<1> QED
  BY <1>1, <1>2

\* Every state of every run satisfies the inductive invariant.
THEOREM BillingInvariant == Spec => []BillingIInv
<1>1. Init => BillingIInv
  BY InitInv
<1>2. BillingIInv /\ [Next]_bVars => BillingIInv'
  BY NextInv
<1> QED
  BY <1>1, <1>2, PTL DEF Spec

\* Rows, sessions, records, sweeps and counters keep their types, whatever order
\* the writers, the jobs and the sweeps come in.
THEOREM BillingTypes == Spec => []BillingTypeOK
<1>1. BillingIInv => BillingTypeOK
  BY DEF BillingIInv
<1> QED
  BY <1>1, BillingInvariant, PTL

\* track_usage's counter is exact until two writers cross.
THEOREM CounterExact == Spec => []CounterIsExact
<1>1. BillingIInv => CounterIsExact
  BY DEF BillingIInv, CounterInv
<1> QED
  BY <1>1, BillingInvariant, PTL

\* The allowance that check_usage_limit compares with is overshot only by as many
\* jobs as were admitted behind its back, or put back after they had been charged.
THEOREM OvershootBounded == Spec => []OvershootIsExcused
<1>1. ASSUME BillingIInv PROVE OvershootIsExcused
  <2>1. BillingTypeOK /\ (~raced => UsedNow + Cardinality(InFlight) <= LimitNow + excuses)
    BY <1>1 DEF BillingIInv, AllowanceInv
  <2> QED
    BY <2>1, UsedNat DEF OvershootIsExcused
<1> QED
  BY <1>1, BillingInvariant, PTL

\* generate_cad_task completes no job without its charge.
THEOREM CompletedCharged == Spec => []CompletedIsCharged
<1>1. BillingIInv => CompletedIsCharged
  BY DEF BillingIInv, ChargeInv, CompletedIsCharged
<1> QED
  BY <1>1, BillingInvariant, PTL

\* generate_cad_task charges a job once, and once more at most for every time it is put
\* back after its charge was committed.
THEOREM ChargedOnce == Spec => []ChargedOncePerRun
<1>1. ASSUME BillingIInv PROVE ChargedOncePerRun
  <2>1. ChargeInv /\ RecordsTypeOK /\ JobsTypeOK
    BY <1>1, TypeParts DEF BillingIInv
  <2>2. SUFFICES ASSUME NEW j \in Jobs PROVE Charges(j) <= 1 + mishaps[j]
    BY DEF ChargedOncePerRun, Charges
  <2>3. Charges(j) \in Nat /\ mishaps[j] \in Nat
    BY <2>1, ChargesNat DEF JobsTypeOK
  <2>4. \/ Charges(j) <= mishaps[j] + 1
        \/ Charges(j) <= mishaps[j] + 0
    BY <2>1 DEF ChargeInv
  <2> QED
    BY <2>3, <2>4
<1> QED
  BY <1>1, BillingInvariant, PTL

\* No charge without a build that the history tells of.
THEOREM ChargesHaveHistory == Spec => []ChargeHasItsHistory
<1>1. ASSUME BillingIInv PROVE ChargeHasItsHistory
  <2>1. HistoryInv /\ RecordsTypeOK /\ JobsTypeOK
    BY <1>1, TypeParts DEF BillingIInv
  <2>2. ASSUME NEW j \in Jobs PROVE Charges(j) <= Cardinality(CountedRows(j))
    BY <2>1, ChargesNat, CountedNat DEF HistoryInv
  <2> QED
    BY <2>2 DEF ChargeHasItsHistory, Charges, CountedRows
<1> QED
  BY <1>1, BillingInvariant, PTL

\* report_usage_to_stripe marks nothing that Stripe has not counted.
THEOREM MarkedInvoiced == Spec => []MarkedIsInvoiced
<1>1. BillingIInv => MarkedIsInvoiced
  BY DEF BillingIInv, InvoiceInv
<1> QED
  BY <1>1, BillingInvariant, PTL

\* Stripe counts a record twice only when sweeps overlap on it, die or miss an
\* answer.
THEOREM OneInvoice == Spec => []InvoicedOnce
<1>1. ASSUME BillingIInv PROVE InvoicedOnce
  <2>1. InvoiceInv /\ RecordsTypeOK
    BY <1>1, TypeParts DEF BillingIInv
  <2>2. \A i \in DOMAIN records : invoiced[i] \in Nat
    BY <2>1 DEF RecordsTypeOK
  <2>3. \A i \in DOMAIN records \ disturbed : invoiced[i] <= 1
    BY <2>1 DEF InvoiceInv
  <2> QED
    BY <2>2, <2>3 DEF InvoicedOnce
<1> QED
  BY <1>1, BillingInvariant, PTL

\* Delivered in order and one by one, Stripe's events leave the row with its status.
THEOREM RowMirrorsStripe == Spec => []MirrorsStripe
<1>1. ASSUME BillingIInv PROVE MirrorsStripe
  <2>1. SUFFICES ASSUME orderly, ~raced, pending = {}, \A h \in Handlers : ~InSession(h)
                 PROVE  IF stripe.status = "none" THEN sub = NoRow
                        ELSE sub.status = status_map(stripe.status)
    BY DEF MirrorsStripe
  <2>2. EventInv /\ SubscriptionsTypeOK
    BY <1>1, TypeParts DEF BillingIInv
  <2>3. Len(emitted) \in Nat /\ applied \in Nat /\ DOMAIN emitted = 1 .. Len(emitted)
    BY <2>2, SubscriptionAssumption DEF SubscriptionsTypeOK
  <2>4. applied = Len(emitted)
    <3>1. \A n \in applied + 1 .. Len(emitted) : FALSE
      BY <2>1, <2>2 DEF EventInv, Handling
    <3>2. applied <= Len(emitted)
      BY <2>2 DEF EventInv
    <3>3. ASSUME applied < Len(emitted) PROVE FALSE
      <4>1. Len(emitted) \in applied + 1 .. Len(emitted)
        BY <2>3, <3>3
      <4> QED
        BY <3>1, <4>1
    <3>4. \A a, b \in Nat : a <= b /\ ~(a < b) => a = b
      OBVIOUS
    <3> QED
      BY <2>3, <3>2, <3>3, <3>4
  <2>5. CASE emitted = << >>
    <3>1. applied = 0
      BY <2>4, <2>5
    <3> QED
      BY <2>1, <2>2, <2>5, <3>1 DEF EventInv, status_map
  <2>6. CASE emitted # << >>
    <3>1. applied # 0 /\ Len(emitted) \in DOMAIN emitted
      BY <2>2, <2>3, <2>4, <2>6 DEF SubscriptionsTypeOK
    <3>2. stripe.status = emitted[Len(emitted)].status /\ stripe.status # "none"
      BY <2>2, <2>6, <3>1 DEF EventInv, EventSays
    <3> QED
      BY <2>1, <2>2, <2>4, <3>1, <3>2 DEF EventInv
  <2> QED
    BY <2>5, <2>6
<1> QED
  BY <1>1, BillingInvariant, PTL

=============================================================================
