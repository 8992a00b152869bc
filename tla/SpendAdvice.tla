---------------------------- MODULE SpendAdvice ----------------------------
(***************************************************************************)
(* The advice of services/spending_policy.py: whether a purchase fits the  *)
(* caps of the UTC day, week and month, given what the storage knows of    *)
(* the wallet's payments.  A payment is kept twice, as its invoice and as  *)
(* an event, which learn of Circle's answers at different times; of the    *)
(* two, evaluate_spending takes the one it meets first.  Days stand for    *)
(* times; split invoices, whose legs it counts beside their own total, and *)
(* files that cannot be read are left out.                                 *)
(***************************************************************************)
EXTENDS Integers, FiniteSets, FiniteSetsExt

CONSTANTS Payments,     \* settlements of the wallet
          Amounts,      \* what a payment or a planned purchase may come to
          LimitSets,    \* caps a request may ask for
          Days,         \* days that are explored, as an interval
          WeekDays, MonthDays,   \* the calendar: a week may begin in the month before
          AdviceRows    \* rows that each query of the ledger returns (500)

ASSUME AdviceAssumption ==
  /\ IsFiniteSet(Payments) /\ Amounts \subseteq Nat \ {0}
  /\ LimitSets \subseteq [tx: Int, daily: Int, weekly: Int, monthly: Int]
  /\ Days \subseteq Nat /\ Days # {}
  /\ {WeekDays, MonthDays, AdviceRows} \subseteq Nat \ {0}

VARIABLES today,     \* the day
          payment    \* the payments

adviceVars == <<today, payment>>

\* settled: the day Circle took the money; created, paid: the times the rows
\* show; circle, invoice and event: the gateway status, at Circle and in the two
\* copies ("none" as long as there is no such row).
Unbilled == [state |-> "none", value |-> 0, created |-> 0, settled |-> 0, paid |-> 0,
             circle |-> "none", invoice |-> "none", event |-> "none"]

AdviceInit ==
  /\ today = Min(Days) /\ payment = [p \in Payments |-> Unbilled]

WeekStart == today - (today % WeekDays)
MonthStart == today - (today % MonthDays)

-----------------------------------------------------------------------------
BillPayment(p, v) ==
  /\ payment[p].state = "none"
  /\ payment' = [payment EXCEPT ![p] = [Unbilled EXCEPT !.state = "billed", !.value = v,
                                                        !.created = today]]
  /\ UNCHANGED today

\* verify_payment binds the settlement; the invoice waits for its verdict.
BindPayment(p) ==
  /\ payment[p].state = "billed"
  /\ payment' = [payment EXCEPT ![p].state = "bound", ![p].settled = today,
                                ![p].circle = "received", ![p].invoice = "received"]
  /\ UNCHANGED today

\* The verdict: the invoice is paid now, and its event is recorded.
RulePayment(p) ==
  /\ payment[p].state = "bound"
  /\ payment' = [payment EXCEPT ![p].state = "paid", ![p].paid = today,
                                ![p].event = payment[p].invoice]
  /\ UNCHANGED today

\* The refund of a rejected report; an event that exists is left as it is.
RefundPayment(p) ==
  /\ payment[p].state = "bound"
  /\ payment' = [payment EXCEPT ![p].state = "refunded"]
  /\ UNCHANGED today

CircleRules(p) ==
  /\ payment[p].circle = "received"
  /\ \E end \in {"completed", "failed"} : payment' = [payment EXCEPT ![p].circle = end]
  /\ UNCHANGED today

\* refresh_invoice_batch_tx, reconcile_disputed_invoices.
InvoiceLearns(p) ==
  /\ payment[p].invoice # payment[p].circle
  /\ payment' = [payment EXCEPT ![p].invoice = payment[p].circle]
  /\ UNCHANGED today

\* refresh_unresolved_payment_events.
EventLearns(p) ==
  /\ payment[p].event \notin {"none", payment[p].circle}
  /\ payment' = [payment EXCEPT ![p].event = payment[p].circle]
  /\ UNCHANGED today

Midnight ==
  /\ today < Max(Days)
  /\ today' = today + 1
  /\ UNCHANGED payment

AdviceNext ==
  \/ \E p \in Payments :
       \/ \E v \in Amounts : BillPayment(p, v)
       \/ BindPayment(p) \/ RulePayment(p) \/ RefundPayment(p) \/ CircleRules(p)
       \/ InvoiceLearns(p) \/ EventLearns(p)
  \/ Midnight

AdviceSpec == AdviceInit /\ [][AdviceNext]_adviceVars

-----------------------------------------------------------------------------
\* A row as the ledger returns it.
InvoiceRow(p) ==
  [id |-> p, refunded |-> payment[p].state = "refunded", gateway |-> payment[p].invoice,
   created |-> payment[p].created,
   at |-> IF payment[p].state = "paid" THEN payment[p].paid ELSE payment[p].created]
EventRow(p) ==
  [id |-> p, refunded |-> FALSE, gateway |-> payment[p].event,
   created |-> payment[p].paid, at |-> payment[p].paid]

\* The newest rows of a table, in any order where they are equally old.
NewestOf(table) ==
  {newest \in SUBSET table :
     /\ Cardinality(newest) = IF Cardinality(table) < AdviceRows THEN Cardinality(table)
                              ELSE AdviceRows
     /\ \A r \in newest : \A o \in table \ newest : o.created <= r.created}

InvoiceRows == {InvoiceRow(p) : p \in {q \in Payments : payment[q].invoice # "none"}}
EventRows == {EventRow(p) : p \in {q \in Payments : payment[q].event # "none"}}

\* The invoices come first, and the first row of a settlement decides.
FirstRows(invoices, events) ==
  invoices \cup {e \in events : \A i \in invoices : i.id # e.id}

Counts(row) == ~row.refunded /\ row.gateway \in {"received", "batched", "completed", "confirmed"}

SpentFrom(rows, day) ==
  MapThenSumSet(LAMBDA r : payment[r.id].value,
                {r \in rows : Counts(r) /\ r.at \in day..today})

Monotonic(limits) ==
  0 < limits.tx /\ limits.tx <= limits.daily /\ limits.daily <= limits.weekly
    /\ limits.weekly <= limits.monthly

\* Mutant: the week is counted within the month only.
AllowsMonthly(limits, amount, rows) ==
  /\ Monotonic(limits) /\ amount <= limits.tx
  /\ SpentFrom(rows, today) + amount <= limits.daily
  /\ SpentFrom({r \in rows : r.at >= MonthStart}, WeekStart) + amount <= limits.weekly
  /\ SpentFrom(rows, MonthStart) + amount <= limits.monthly

\* evaluate_spending.
Allows(limits, amount, rows) ==
  /\ Monotonic(limits) /\ amount <= limits.tx
  /\ SpentFrom(rows, today) + amount <= limits.daily
  /\ SpentFrom(rows, WeekStart) + amount <= limits.weekly
  /\ SpentFrom(rows, MonthStart) + amount <= limits.monthly

-----------------------------------------------------------------------------
\* What left the wallet since a day, except for payments whose invoice is older
\* than their settlement and still without a verdict: those count for the day
\* of the invoice.
LeftSince(day) ==
  MapThenSumSet(LAMBDA p : payment[p].value,
    {p \in Payments : /\ payment[p].circle \in {"received", "completed"}
                      /\ payment[p].state \in {"bound", "paid"}
                      /\ payment[p].state = "paid" \/ payment[p].settled = payment[p].created
                      /\ payment[p].settled >= day})

\* "Evaluations ... count duplicate settlements once" (endpoints/agent.py): a
\* purchase that is allowed keeps what left the wallet in the day, the week and
\* the month within the caps, whichever copy of a payment learned what, as long
\* as the queries return the whole ledger.
AdviceIsSound ==
  Cardinality(InvoiceRows) \in 1..AdviceRows =>
    LET leftToday == LeftSince(today)
        leftInWeek == LeftSince(WeekStart)
        leftInMonth == LeftSince(MonthStart)
    IN \A invoices \in NewestOf(InvoiceRows), events \in NewestOf(EventRows) :
         \A limits \in LimitSets, amount \in Amounts :
           Allows(limits, amount, FirstRows(invoices, events)) =>
             /\ leftToday + amount <= limits.daily
             /\ leftInWeek + amount <= limits.weekly
             /\ leftInMonth + amount <= limits.monthly
=============================================================================
