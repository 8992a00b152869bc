---------------------------- MODULE PaymentViews ----------------------------
(***************************************************************************)
(* The payment ledger and what is published from it.  A settled invoice is *)
(* kept twice: as the invoice itself, and as one event per payment (two    *)
(* for a split invoice) in a process list that is saved row by row.  Saves *)
(* and loads of the ledger that fail are swallowed, the list is replaced   *)
(* by every reload while a background sweep still holds the old objects,   *)
(* and the JSON store rewrites the whole ledger where SQL upserts rows.    *)
(* The platform view and the traction snapshot merge the two copies.  A    *)
(* gateway status stands for itself and its transaction hash.              *)
(***************************************************************************)
EXTENDS Integers, FiniteSets, FiniteSetsExt

CONSTANTS Sold,              \* invoices
          LedgerStores,      \* back ends the ledger may live in
          MaxLedgerFaults    \* bound: ledger reads and writes that fail

ASSUME ViewAssumption == /\ LedgerStores \subseteq {"json", "sql"}
                         /\ MaxLedgerFaults \in Nat

PayKeys == Sold \X {"whole", "creator", "platform"}
Gateway == {"none", "received", "completed", "failed"}
NoEvents == [k \in PayKeys |-> "none"]

VARIABLES ledgerKind,            \* the back end, and the invoices paid leg by leg
          billed,                \* the status of each invoice
          legPaid,               \* the gateway status each invoice holds of its payments
          circleSays,            \* Circle's own status of each payment
          rows, events,          \* the saved ledger, the process list
          reading, swept,        \* a reload and a sweep under way
          ledgerFaults

viewVars == <<ledgerKind, billed, legPaid, circleSays, rows, events, reading, swept,
              ledgerFaults>>

NotSweeping == [busy |-> FALSE, seen |-> NoEvents, current |-> FALSE]
NotReading == [busy |-> FALSE, loaded |-> NoEvents]

ViewTypeOK == /\ ledgerKind \in [store : LedgerStores, split : SUBSET Sold]
              /\ billed \in [Sold -> {"pending", "paid", "disputed"}]
              /\ {legPaid, circleSays, rows, events} \subseteq [PayKeys -> Gateway]
              /\ swept \in [busy : BOOLEAN, seen : [PayKeys -> Gateway], current : BOOLEAN]
              /\ reading \in [busy : BOOLEAN, loaded : [PayKeys -> Gateway]]
              /\ ledgerFaults \in 0 .. MaxLedgerFaults

ViewInit == /\ ledgerKind \in [store : LedgerStores, split : SUBSET Sold]
            /\ billed = [i \in Sold |-> "pending"]
            /\ legPaid = NoEvents /\ circleSays = NoEvents
            /\ rows = NoEvents /\ events = NoEvents
            /\ swept = NotSweeping /\ reading = NotReading
            /\ ledgerFaults = 0

LegsOf(i) == IF i \in ledgerKind.split THEN {"creator", "platform"} ELSE {"whole"}
KeysOf(i) == {i} \X LegsOf(i)
LegsPaid(i) == \A k \in KeysOf(i) : legPaid[k] # "none"
Merged(new, old) == [k \in PayKeys |-> IF new[k] # "none" THEN new[k] ELSE old[k]]
EventsOf(i, paid) == [k \in PayKeys |-> IF k \in KeysOf(i) THEN paid[k] ELSE "none"]

LedgerFault == /\ ledgerFaults < MaxLedgerFaults
               /\ ledgerFaults' = ledgerFaults + 1
NoLedgerFault == UNCHANGED ledgerFaults

\* Rows are saved one at a time; a failed save is logged and forgotten.
RowsSaved(new) == \/ rows' = Merged(new, rows) /\ NoLedgerFault
                  \/ /\ LedgerFault
                     /\ \E k \in PayKeys : /\ new[k] # "none"
                                           /\ rows' = Merged([new EXCEPT ![k] = "none"], rows)

\* The sweep saves the whole list: JSON replaces the ledger, SQL upserts its rows.
LedgerSaved(list) == \/ /\ rows' = IF ledgerKind.store = "json" THEN list ELSE Merged(list, rows)
                        /\ NoLedgerFault
                     \/ LedgerFault /\ UNCHANGED rows

SettlePayments(i) == /\ billed[i] = "pending" /\ ~LegsPaid(i)
                     /\ legPaid' = Merged([k \in PayKeys |-> IF k \in KeysOf(i) THEN "received" ELSE "none"], legPaid)
                     /\ circleSays' = Merged([k \in PayKeys |-> IF k \in KeysOf(i) THEN "received" ELSE "none"], circleSays)
                     /\ UNCHANGED <<ledgerKind, billed, rows, events, reading, swept, ledgerFaults>>

PublishPaid(i) == /\ billed[i] = "pending" /\ LegsPaid(i)
                  /\ billed' = [billed EXCEPT ![i] = "paid"]
                  /\ UNCHANGED <<ledgerKind, legPaid, circleSays, rows, events, reading, swept, ledgerFaults>>

\* A plain payment is appended once, after a reload; leg events are upserted.
RecordPaid(i) ==
    /\ LegsPaid(i)
    /\ i \in ledgerKind.split \/ (billed[i] = "paid" /\ \A k \in KeysOf(i) : rows[k] = "none")
    /\ RowsSaved(EventsOf(i, legPaid))
    /\ events' = Merged(EventsOf(i, legPaid), rows)
    /\ swept' = [swept EXCEPT !.current = FALSE]
    /\ UNCHANGED <<ledgerKind, billed, legPaid, circleSays, reading>>

CircleEnds(k) == /\ circleSays[k] = "received"
                 /\ \E end \in {"completed", "failed"} : circleSays' = [circleSays EXCEPT ![k] = end]
                 /\ UNCHANGED <<ledgerKind, billed, legPaid, rows, events, reading, swept, ledgerFaults>>

\* Circle answers for the payments in the set; the invoice copies what it says.
LegsAfter(i, answered) ==
    [k \in PayKeys |-> IF k \in answered \cap KeysOf(i) THEN circleSays[k] ELSE legPaid[k]]

\* A status poll refreshes the legs Circle answers for and re-saves the events of
\* a paid split invoice from them, over whatever the ledger held.
PollInvoice(i) ==
    /\ LegsPaid(i)
    /\ \E answered \in SUBSET KeysOf(i) : legPaid' = LegsAfter(i, answered)
    /\ IF i \in ledgerKind.split /\ billed[i] = "paid"
       THEN RowsSaved(EventsOf(i, legPaid')) /\ events' = Merged(EventsOf(i, legPaid'), events)
       ELSE UNCHANGED <<rows, events, ledgerFaults>>
    /\ UNCHANGED <<ledgerKind, billed, circleSays, reading, swept>>

\* The reconciler copies statuses into paid invoices and disputes a failed one.
DisputeFailed(i) ==
    /\ billed[i] = "paid"
    /\ legPaid' = LegsAfter(i, {k \in KeysOf(i) : legPaid[k] = "received"})
    /\ legPaid' # legPaid
    /\ billed' = [billed EXCEPT ![i] = IF \E k \in KeysOf(i) : legPaid'[k] = "failed"
                                       THEN "disputed" ELSE @]
    /\ UNCHANGED <<ledgerKind, circleSays, rows, events, reading, swept, ledgerFaults>>

BeginReload == /\ ~reading.busy
               /\ \/ reading' = [busy |-> TRUE, loaded |-> rows] /\ NoLedgerFault
                  \/ reading' = [busy |-> TRUE, loaded |-> NoEvents] /\ LedgerFault
               /\ UNCHANGED <<ledgerKind, billed, legPaid, circleSays, rows, events, swept>>

EndReload == /\ reading.busy
             /\ reading' = NotReading
             /\ events' = reading.loaded
             /\ swept' = [swept EXCEPT !.current = FALSE]
             /\ UNCHANGED <<ledgerKind, billed, legPaid, circleSays, rows, ledgerFaults>>

StartRefresh == /\ ~swept.busy
                /\ swept' = [busy |-> TRUE, seen |-> events, current |-> TRUE]
                /\ UNCHANGED <<ledgerKind, billed, legPaid, circleSays, rows, events, reading, ledgerFaults>>

\* The sweep updates the objects it started from and saves the list of now.
FinishRefresh ==
    /\ swept.busy
    /\ \E answered \in SUBSET {k \in PayKeys : swept.seen[k] \notin {"none", "completed"}} :
          LET changed == {k \in answered : circleSays[k] # swept.seen[k]}
          IN /\ events' = IF swept.current
                          THEN [k \in PayKeys |-> IF k \in changed THEN circleSays[k] ELSE events[k]]
                          ELSE events
             /\ IF changed # {} THEN LedgerSaved(events') ELSE UNCHANGED <<rows, ledgerFaults>>
    /\ swept' = NotSweeping
    /\ UNCHANGED <<ledgerKind, billed, legPaid, circleSays, reading>>

ViewNext == \/ \E i \in Sold : \/ SettlePayments(i) \/ PublishPaid(i) \/ RecordPaid(i)
                               \/ PollInvoice(i) \/ DisputeFailed(i)
            \/ \E k \in PayKeys : CircleEnds(k)
            \/ BeginReload \/ EndReload \/ StartRefresh \/ FinishRefresh

ViewSpec == ViewInit /\ [][ViewNext]_viewVars

-----------------------------------------------------------------------------
\* The views, over the saved ledger and the paid invoices.

FromInvoice(k) == IF billed[k[1]] = "paid" THEN legPaid[k] ELSE "none"

\* merge_payment_sources: the invoice's copy wins, but never over a final status.
PlatformView ==
    [k \in PayKeys |-> IF "completed" \in {rows[k], FromInvoice(k)} THEN "completed"
                       ELSE IF FromInvoice(k) # "none" THEN FromInvoice(k) ELSE rows[k]]

\* Mutant: a payment the invoice was paid with is final.
EarnedPaid == {k \in PayKeys : PlatformView[k] = "completed" \/ FromInvoice(k) # "none"}

\* summarize_payment_events: what creators have earned for good, by payment.
EarnedFinal == {k \in PayKeys : PlatformView[k] = "completed"}
\* Its reports are those with any payment, the snapshot's those with all.
SummaryReports == {i \in Sold : \E k \in KeysOf(i) : PlatformView[k] # "none"}
PaidReports == {i \in Sold : \A k \in KeysOf(i) : PlatformView[k] # "none"}
SettledReports == {i \in PaidReports : \A k \in KeysOf(i) : PlatformView[k] \in {"none", "completed"}}

\* reconcile_books tallies the saved ledger alone.
BooksSettled == {k \in PayKeys : rows[k] = "completed"}

\* What is published stays true whatever the two copies went through: every paid
\* invoice is counted, although its rows may have been lost or rolled back, and
\* nothing is settled for the snapshot or the books, or earned for good by a
\* creator, that Circle has not completed.
TractionIsTrue ==
  /\ {i \in Sold : billed[i] = "paid"} \subseteq PaidReports \cap SummaryReports
  /\ \A k \in EarnedFinal \cup BooksSettled \cup UNION {KeysOf(i) : i \in SettledReports} :
       circleSays[k] = "completed"
=============================================================================
