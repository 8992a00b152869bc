---------------------------- MODULE ReportAccess ----------------------------
(***************************************************************************)
(* Who may read a paid report: the access token of a paid invoice,         *)
(* authorize_paid_invoice and run_paid_provider_report, the status poll    *)
(* that hands tokens out, and the background sweep for settlements that    *)
(* failed at Circle.                                                       *)
(*                                                                         *)
(* Circle accepts a payment before its batch is on chain, so a settlement  *)
(* may fail after the report was paid for with it.  An invoice is an       *)
(* object in the dict invoices_db and a row of the storage.  A report, a   *)
(* poll and a sweep keep the object while they ask Circle; a failed save   *)
(* takes it from the dict, and the next reader loads the row again.        *)
(*                                                                         *)
(* Reports of the same wallet, query, tier and provider share one          *)
(* entitlement; here every invoice has its own.                            *)
(***************************************************************************)
EXTENDS Naturals, FiniteSets

CONSTANTS
  Invoices,       \* \subseteq Nat, in the order of invoices_db
  ReportRequests, \* requests for a report, each for one invoice
  Polls,          \* requests for the status of an invoice, each for one
  Visits,         \* what the sweep does about each invoice
  InvoiceOf,
  SweepLimit      \* invoices one sweep looks at (20)

Readers == ReportRequests \cup Polls \cup Visits

ASSUME ReportAssumption ==
  /\ Invoices \subseteq Nat /\ IsFiniteSet(Invoices)
  /\ InvoiceOf \in [Readers -> Invoices]
  /\ ReportRequests \cap (Polls \cup Visits) = {} /\ Polls \cap Visits = {}

VARIABLES
  circle,     \* what Circle says of each settlement
  paper,      \* the invoice in memory: status, recorded gateway status, verdict
  saved,      \* the invoice in the storage
  dropped,    \* the object a failed save took from memory while readers held it
  astray,     \* readers that hold that object
  overdue,    \* expires_at has passed
  tokens,     \* invoices with an unexpired access token
  reader,     \* reports, polls and visits: where each is
  answer,     \* what Circle answered to each, when it is news
  learnt,     \* invoices whose failure is known to the process
  recorded    \* invoices whose failure was stored

accessVars == <<circle, paper, saved, dropped, astray, overdue, tokens, reader, answer, learnt,
                recorded>>

AcceptedByCircle == {"received", "batched", "completed"}
Ends == {"completed", "failed"}          \* final and failed statuses

Fresh == [status |-> "pending", gateway |-> "none", verdict |-> "none"]

AccessInit ==
  /\ circle = [i \in Invoices |-> "received"]
  /\ paper = [i \in Invoices |-> Fresh]
  /\ saved = paper /\ dropped = paper /\ astray = {}
  /\ overdue = FALSE
  /\ tokens = {}
  /\ reader = [r \in Readers |-> "new"]
  /\ answer = [r \in Readers |-> "none"]
  /\ learnt = {} /\ recorded = {}

\* invoice_has_failed_settlement
FailedSettlement(i) ==
  \/ paper[i].status = "disputed"
  \/ paper[i].status = "paid" /\ paper[i].gateway = "failed"

\* get_invoice_or_402
Readable(i) ==
  paper[i].status \in {"paid", "verification_pending", "refunded"} \/ ~overdue

\* The object a reader holds, and who holds one of an invoice.
Object(r) == IF r \in astray THEN dropped[InvoiceOf[r]] ELSE paper[InvoiceOf[r]]
Holders(i) == {r \in Readers : InvoiceOf[r] = i /\ reader[r] \in {"open", "asked"}}

-----------------------------------------------------------------------------
\* _save_invoice: the object is in the storage and in memory.
Stored(i, object) ==
  /\ saved' = [saved EXCEPT ![i] = object]
  /\ paper' = [paper EXCEPT ![i] = object]

\* _save_invoice when the storage fails: the object is dropped, some go on
\* holding it, and what is stored is loaded next.  One dropped object of an
\* invoice at a time.
NotStored(i, object, holders) ==
  /\ Holders(i) \cap astray = {}
  /\ paper' = [paper EXCEPT ![i] = saved[i]]
  /\ dropped' = [dropped EXCEPT ![i] = object]
  /\ astray' = astray \cup holders
  /\ learnt' = learnt \ {i}
  /\ UNCHANGED <<saved, recorded>>

\* A handler saves the object it has just looked up.
Save(i, object) ==
  LET news == IF object.gateway = "failed" THEN {i} ELSE {} IN
  \/ /\ Stored(i, object)
     /\ learnt' = learnt \cup news /\ recorded' = recorded \cup news
     /\ UNCHANGED <<dropped, astray>>
  \/ NotStored(i, object, Holders(i))

\* A poll or a visit saves the object it held while it asked Circle.  Another
\* answer than "failed" is older than a failure others have learnt of, and an
\* object astray replaces the one in memory, which others may go on holding.
SaveBy(r, object) ==
  LET i == InvoiceOf[r]  others == Holders(i) \ {r} IN
  \/ /\ Stored(i, object)
     /\ IF r \in astray
          THEN /\ dropped' = [dropped EXCEPT ![i] = paper[i]]
               /\ astray' = (astray \ Holders(i)) \cup (others \ astray)
          ELSE UNCHANGED <<dropped, astray>>
     /\ learnt' = IF answer[r] = "failed" THEN learnt \cup {i} ELSE learnt \ {i}
     /\ recorded' = IF answer[r] = "failed" THEN recorded \cup {i} ELSE recorded \ {i}
  \/ NotStored(i, object, others)

-----------------------------------------------------------------------------
\* verify_payment up to verification_pending: Circle must have accepted.
SettleInvoice(i) ==
  /\ paper[i].status = "pending" /\ ~overdue
  /\ circle[i] \in AcceptedByCircle
  /\ Save(i, [paper[i] EXCEPT !.status = "verification_pending", !.gateway = circle[i]])
  /\ UNCHANGED <<circle, overdue, tokens, reader, answer>>

\* GenLayer's verdict.
RuleValid(i) ==
  /\ paper[i].status = "verification_pending"
  /\ Save(i, [paper[i] EXCEPT !.status = "paid", !.verdict = "VALID"])
  /\ UNCHANGED <<circle, overdue, tokens, reader, answer>>

RuleInvalid(i) ==
  /\ paper[i].status = "verification_pending"
  /\ Save(i, [paper[i] EXCEPT !.status = "verification_rejected", !.verdict = "INVALID"])
  /\ UNCHANGED <<circle, overdue, tokens, reader, answer>>

\* The refund of arc_verdict_settlement.
RefundInvoice(i) ==
  /\ paper[i].status = "verification_rejected"
  /\ Save(i, [paper[i] EXCEPT !.status = "refunded"])
  /\ UNCHANGED <<circle, overdue, tokens, reader, answer>>

\* invoice_access_status and invoice_payment_state_response: a token goes with
\* an answer about a paid, valid invoice whose settlement has not failed.
TokensWith(i, object) ==
  IF object.status = "paid" /\ object.verdict = "VALID" /\ object.gateway # "failed"
    THEN tokens \cup {i} ELSE tokens

\* refresh_invoice_batch_tx: Circle is asked, unless the batch transaction is
\* known.  It may not answer, or say nothing new: then nothing is written.
Asked(r) ==
  LET i == InvoiceOf[r] IN
  /\ Object(r).gateway \notin {"none", "completed", circle[i]}
  /\ reader' = [reader EXCEPT ![r] = "asked"]
  /\ answer' = [answer EXCEPT ![r] = circle[i]]

Answered(r, next) ==
  /\ reader' = [reader EXCEPT ![r] = next]
  /\ answer' = [answer EXCEPT ![r] = "none"]

\* get_payment_invoice_status, when Circle has no news.
PollStatus(r) ==
  LET i == InvoiceOf[r] IN
  /\ reader[r] = "new" /\ Readable(i)
  /\ tokens' = TokensWith(i, paper[i])
  /\ UNCHANGED <<circle, paper, saved, dropped, astray, overdue, reader, answer, learnt, recorded>>

AskForStatus(r) ==
  /\ reader[r] = "new" /\ Readable(InvoiceOf[r]) /\ Asked(r)
  /\ UNCHANGED <<circle, paper, saved, dropped, astray, overdue, tokens, learnt, recorded>>

AnswerPoll(r) ==
  LET i == InvoiceOf[r]  object == [Object(r) EXCEPT !.gateway = answer[r]] IN
  /\ reader[r] = "asked" /\ Answered(r, "new")
  /\ SaveBy(r, object)
  /\ tokens' = IF saved'[i] = object THEN TokensWith(i, object) ELSE tokens
  /\ UNCHANGED <<circle, overdue>>

TokenExpires(i) ==
  /\ i \in tokens
  /\ tokens' = tokens \ {i}
  /\ UNCHANGED <<circle, paper, saved, dropped, astray, overdue, reader, answer, learnt, recorded>>

-----------------------------------------------------------------------------
\* Mutant: an invoice whose settlement failed still unlocks.
UnlockedFailed(i) ==
  /\ Readable(i)
  /\ paper[i].status \in {"paid", "disputed"} /\ paper[i].verdict = "VALID"
  /\ i \in tokens

\* authorize_paid_invoice
Unlocked(i) ==
  /\ Readable(i) /\ ~FailedSettlement(i)
  /\ paper[i].status = "paid" /\ paper[i].verdict = "VALID"
  /\ i \in tokens

Authorize(r) ==
  LET i == InvoiceOf[r] IN
  /\ reader[r] = "new"
  /\ reader' = [reader EXCEPT ![r] = IF Unlocked(i) THEN "open" ELSE "refused"]
  /\ IF Readable(i) /\ FailedSettlement(i) /\ paper[i].status # "disputed"
       THEN Save(i, [paper[i] EXCEPT !.status = "disputed"])
       ELSE UNCHANGED <<paper, saved, dropped, astray, learnt, recorded>>
  /\ UNCHANGED <<circle, overdue, tokens, answer>>

\* The rest of run_paid_provider_report: Circle is asked once more, and the
\* verified report is returned whatever it says.  The invoice is not saved.
AskForReport(r) ==
  /\ reader[r] = "open" /\ Asked(r)
  /\ UNCHANGED <<circle, paper, saved, dropped, astray, overdue, tokens, learnt, recorded>>

ReturnReport(r) ==
  LET i == InvoiceOf[r]  object == [Object(r) EXCEPT !.gateway = answer[r]] IN
  /\ reader[r] \in {"open", "asked"} /\ Answered(r, "served")
  /\ astray' = astray \ {r}
  /\ IF reader[r] = "open" THEN UNCHANGED <<paper, dropped, learnt, recorded>>
     ELSE IF r \in astray
       THEN dropped' = [dropped EXCEPT ![i] = object] /\ UNCHANGED <<paper, learnt, recorded>>
       ELSE /\ paper' = [paper EXCEPT ![i] = object] /\ UNCHANGED dropped
            /\ learnt' = IF answer[r] = "failed" THEN learnt \cup {i} ELSE learnt \ {i}
            /\ recorded' = IF answer[r] = "failed" THEN recorded ELSE recorded \ {i}
  /\ UNCHANGED <<circle, saved, overdue, tokens>>

-----------------------------------------------------------------------------
\* reconcile_disputed_invoices: a sweep takes the first of the paid invoices.
StartSweep ==
  LET paid == {i \in Invoices : paper[i].status = "paid"}
      first == {i \in paid : Cardinality({j \in paid : j < i}) < SweepLimit} IN
  /\ paid # {} /\ \A v \in Visits : reader[v] = "new"
  /\ reader' = [r \in Readers |-> IF r \in Visits /\ InvoiceOf[r] \in first THEN "open" ELSE reader[r]]
  /\ UNCHANGED <<circle, paper, saved, dropped, astray, overdue, tokens, answer, learnt, recorded>>

\* One of them after the other: Circle may not answer, and known ends are not
\* looked at again.
AskForVisit(v) ==
  /\ reader[v] = "open" /\ \A w \in Visits : reader[w] # "asked"
  /\ Object(v).gateway # "failed" /\ Asked(v)
  /\ UNCHANGED <<circle, paper, saved, dropped, astray, overdue, tokens, learnt, recorded>>

LeaveVisit(v) ==
  /\ reader[v] = "open" /\ Answered(v, "new")
  /\ astray' = astray \ {v}
  /\ UNCHANGED <<circle, paper, saved, dropped, overdue, tokens, learnt, recorded>>

EndVisit(v) ==
  LET object == [Object(v) EXCEPT !.gateway = answer[v],
                   !.status = IF @ = "paid" /\ answer[v] = "failed" THEN "disputed" ELSE @] IN
  /\ reader[v] = "asked" /\ Answered(v, "new")
  /\ IF answer[v] = Object(v).gateway
       THEN astray' = astray \ {v} /\ UNCHANGED <<paper, saved, dropped, learnt, recorded>>
       ELSE SaveBy(v, object)
  /\ UNCHANGED <<circle, overdue, tokens>>

-----------------------------------------------------------------------------
\* The process ends and starts again; requests and the sweep end with it.
Restart ==
  /\ paper' = saved /\ dropped' = saved /\ astray' = {}
  /\ reader' = [r \in Readers |->
       IF reader[r] \notin {"open", "asked"} THEN reader[r]
       ELSE IF r \in ReportRequests THEN "refused" ELSE "new"]
  /\ answer' = [r \in Readers |-> "none"]
  /\ learnt' = {}
  /\ UNCHANGED <<circle, saved, overdue, tokens, recorded>>

\* External: the batch of a settlement goes on chain, or fails.
CircleMoves(i) ==
  /\ \/ circle[i] = "received" /\ circle' = [circle EXCEPT ![i] = "batched"]
     \/ circle[i] = "batched" /\ \E end \in Ends : circle' = [circle EXCEPT ![i] = end]
  /\ UNCHANGED <<paper, saved, dropped, astray, overdue, tokens, reader, answer, learnt, recorded>>

BecomeOverdue ==
  /\ ~overdue /\ overdue' = TRUE
  /\ UNCHANGED <<circle, paper, saved, dropped, astray, tokens, reader, answer, learnt, recorded>>

AccessNext ==
  \/ \E i \in Invoices :
       \/ SettleInvoice(i) \/ RuleValid(i) \/ RuleInvalid(i) \/ RefundInvoice(i)
       \/ TokenExpires(i) \/ CircleMoves(i)
  \/ \E r \in Polls : PollStatus(r) \/ AskForStatus(r) \/ AnswerPoll(r)
  \/ \E r \in ReportRequests : Authorize(r) \/ AskForReport(r) \/ ReturnReport(r)
  \/ StartSweep
  \/ \E v \in Visits : AskForVisit(v) \/ LeaveVisit(v) \/ EndVisit(v)
  \/ Restart \/ BecomeOverdue

AccessSpec == AccessInit /\ [][AccessNext]_accessVars

Papers == [status: {"pending", "verification_pending", "paid", "verification_rejected",
                    "refunded", "disputed"},
           gateway: {"none", "received", "batched", "completed", "failed"},
           verdict: {"none", "VALID", "INVALID"}]

AccessTypeOK ==
  /\ circle \in [Invoices -> {"received", "batched", "completed", "failed"}]
  /\ paper \in [Invoices -> Papers]
  /\ saved \in [Invoices -> Papers]
  /\ dropped \in [Invoices -> Papers]
  /\ astray \subseteq Readers
  /\ overdue \in BOOLEAN
  /\ tokens \subseteq Invoices
  /\ reader \in [Readers -> {"new", "open", "asked", "refused", "served"}]
  /\ answer \in [Readers -> {"none", "received", "batched", "completed", "failed"}]
  /\ learnt \subseteq Invoices /\ recorded \subseteq Invoices

\* A settlement that failed closes access: once the failure was stored, no
\* request that comes later is authorized, whatever saves fail, however often
\* the process starts again, and whatever tokens are still valid.  A failure
\* that only the process knows, as after the report during which it was learnt,
\* closes access until the process ends or a save of the invoice fails.  What
\* undoes either is an answer of Circle that is older and written later.
FailureClosesAccess ==
  [][\A r \in ReportRequests :
       InvoiceOf[r] \in learnt \cup recorded =>
         ~(reader[r] = "new" /\ reader'[r] = "open")]_accessVars
============================================================================
