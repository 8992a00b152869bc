------------------------- MODULE InvoiceSettlement -------------------------
(***************************************************************************)
(* The life of one single-payment invoice, from the claim of its Circle    *)
(* settlement to the payout of the creator or the refund of the buyer:     *)
(*   - verify_payment of services/payment_service.py claims the settlement;*)
(*   - services/genlayer_reconcile_service.py has GenLayer rule on the     *)
(*     report, and settles the ruling from the request, from a status poll *)
(*     or from its background sweep;                                       *)
(*   - services/arc_verdict_settlement.py makes one immutable plan of the  *)
(*     transfer and applies what the sidecar reports of it;                *)
(*   - arc_gateway/verdict-settlement.ts, the sidecar, carries it out.     *)
(*                                                                         *)
(* Invoices are Python dicts shared by the threads of one process.  A save *)
(* that fails drops the dict from the table, and the next request reads    *)
(* another copy from the database while threads still hold the first: an   *)
(* object is one such copy.                                                *)
(***************************************************************************)
EXTENDS Integers, FiniteSets

CONSTANTS
  Buyers,       \* threads serving requests about the invoice
  Sweepers,     \* threads of the background sweep
  Objects,      \* bound: copies of the invoice alive at once
  MaxKeys,      \* bound: Circle idempotency keys ever drawn
  MaxFaults,    \* bound: restarts and failed saves
  Faults,       \* what may go wrong in the backend: "restart", "save"
  EpochsEnd,    \* market epochs end, and are rebuilt with another report, or not
  Rulings,      \* what GenLayer may rule on a report
  BuyerPays,    \* the settlement is sent by the invoice's buyer wallet, or not
  NoTransfer    \* the plan may have nothing to transfer

Threads == Buyers \cup Sweepers
Nobody == "nobody"
ASSUME ThreadAssumption == Nobody \notin Threads
ASSUME BoundAssumption ==
  /\ Objects \subseteq Nat \ {0} /\ Objects # {} /\ IsFiniteSet(Objects)
  /\ MaxKeys \in Nat \ {0} /\ MaxFaults \in Nat
ASSUME SwitchAssumption ==
  /\ Faults \subseteq {"restart", "save"} /\ EpochsEnd \subseteq BOOLEAN
  /\ Rulings \subseteq {"VALID", "INVALID"}
  /\ BuyerPays \subseteq BOOLEAN /\ NoTransfer \subseteq BOOLEAN

Keys == 1..MaxKeys
Hashes == {1, 2}
Verdicts == {"VALID", "INVALID"}

VARIABLES
  given,    \* what is fixed for the invoice: rulings, sender, whether to transfer,
            \* what may go wrong, and whether its market epoch ends
  source,   \* status of the Circle settlement: "accepted", "final" or "failed"
  epoch,    \* hash of the report in the market epoch, or 0
  \* process memory
  heap,     \* the copies of the invoice
  cur,      \* the copy in invoices_db, or 0
  pc, ref,  \* where each thread is, and the copy it works on
  lock,     \* holder of genlayer_verify:<invoice>
  \* durable
  saved,    \* the row of qma_invoices
  \* the sidecar and Circle
  run,      \* the sidecar's request of each thread
  keys,     \* number of idempotency keys drawn
  circle,   \* per key: the transaction Circle has for it
  faults    \* restarts and failed saves so far

threads == <<pc, ref, lock>>
memory  == <<heap, cur, saved, faults>>
world   == <<given, source, epoch>>
sidecar == <<run, circle>>
vars == <<world, memory, threads, sidecar, keys>>

Blank == [status |-> "pending", verdict |-> "none", plan |-> "none", phase |-> "none",
          key |-> 0, tx |-> 0, gateway |-> "accepted", hash |-> 0]

Off == [pc |-> "off", plan |-> "none", key |-> 0, tx |-> 0, found |-> "none"]

FirstObject == CHOOSE o \in Objects : \A p \in Objects : o <= p

Init ==
  /\ given \in [ruling : [Hashes -> Rulings], sent : BuyerPays, free : NoTransfer,
                fault : Faults, ends : EpochsEnd]
  /\ given.ends \/ given.ruling[1] = given.ruling[2]
  /\ source = "accepted"
  /\ epoch = 1
  /\ heap = [o \in Objects |-> Blank]
  /\ cur = FirstObject
  /\ pc = [t \in Threads |-> "idle"]
  /\ ref = [t \in Threads |-> 0]
  /\ lock = Nobody
  /\ saved = Blank
  /\ run = [t \in Threads |-> Off]
  /\ keys = 0
  /\ circle = [k \in Keys |-> "none"]
  /\ faults = 0

-----------------------------------------------------------------------------
(***************************************************************************)
(* ensure_arc_settlement_plan                                              *)
(***************************************************************************)
ActionOf(v) == IF v = "VALID" THEN "creator_payout" ELSE "buyer_refund"

\* A rejected invoice without a final verdict is planned for as INVALID.
VerdictOf(i) ==
  IF i.verdict \in Verdicts THEN i.verdict
  ELSE IF i.status \in {"verification_rejected", "refunded"} \/ i.plan = "buyer_refund"
       THEN "INVALID" ELSE "none"

\* Mutant: a stored plan that does not fit the verdict is used all the same.
RefusesNoConflict(i) == VerdictOf(i) = "none"

\* No final verdict, or a stored plan that does not fit it: it raises.
Refuses(i) ==
  \/ VerdictOf(i) = "none"
  \/ i.plan \notin {"none", ActionOf(VerdictOf(i))}

\* Mutant: a plan that is not done is made anew, under another key.
PlannedAgain(i) ==
  IF i.phase \in {"confirmed", "failed_terminal"} THEN i
  ELSE [i EXCEPT !.plan = ActionOf(VerdictOf(i)), !.key = 1 + (i.key % MaxKeys),
                 !.phase = IF given.free THEN "confirmed" ELSE "open"]

\* The stored plan, or a new one with a new key; one with nothing to transfer
\* is confirmed at once.
Planned(i) ==
  IF i.plan # "none" THEN i
  ELSE [i EXCEPT !.plan = ActionOf(VerdictOf(i)), !.key = keys + 1,
                 !.phase = IF given.free THEN "confirmed" ELSE "open"]

DrawsKey(i) == IF i.plan # "none" THEN keys' = keys ELSE keys < MaxKeys /\ keys' = keys + 1

FinalPhases == {"confirmed", "failed_terminal"}

(***************************************************************************)
(* apply_arc_settlement_checkpoint of a report [plan, phase, tx] on a copy *)
(* that has a plan; the final phases do not change any more.  "open" is    *)
(* any phase before them.                                                  *)
(***************************************************************************)
Rejects(i, c) == Refuses(i) \/ Planned(i).plan # c.plan

StatusAfter(i, c) ==
  IF c.plan = "creator_payout" THEN i.status
  ELSE IF c.phase = "confirmed" THEN "refunded" ELSE "verification_rejected"

\* Mutant: a late report overwrites a final phase.
AppliedLate(i, c) ==
  [i EXCEPT !.phase = c.phase, !.status = StatusAfter(i, c),
            !.tx = IF c.tx # 0 THEN c.tx ELSE @]

Applied(i, c) ==
  IF i.phase \in FinalPhases /\ c.phase # i.phase THEN i
  ELSE [i EXCEPT !.phase = c.phase, !.status = StatusAfter(i, c),
                 !.tx = IF c.tx # 0 THEN c.tx ELSE @]

-----------------------------------------------------------------------------
(***************************************************************************)
(* _save_invoice: on success the copy is the one in the table; on failure  *)
(* the table loses its entry.                                              *)
(***************************************************************************)
Unused == Objects \ ({cur} \cup {ref[t] : t \in Threads})

\* A copy that nobody holds is gone.
Set(o, i) ==
  heap' = [p \in Objects |-> IF p = o THEN i ELSE IF p \in Unused THEN Blank ELSE heap[p]]

Save(o, i) == Set(o, i) /\ saved' = i /\ cur' = o /\ UNCHANGED faults

SaveFails(o, i) ==
  /\ given.fault = "save" /\ faults < MaxFaults
  /\ faults' = faults + 1
  /\ Set(o, i) /\ cur' = 0 /\ UNCHANGED saved

Goto(t, l) == pc' = [pc EXCEPT ![t] = l] /\ UNCHANGED <<ref, lock>>
Unlocked(t) == IF lock = t THEN Nobody ELSE lock
Done(t) ==
  /\ pc' = [pc EXCEPT ![t] = "idle"]
  /\ ref' = [ref EXCEPT ![t] = 0]
  /\ lock' = Unlocked(t)
Again(t) ==
  /\ t \in Buyers
  /\ pc' = [pc EXCEPT ![t] = "settle"]
  /\ lock' = Unlocked(t)
  /\ UNCHANGED ref

\* A claim and a status poll settle once more after the verification did.
End(t) == Done(t) \/ (lock = t /\ Again(t))

\* A failed save ends the thread, unless it is a status poll: that goes on with
\* the copy it holds.
SaveAndGo(t, i, l) ==
  \/ Save(ref[t], i) /\ Goto(t, l)
  \/ SaveFails(ref[t], i) /\ (Done(t) \/ Again(t))
SaveAndEnd(t, i) ==
  \/ Save(ref[t], i) /\ End(t)
  \/ SaveFails(ref[t], i) /\ (Done(t) \/ Again(t))

\* get_invoice_or_402, and the sweep's load: the copy in the table, or a new one
\* from the database.
Loads(o) ==
  \/ o = cur /\ UNCHANGED memory
  \/ /\ cur = 0 /\ o \in Unused /\ \A p \in Unused : o <= p
     /\ Set(o, saved) /\ cur' = o /\ UNCHANGED <<saved, faults>>
Copy(o) == IF o = cur THEN heap[o] ELSE saved

Begin(t, o, l) ==
  /\ pc' = [pc EXCEPT ![t] = l]
  /\ ref' = [ref EXCEPT ![t] = o]
  /\ UNCHANGED lock

(***************************************************************************)
(* verify_payment: a settled verdict is settled again, a pending           *)
(* verification is resumed (by a status poll too), anything else is a      *)
(* claim.                                                                  *)
(***************************************************************************)
VerifyPayment(t) ==
  /\ t \in Buyers /\ pc[t] = "idle"
  /\ \E o \in Objects :
       /\ Loads(o)
       /\ LET i == Copy(o) IN
          /\ i.status # "refunded"
          /\ Begin(t, o,
               IF i.verdict = "INVALID" \/ (i.status = "paid" /\ i.verdict = "VALID")
               THEN "refresh"
               ELSE IF i.status = "verification_pending" THEN "verify" ELSE "claim")
  /\ UNCHANGED <<world, sidecar, keys>>

\* get_payment_invoice_status, when there is a verdict.
StatusPoll(t) ==
  /\ t \in Buyers /\ pc[t] = "idle"
  /\ \E o \in Objects :
       /\ Loads(o)
       /\ Copy(o).verdict \in Verdicts
       /\ Begin(t, o, "refresh")
  /\ UNCHANGED <<world, sidecar, keys>>

\* reconcile_arc_verdict_settlements_once: first what is pending, then what has
\* a verdict and a settlement that is not final.
SweepPending(t) ==
  /\ t \in Sweepers /\ pc[t] = "idle"
  /\ \E o \in Objects :
       /\ Loads(o)
       /\ Copy(o).status = "verification_pending"
       /\ Begin(t, o, "verify")
  /\ UNCHANGED <<world, sidecar, keys>>

\* Mutant: a settlement that was begun is not looked at again.
SweepUnplanned(t) ==
  /\ t \in Sweepers /\ pc[t] = "idle"
  /\ \E o \in Objects :
       /\ Loads(o)
       /\ Copy(o).verdict \in Verdicts /\ Copy(o).phase = "none"
       /\ Begin(t, o, "refresh")
  /\ UNCHANGED <<world, sidecar, keys>>

SweepSettlement(t) ==
  /\ t \in Sweepers /\ pc[t] = "idle"
  /\ \E o \in Objects :
       /\ Loads(o)
       /\ Copy(o).verdict \in Verdicts /\ Copy(o).phase \notin FinalPhases
       /\ Begin(t, o, "refresh")
  /\ UNCHANGED <<world, sidecar, keys>>

\* The claim: the invoice is fetched again, and if it is not paid, Circle is
\* asked for the settlement.
Claim(t) ==
  /\ pc[t] = "claim"
  /\ \E o \in Objects :
       /\ Loads(o)
       /\ IF Copy(o).status = "paid" THEN Done(t) ELSE Begin(t, o, "bind")
  /\ UNCHANGED <<world, sidecar, keys>>

\* A settlement that has not failed is bound to the invoice, whatever has become
\* of it meanwhile.
Bind(t) ==
  /\ pc[t] = "bind" /\ source # "failed"
  /\ SaveAndGo(t, [heap[ref[t]] EXCEPT !.status = "verification_pending", !.gateway = source],
               "verify")
  /\ UNCHANGED <<world, sidecar, keys>>

\* Circle cannot be asked, or says no.
BindFails(t) ==
  /\ pc[t] = "bind"
  /\ Done(t)
  /\ UNCHANGED <<world, memory, sidecar, keys>>

\* refresh_invoice_batch_tx
Refresh(t) ==
  /\ pc[t] = "refresh"
  /\ Set(ref[t], [heap[ref[t]] EXCEPT !.gateway = source])
  /\ Goto(t, "settle")
  /\ UNCHANGED <<world, cur, saved, faults, sidecar, keys>>
RefreshFails(t) ==
  /\ pc[t] = "refresh"
  /\ Goto(t, "settle")
  /\ UNCHANGED <<world, memory, sidecar, keys>>

(***************************************************************************)
(* _verify_invoice_report_with_genlayer_locked                             *)
(***************************************************************************)
Closed(i) ==
  \/ i.status = "refunded"
  \/ i.status = "paid" /\ i.verdict = "VALID"
  \/ i.status = "verification_rejected" /\ i.verdict = "INVALID"

\* The report: that of the epoch, else the one kept, else a new one, for which
\* hash 1 stands.
ReportOf(i) ==
  IF epoch # 0 THEN epoch ELSE IF i.hash # 0 THEN i.hash ELSE 1

\* A status poll has first asked for the status of the source settlement.
Sources(t, i) == {i.gateway} \cup (IF t \in Buyers THEN {source} ELSE {})

\* Under the lock: a report that is not the one recorded rejects the invoice and
\* plans the refund; else GenLayer is asked.
Verify(t) ==
  /\ pc[t] = "verify" /\ lock = Nobody
  /\ LET i == heap[ref[t]] IN
     \/ /\ Closed(i) /\ Done(t) /\ UNCHANGED memory
     \/ /\ ~Closed(i)
        /\ \E g \in Sources(t, i) :
           LET h == ReportOf(i)
               changed == i.hash \notin {0, h}
               j == IF changed
                    THEN [i EXCEPT !.gateway = g, !.status = "verification_rejected"]
                    ELSE [i EXCEPT !.gateway = g, !.status = "verification_pending", !.hash = h]
           IN \/ /\ Save(ref[t], j)
                 /\ lock' = t
                 /\ pc' = [pc EXCEPT ![t] = IF changed THEN "settle" ELSE "ask"]
                 /\ UNCHANGED ref
              \/ SaveFails(ref[t], j) /\ (Done(t) \/ Again(t))
  /\ UNCHANGED <<world, sidecar, keys>>

\* mark_epoch_verdict drops the epoch of a report that is ruled INVALID.
Dropped == IF given.ends THEN 0 ELSE epoch

\* No verdict yet, an error, or a receipt for another report; or GenLayer is not
\* asked any more after three submissions.
Unanswered(t) ==
  /\ pc[t] = "ask"
  /\ \/ End(t) /\ UNCHANGED <<memory, epoch>>
     \/ /\ SaveAndEnd(t, [heap[ref[t]] EXCEPT !.status = "verification_pending",
                                              !.verdict = "none"])
        /\ epoch' \in {epoch, Dropped}
  /\ UNCHANGED <<given, source, sidecar, keys>>

\* INVALID rejects.  VALID plans the payout and makes the invoice paid; when a
\* refund is planned it raises instead, and only a status poll goes on.
Answered(t) ==
  /\ pc[t] = "ask"
  /\ LET i == [heap[ref[t]] EXCEPT !.verdict = given.ruling[heap[ref[t]].hash]] IN
     \/ /\ i.verdict = "INVALID"
        /\ SaveAndGo(t, [i EXCEPT !.status = "verification_rejected"], "settle")
        /\ epoch' = Dropped
        /\ UNCHANGED keys
     \/ /\ i.verdict = "VALID" /\ Refuses(i)
        /\ Set(ref[t], i)
        /\ End(t)
        /\ UNCHANGED <<epoch, cur, saved, faults, keys>>
     \/ /\ i.verdict = "VALID" /\ ~Refuses(i)
        /\ DrawsKey(i)
        /\ SaveAndGo(t, [Planned(i) EXCEPT !.status = "paid"], "settle")
        /\ UNCHANGED epoch
  /\ UNCHANGED <<given, source, sidecar>>

(***************************************************************************)
(* settle_genlayer_verdict_on_arc and execute_arc_settlement: plan, save,  *)
(* and ask the sidecar once the source is final.  A status poll saves what *)
(* it holds even when there is nothing to settle.                          *)
(***************************************************************************)
Settle(t) ==
  /\ pc[t] = "settle" /\ run[t].pc = "off"
  /\ LET i == heap[ref[t]] IN
     \/ /\ Refuses(i)
        /\ SaveAndEnd(t, i) \/ (End(t) /\ UNCHANGED memory)
        /\ UNCHANGED <<run, keys>>
     \/ /\ ~Refuses(i) /\ DrawsKey(i)
        /\ IF Planned(i).phase \in FinalPhases \/ i.gateway # "final"
           THEN SaveAndEnd(t, Planned(i)) /\ UNCHANGED run
           ELSE \/ /\ Save(ref[t], Planned(i)) /\ Goto(t, "wait")
                   /\ run' = [run EXCEPT ![t] =
                        [Off EXCEPT !.pc = "fetch", !.plan = Planned(i).plan]]
                \/ /\ SaveFails(ref[t], Planned(i)) /\ (Done(t) \/ Again(t))
                   /\ UNCHANGED run
  /\ UNCHANGED <<world, circle>>

\* The answer of the sidecar is applied once more, to the thread's own copy; an
\* error, or one that does not fit the copy, is retryable and changes nothing
\* but that the copy is saved.
Answer(t) ==
  /\ pc[t] = "wait" /\ run[t].pc \in {"answer", "error"}
  /\ LET i == heap[ref[t]]
         c == [plan |-> run[t].plan, phase |-> run[t].found, tx |-> run[t].tx]
     IN SaveAndEnd(t, IF run[t].pc = "error" \/ Rejects(i, c) THEN i ELSE Applied(i, c))
  /\ run' = [run EXCEPT ![t] = Off]
  /\ UNCHANGED <<world, circle, keys>>

\* The 30 s of the request pass; the sidecar goes on, its answer is lost.
Unheard(r) == IF r.pc \in {"answer", "error"} THEN Off ELSE r

Timeout(t) ==
  /\ pc[t] = "wait"
  /\ SaveAndEnd(t, heap[ref[t]])
  /\ run' = [run EXCEPT ![t] = Unheard(@)]
  /\ UNCHANGED <<world, circle, keys>>

\* reconcile_disputed_invoices: a failed source disputes a paid invoice.
Dispute ==
  /\ cur # 0 /\ heap[cur].status = "paid" /\ heap[cur].gateway = "accepted"
  /\ source # "accepted"
  /\ LET i == [heap[cur] EXCEPT !.gateway = source,
                 !.status = IF source = "failed" THEN "disputed" ELSE @]
     IN Save(cur, i) \/ SaveFails(cur, i)
  /\ UNCHANGED <<world, threads, sidecar, keys>>

-----------------------------------------------------------------------------
(***************************************************************************)
(* The sidecar: executeVerdictSettlement for the request of a thread.  It  *)
(* reports to the copy in the table; it outlives the request and the       *)
(* backend.                                                                *)
(***************************************************************************)
Run(t, r) == run' = [run EXCEPT ![t] = r]
\* It answers, unless nobody waits any more.
Reply(t, r) == Run(t, IF pc[t] = "wait" THEN r ELSE Off)
Error == [Off EXCEPT !.pc = "error"]
Report(t, phase, tx) == [plan |-> run[t].plan, phase |-> phase, tx |-> tx]

\* The checkpoint endpoint: applies the report and saves.
Checkpoint(c) ==
  /\ cur # 0 /\ ~Rejects(heap[cur], c)
  /\ DrawsKey(heap[cur])
  /\ Save(cur, Applied(Planned(heap[cur]), c))

\* The same, lost in a failed save: the report stays in the dropped copy.
CheckpointLost(c) ==
  /\ cur # 0 /\ ~Rejects(heap[cur], c)
  /\ DrawsKey(heap[cur])
  /\ SaveFails(cur, Applied(Planned(heap[cur]), c))

\* The instruction: plan, key and transaction as the table has them now; a
\* refund is refused unless its recipient is the payer.
Fetch(t) ==
  /\ run[t].pc = "fetch"
  /\ cur # 0 /\ ~Rejects(heap[cur], run[t])
  /\ DrawsKey(heap[cur])
  /\ LET i == Planned(heap[cur]) IN
     /\ Save(cur, i)
     /\ Run(t, [run[t] EXCEPT !.key = i.key, !.tx = i.tx,
                 !.pc = IF i.plan = "buyer_refund" /\ ~given.sent THEN "failed"
                        ELSE "source"])
  /\ UNCHANGED <<world, threads, circle>>

\* The source settlement is final: reported before anything is signed.
Confirm(t) ==
  /\ run[t].pc = "source"
  /\ Checkpoint(Report(t, "open", 0))
  /\ Run(t, [run[t] EXCEPT !.pc = IF run[t].tx = 0 THEN "mint" ELSE "poll"])
  /\ UNCHANGED <<world, threads, circle>>

\* gatewayMint, under the idempotency key of the plan: the same key is the same
\* transaction.
Mint(t) ==
  /\ run[t].pc = "mint"
  /\ circle' = [circle EXCEPT ![run[t].key] = IF @ = "none" THEN "sent" ELSE @]
  /\ Run(t, [run[t] EXCEPT !.tx = run[t].key, !.pc = "minted"])
  /\ UNCHANGED <<world, memory, threads, keys>>

Minted(t) ==
  /\ run[t].pc = "minted"
  /\ Checkpoint(Report(t, "open", run[t].tx))
  /\ Run(t, [run[t] EXCEPT !.pc = "poll"])
  /\ UNCHANGED <<world, threads, circle>>

\* Mutant: a transaction counts as done when Circle took it.
PhaseOfSent(k) == IF circle[k] = "failed" THEN "failed_terminal" ELSE "confirmed"

PhaseOf(k) ==
  IF circle[k] = "complete" THEN "confirmed"
  ELSE IF circle[k] = "failed" THEN "failed_terminal" ELSE "open"

\* The state of the transaction: reported, and answered to the request.
Poll(t) ==
  /\ run[t].pc = "poll"
  /\ Checkpoint(Report(t, PhaseOf(run[t].tx), run[t].tx))
  /\ Reply(t, [run[t] EXCEPT !.pc = "answer", !.found = PhaseOf(run[t].tx)])
  /\ UNCHANGED <<world, threads, circle>>

\* Any step may fail, at the far end or at the checkpoint.
RunFails(t) ==
  /\ run[t].pc \in {"fetch", "source", "mint", "minted", "poll"}
  /\ \/ UNCHANGED <<memory, keys>>
     \/ /\ run[t].pc \in {"source", "minted", "poll"}
        /\ CheckpointLost(Report(t, IF run[t].pc = "poll" THEN PhaseOf(run[t].tx) ELSE "open",
                                 run[t].tx))
  /\ IF run[t].pc = "fetch" THEN Reply(t, Error)
     ELSE Run(t, [Off EXCEPT !.pc = "failed", !.plan = run[t].plan])
  /\ UNCHANGED <<world, threads, circle>>

\* A failure is reported as retryable, if that much works.
Retryable(t) ==
  /\ run[t].pc = "failed"
  /\ \/ Checkpoint(Report(t, "open", 0))
     \/ CheckpointLost(Report(t, "open", 0))
     \/ UNCHANGED <<memory, keys>>
  /\ Reply(t, Error)
  /\ UNCHANGED <<world, threads, circle>>

\* The sidecar dies.
Vanish(t) ==
  /\ run[t].pc \notin {"off", "answer", "error"}
  /\ Reply(t, Error)
  /\ UNCHANGED <<world, memory, threads, circle, keys>>

-----------------------------------------------------------------------------
(***************************************************************************)
(* The outside: Circle settles the source and the transaction; epochs come *)
(* and go; the backend restarts.                                           *)
(***************************************************************************)
SourceSettles ==
  /\ source = "accepted"
  /\ source' \in {"final", "failed"}
  /\ UNCHANGED <<given, epoch, memory, threads, sidecar, keys>>

TransactionEnds(k) ==
  /\ circle[k] = "sent"
  /\ \E s \in {"complete", "failed"} : circle' = [circle EXCEPT ![k] = s]
  /\ UNCHANGED <<world, memory, threads, run, keys>>

EpochExpires ==
  /\ given.ends /\ epoch # 0
  /\ epoch' = 0
  /\ UNCHANGED <<given, source, memory, threads, sidecar, keys>>

\* An epoch that was evicted or lost in a restart is rebuilt by another buyer.
EpochRebuilt ==
  /\ given.ends /\ epoch = 0
  /\ epoch' = 2
  /\ UNCHANGED <<given, source, memory, threads, sidecar, keys>>

Restart ==
  /\ given.fault = "restart" /\ faults < MaxFaults
  /\ faults' = faults + 1
  /\ heap' = [o \in Objects |-> IF o = FirstObject THEN saved ELSE Blank]
  /\ cur' = FirstObject
  /\ pc' = [t \in Threads |-> "idle"]
  /\ ref' = [t \in Threads |-> 0]
  /\ lock' = Nobody
  /\ epoch' = Dropped
  /\ run' = [t \in Threads |-> Unheard(run[t])]
  /\ UNCHANGED <<given, source, saved, circle, keys>>

Thread(t) ==
  \/ VerifyPayment(t) \/ StatusPoll(t) \/ SweepPending(t) \/ SweepSettlement(t) \/ Claim(t)
  \/ Bind(t) \/ BindFails(t) \/ Refresh(t) \/ RefreshFails(t) \/ Verify(t) \/ Unanswered(t) \/ Answered(t) \/ Settle(t)
  \/ Answer(t) \/ Timeout(t)

Sidecar(t) ==
  \/ Fetch(t) \/ Confirm(t) \/ Mint(t) \/ Minted(t) \/ Poll(t)
  \/ RunFails(t) \/ Retryable(t) \/ Vanish(t)

Next ==
  \/ \E t \in Threads : Thread(t) \/ Sidecar(t)
  \/ Dispute
  \/ SourceSettles \/ EpochExpires \/ EpochRebuilt
  \/ \E k \in Keys : TransactionEnds(k)
  \/ Restart

Spec == Init /\ [][Next]_vars

(***************************************************************************)
(* Fairness: threads go on, since every wait of theirs has a timeout; the  *)
(* sweep comes around again and again; the sidecar goes on with what it    *)
(* was asked; Circle ends every transaction.  Outages end: from some time  *)
(* on no call to Circle or GenLayer fails, and the sidecar stays up.       *)
(***************************************************************************)
Outage ==
  \E t \in Threads :
    \/ RunFails(t)
    \/ Unanswered(t) /\ ~Answered(t)
    \/ RefreshFails(t) /\ ~Refresh(t)
    \/ Vanish(t) /\ ~Retryable(t)

Fairness ==
  /\ \A t \in Threads :
       /\ WF_vars(pc[t] # "idle" /\ Thread(t))
       /\ WF_vars(Sidecar(t))
  /\ \A t \in Sweepers : SF_vars(SweepPending(t)) /\ SF_vars(SweepSettlement(t))
  /\ \A k \in Keys : WF_vars(TransactionEnds(k))
  /\ <>[][~Outage]_vars

FairSpec == Spec /\ Fairness

-----------------------------------------------------------------------------
(***************************************************************************)
(* Properties.                                                             *)
(***************************************************************************)
Invoices ==
  [status : {"pending", "verification_pending", "verification_rejected", "paid",
             "disputed", "refunded"},
   verdict : {"none"} \cup Verdicts,
   plan : {"none", "creator_payout", "buyer_refund"},
   phase : {"none", "open"} \cup FinalPhases,
   key : Keys \cup {0}, tx : Keys \cup {0},
   gateway : {"accepted", "final", "failed"}, hash : Hashes \cup {0}]

\* Types of the variables.
TypeOK ==
  /\ given \in [ruling : [Hashes -> Verdicts], sent : BOOLEAN, free : BOOLEAN,
                fault : {"restart", "save"}, ends : BOOLEAN]
  /\ source \in {"accepted", "final", "failed"}
  /\ epoch \in Hashes \cup {0}
  /\ heap \in [Objects -> Invoices]
  /\ cur \in Objects \cup {0}
  /\ pc \in [Threads -> {"idle", "claim", "bind", "refresh", "verify", "ask", "settle", "wait"}]
  /\ ref \in [Threads -> Objects \cup {0}]
  /\ lock \in Threads \cup {Nobody}
  /\ saved \in Invoices
  /\ run \in [Threads ->
                [pc : {"off", "fetch", "source", "mint", "minted", "poll", "answer",
                       "failed", "error"},
                 plan : {"none", "creator_payout", "buyer_refund"},
                 key : Keys \cup {0}, tx : Keys \cup {0},
                 found : {"none", "open"} \cup FinalPhases]]
  /\ keys \in Keys \cup {0}
  /\ circle \in [Keys -> {"none", "sent", "complete", "failed"}]
  /\ faults \in 0..MaxFaults

\* "created once and persisted before any Circle mutation" (arc_verdict_settlement
\* .py:131): every transaction Circle has for the invoice is under the one key
\* of its saved plan, so no retry, timeout or restart ever pays a second time.  A
\* failed save is the exception: it drops the plan while its transfer goes on.
OnePersistedKey ==
  given.fault # "save" => \A k \in Keys : circle[k] # "none" => saved.key = k

\* The buyer never has both the report and the money: once a refund has been
\* sent, the invoice is not paid, and while it is paid it is planned to pay the
\* creator (Answered, ensure_arc_settlement_plan).
ReportOrRefund ==
  \A i \in {saved} \cup {heap[o] : o \in Objects} :
    i.status = "paid" => i.plan = "creator_payout" /\ i.verdict = "VALID"

\* A transfer is recorded as done only when Circle completed it, and an invoice
\* as refunded only then (apply_arc_settlement_checkpoint).
ConfirmedIsComplete ==
  \A i \in {saved} \cup {heap[o] : o \in Objects} :
    /\ i.phase = "confirmed" => given.free \/ (i.tx # 0 /\ circle[i.tx] = "complete")
    /\ i.status = "refunded" => i.tx # 0 /\ circle[i.tx] = "complete"

\* docs/agent/PAYMENT_FLOW.md:52: "`refunded` is terminal and survives every
\* invoice save."
RefundedIsTerminal == [][saved.status = "refunded" => saved'.status = "refunded"]_vars

\* Once GenLayer has ruled and the source settlement is final, the creator is
\* paid or the buyer refunded, or Circle has refused for good: whatever request,
\* sweep or sidecar run dies or times out on the way, another one finishes
\* (reconcile_arc_verdict_settlements_once).
Ruled == saved.verdict \in Verdicts /\ source = "final"
EventuallySettled == Ruled ~> saved.phase \in FinalPhases
=============================================================================
