-------------------------- MODULE SettlementClaim --------------------------
(***************************************************************************)
(* Which invoice a Circle settlement pays for.  Calls of verify_payment    *)
(* name an invoice and a settlement; the settlement is checked against     *)
(* memory, the database, the payment events and the entitlements, claimed  *)
(* in the row of the invoice, validated at Circle, bound, verified by      *)
(* GenLayer and entered in the events.                                     *)
(*                                                                         *)
(* Everything up to GenLayer's answer happens under a lock named after the *)
(* settlement.  A save that fails drops the invoice from memory, and a     *)
(* restart empties memory and lets go of the locks.                        *)
(***************************************************************************)
EXTENDS Naturals, FiniteSets

CONSTANTS
  Bills,        \* invoices with a single payment
  Settlements,  \* Circle settlements
  Verifiers,    \* calls of verify_payment
  Covers        \* pairs of a bill and a settlement validate_arc_payment accepts

ASSUME ClaimedAssumption ==
  /\ Bills # {} /\ Settlements # {} /\ Covers \subseteq Bills \X Settlements
  /\ "none" \notin Settlements /\ "free" \notin Verifiers

VARIABLES
  row,      \* qma_invoices: the columns status and settlement_id, and the
            \* settlement_id in the JSON of the invoice
  mem,      \* invoices_db, what memory has of each bill
  entered,  \* settlements in the payment events and the entitlements
  lock,     \* who holds settlement_claim:<settlement>
  verify    \* the calls: where each is, its bill and its settlement

claimedVars == <<row, mem, entered, lock, verify>>

NoVerify == [at |-> "idle", bill |-> CHOOSE b \in Bills : TRUE,
             sid |-> CHOOSE s \in Settlements : TRUE]

SettlementInit ==
  /\ row = [b \in Bills |-> [status |-> "pending", claimed |-> "none", sid |-> "none"]]
  /\ mem = [b \in Bills |-> [status |-> "pending", sid |-> "none"]]
  /\ entered = {}
  /\ lock = [s \in Settlements |-> "free"]
  /\ verify = [v \in Verifiers |-> NoVerify]

RowCopy(b) == [status |-> row[b].status, sid |-> row[b].sid]
\* get_invoice_or_402: memory, or else the database.
BillCopy(b) == IF mem[b].status = "absent" THEN RowCopy(b) ELSE mem[b]

VerifyAt(v, place) == verify[v].at = place
VerifyGoes(v, place) == verify' = [verify EXCEPT ![v].at = place]
LetGo(v) == lock' = [s \in Settlements |-> IF lock[s] = v THEN "free" ELSE lock[s]]
\* The call is answered; its lock is let go.
VerifyLeaves(v) == VerifyGoes(v, "idle") /\ LetGo(v)

\* _save_invoice, which writes every column, or drops the bill from memory.
SavesBill(b, copy) ==
  /\ row' = [row EXCEPT ![b] = [status |-> copy.status, claimed |-> copy.sid, sid |-> copy.sid]]
  /\ mem' = [mem EXCEPT ![b] = copy]
SaveBillFails(b) ==
  /\ mem' = [mem EXCEPT ![b] = [status |-> "absent", sid |-> "none"]]
  /\ UNCHANGED row

\* Mutant: the database is not asked for other invoices.
RowOfNone(b, s) == FALSE

RowOfOther(b, s) == \E c \in Bills \ {b} : row[c].claimed = s
MemoryOfOther(b, s) == \E c \in Bills \ {b} : mem[c].sid = s
\* settlement_id_already_claimed.
ClaimedAlready(b, s) == MemoryOfOther(b, s) \/ RowOfOther(b, s) \/ s \in entered

\* verify_payment up to the lock.  Bills that were ruled are answered at once,
\* and bound ones go straight to GenLayer, without the lock.
BeginVerify(v, b, s) ==
  /\ VerifyAt(v, "idle")
  /\ BillCopy(b).status \in {"pending", "verification_pending"}
  /\ mem' = [mem EXCEPT ![b] = BillCopy(b)]
  /\ verify' = [verify EXCEPT ![v] =
       [at |-> IF BillCopy(b).status = "pending" THEN "lock" ELSE "rule",
        bill |-> b, sid |-> s]]
  /\ UNCHANGED <<row, entered, lock>>

\* cross_process_lock: taken when free, given up after 15 seconds.
TakeLock(v) ==
  /\ VerifyAt(v, "lock") /\ lock[verify[v].sid] = "free"
  /\ lock' = [lock EXCEPT ![verify[v].sid] = v]
  /\ VerifyGoes(v, "check")
  /\ UNCHANGED <<row, mem, entered>>

LockTimesOut(v) ==
  /\ VerifyAt(v, "lock") /\ lock[verify[v].sid] # "free"
  /\ VerifyGoes(v, "idle")
  /\ UNCHANGED <<row, mem, entered, lock>>

\* settlement_id_already_claimed; a database error is a refusal too.
CheckClaimed(v) ==
  LET b == verify[v].bill  s == verify[v].sid IN
  /\ VerifyAt(v, "check")
  /\ \/ /\ ~ClaimedAlready(b, s)
        /\ VerifyGoes(v, "claim") /\ UNCHANGED lock
     \/ VerifyLeaves(v)
  /\ UNCHANGED <<row, mem, entered>>

\* claim_settlement_for_invoice: one transaction, and memory after it.
ClaimSettlement(v) ==
  LET b == verify[v].bill  s == verify[v].sid IN
  /\ VerifyAt(v, "claim")
  /\ \/ /\ s \notin entered /\ ~RowOfOther(b, s)
        /\ row[b].claimed \in {"none", s}
        /\ row' = [row EXCEPT ![b].claimed = s]
        /\ mem' = [mem EXCEPT ![b].sid = IF mem[b].status = "absent" THEN @ ELSE s]
        /\ VerifyGoes(v, "bind") /\ UNCHANGED lock
     \/ VerifyLeaves(v) /\ UNCHANGED <<row, mem>>
  /\ UNCHANGED entered

\* Circle is asked and the transfer validated; what is refused stays claimed.
BindSettlement(v) ==
  LET b == verify[v].bill  s == verify[v].sid IN
  /\ VerifyAt(v, "bind")
  /\ \/ /\ BillCopy(b).status \notin {"paid", "verification_rejected"}
        /\ <<b, s>> \in Covers
        /\ BillCopy(b).sid \in {"none", s}
        /\ \/ SavesBill(b, [status |-> "verification_pending", sid |-> s]) /\ VerifyGoes(v, "rule") /\ UNCHANGED lock
           \/ SaveBillFails(b) /\ VerifyLeaves(v)
     \/ /\ mem' = [mem EXCEPT ![b] = BillCopy(b)]
        /\ VerifyLeaves(v) /\ UNCHANGED row
  /\ UNCHANGED entered

\* GenLayer's verdict, or none.  A valid one is saved with the invoice first and
\* entered in entitlements and events after it, without the lock.
RuleBill(v) ==
  LET b == verify[v].bill IN
  /\ VerifyAt(v, "rule")
  /\ BillCopy(b).status = "verification_pending"
  /\ \/ /\ SavesBill(b, [BillCopy(b) EXCEPT !.status = "paid"])
        /\ VerifyGoes(v, "enter") /\ LetGo(v)
     \/ SavesBill(b, [BillCopy(b) EXCEPT !.status = "verification_rejected"]) /\ VerifyLeaves(v)
     \/ SaveBillFails(b) /\ VerifyLeaves(v)
     \/ VerifyLeaves(v) /\ UNCHANGED <<row, mem>>
  /\ UNCHANGED entered

\* Ruled by another call meanwhile.
RuledBefore(v) ==
  /\ VerifyAt(v, "rule")
  /\ BillCopy(verify[v].bill).status # "verification_pending"
  /\ VerifyLeaves(v)
  /\ UNCHANGED <<row, mem, entered>>

EnterPayment(v) ==
  /\ VerifyAt(v, "enter")
  /\ entered' = entered \cup {row[verify[v].bill].sid}
  /\ VerifyLeaves(v)
  /\ UNCHANGED <<row, mem>>

RestartClaims ==
  /\ \E v \in Verifiers : ~VerifyAt(v, "idle")
  /\ mem' = [b \in Bills |-> RowCopy(b)]
  /\ lock' = [s \in Settlements |-> "free"]
  /\ verify' = [v \in Verifiers |-> NoVerify]
  /\ UNCHANGED <<row, entered>>

\* Saves of the rest of the program: a poll writes the bill back as memory has it.
SaveBack(b) ==
  /\ mem[b].status # "absent" /\ mem[b] # [status |-> row[b].status, sid |-> row[b].claimed]
  /\ SavesBill(b, mem[b])
  /\ UNCHANGED <<entered, lock, verify>>

SettlementNext ==
  \/ \E v \in Verifiers :
       \/ \E b \in Bills, s \in Settlements : BeginVerify(v, b, s)
       \/ TakeLock(v) \/ LockTimesOut(v) \/ CheckClaimed(v) \/ ClaimSettlement(v)
       \/ BindSettlement(v) \/ RuleBill(v) \/ RuledBefore(v) \/ EnterPayment(v)
  \/ \E b \in Bills : SaveBack(b)
  \/ RestartClaims

SettlementSpec == SettlementInit /\ [][SettlementNext]_claimedVars

SettlementTypeOK ==
  /\ row \in [Bills -> [status: {"pending", "verification_pending", "paid", "verification_rejected"},
                        claimed: Settlements \cup {"none"}, sid: Settlements \cup {"none"}]]
  /\ mem \in [Bills -> [status: {"pending", "verification_pending", "paid",
                                 "verification_rejected", "absent"},
                        sid: Settlements \cup {"none"}]]
  /\ entered \subseteq Settlements
  /\ lock \in [Settlements -> Verifiers \cup {"free"}]
  /\ verify \in [Verifiers -> [at: {"idle", "lock", "check", "claim", "bind", "rule", "enter"},
                               bill: Bills, sid: Settlements]]

\* A settlement is bound to one invoice: no second invoice reaches GenLayer or
\* its buyer with it, whatever calls run at once, saves fail, and restarts come
\* between the claim in the database, the binding and the events.
OneInvoicePerSettlement ==
  \A b, c \in Bills :
    /\ row[b].status # "pending" /\ row[c].status # "pending"
    /\ row[b].sid = row[c].sid
    => b = c
============================================================================
