------------------------- MODULE MarketplaceProofs --------------------------
(***************************************************************************)
(* Theorems about the parts of the marketplace, each on its own variables: *)
(* settlement claims, MCP connections, split payments, report access, the  *)
(* claims of creators, the views of payments, an agent's decisions, the    *)
(* advice on its caps and the wallets of sessions.                         *)
(***************************************************************************)
EXTENDS CreatorClaims, SplitPayment, ReportAccess, SettlementClaim, McpAccess, PaymentViews,
        AgentDecision, SpendAdvice, WalletBinding, Sums, FiniteSetTheorems, TLAPS

-----------------------------------------------------------------------------
(***************************************************************************)
(* Settlement claims: whatever calls of verify_payment run at once, saves  *)
(* fail and restarts come between, a settlement is bound to one invoice.   *)
(***************************************************************************)
RowStatuses == {"pending", "verification_pending", "paid", "verification_rejected"}

(* What rows, memory, locks and calls are.                                   *)
ClaimTypes ==
  /\ row \in [Bills -> [status: RowStatuses,
                        claimed: Settlements \cup {"none"}, sid: Settlements \cup {"none"}]]
  /\ mem \in [Bills -> [status: RowStatuses \cup {"absent"}, sid: Settlements \cup {"none"}]]
  /\ lock \in [Settlements -> Verifiers \cup {"free"}]
  /\ verify \in [Verifiers -> [at: {"idle", "lock", "check", "claim", "bind", "rule", "enter"},
                               bill: Bills, sid: Settlements]]

(* A settlement in an invoice, in the database or in memory, is the one its  *)
(* row has claimed; an invoice past "pending" has one.                       *)
CopiesAreClaimed ==
  \A b \in Bills :
    /\ row[b].sid # "none" => row[b].claimed = row[b].sid
    /\ mem[b].sid # "none" => row[b].claimed = mem[b].sid
    /\ row[b].status # "pending" => row[b].sid # "none"
    /\ mem[b].status \notin {"pending", "absent"} => mem[b].sid # "none"

(* No two rows claim one settlement.                                         *)
ClaimsDiffer ==
  \A b, c \in Bills : b # c /\ row[b].claimed # "none" => row[b].claimed # row[c].claimed

(* A call between check and binding holds the lock of its settlement.        *)
LockHeld ==
  \A v \in Verifiers :
    verify[v].at \in {"check", "claim", "bind"} => lock[verify[v].sid] = v

(* While a call is about to bind, no other row claims its settlement.        *)
NoOtherClaim ==
  \A v \in Verifiers : verify[v].at = "bind" =>
    \A c \in Bills : c # verify[v].bill => row[c].claimed # verify[v].sid

ClaimInv == ClaimTypes /\ CopiesAreClaimed /\ ClaimsDiffer /\ LockHeld /\ NoOtherClaim

(* The copy get_invoice_or_402 loads has what the invariant says of memory.  *)
LEMMA CopyIsClaimed ==
  ASSUME ClaimInv, NEW b \in Bills
  PROVE  /\ BillCopy(b) \in [status: RowStatuses, sid: Settlements \cup {"none"}]
         /\ BillCopy(b).sid # "none" => row[b].claimed = BillCopy(b).sid
         /\ BillCopy(b).status # "pending" => BillCopy(b).sid # "none"
  BY DEF ClaimInv, ClaimTypes, CopiesAreClaimed, BillCopy, RowCopy

(* Letting go of the lock of one call leaves the locks of the others.        *)
LEMMA LetGoKeeps ==
  ASSUME ClaimInv, NEW v \in Verifiers, LetGo(v)
  PROVE  /\ lock' \in [Settlements -> Verifiers \cup {"free"}]
         /\ \A s \in Settlements, w \in Verifiers : w # v /\ lock[s] = w => lock'[s] = w
  BY DEF ClaimInv, ClaimTypes, LetGo

(* A call that moves on or is answered keeps the invariant when the rows do  *)
(* not change and memory takes claimed copies only.                          *)
LEMMA LeavingKeeps ==
  ASSUME ClaimInv, NEW v \in Verifiers, VerifyLeaves(v), row' = row,
         mem' \in [Bills -> [status: RowStatuses \cup {"absent"}, sid: Settlements \cup {"none"}]],
         \A b \in Bills :
           /\ mem'[b].sid # "none" => row[b].claimed = mem'[b].sid
           /\ mem'[b].status \notin {"pending", "absent"} => mem'[b].sid # "none"
  PROVE  ClaimInv'
<1>1. verify' = [verify EXCEPT ![v].at = "idle"] /\ LetGo(v)
  BY DEF VerifyLeaves, VerifyGoes
<1>2. ClaimTypes'
  BY <1>1, LetGoKeeps, ZenonT(60) DEF ClaimInv, ClaimTypes
<1>3. CopiesAreClaimed' /\ ClaimsDiffer'
  BY DEF ClaimInv, CopiesAreClaimed, ClaimsDiffer
<1>4. LockHeld'
  BY <1>1, LetGoKeeps DEF ClaimInv, ClaimTypes, LockHeld
<1>5. NoOtherClaim'
  BY <1>1 DEF ClaimInv, ClaimTypes, NoOtherClaim
<1>. QED
  BY <1>2, <1>3, <1>4, <1>5 DEF ClaimInv

(* Saving a copy whose settlement the row has claimed, or a call is about to *)
(* bind, keeps what the invariant says of rows and memory.                   *)
LEMMA SaveKeeps ==
  ASSUME ClaimInv, NEW b \in Bills,
         NEW copy \in [status: RowStatuses, sid: Settlements \cup {"none"}],
         SavesBill(b, copy),
         copy.status # "pending" => copy.sid # "none",
         copy.sid # "none" => \A c \in Bills : c # b => row[c].claimed # copy.sid
  PROVE  /\ row' \in [Bills -> [status: RowStatuses, claimed: Settlements \cup {"none"},
                                sid: Settlements \cup {"none"}]]
         /\ mem' \in [Bills -> [status: RowStatuses \cup {"absent"},
                                sid: Settlements \cup {"none"}]]
         /\ CopiesAreClaimed' /\ ClaimsDiffer'
         /\ row'[b].claimed = copy.sid
         /\ \A c \in Bills : c # b => row'[c] = row[c]
<1>. USE DEF ClaimInv, ClaimTypes, SavesBill
<1>1. /\ row' \in [Bills -> [status: RowStatuses, claimed: Settlements \cup {"none"},
                             sid: Settlements \cup {"none"}]]
      /\ mem' \in [Bills -> [status: RowStatuses \cup {"absent"},
                             sid: Settlements \cup {"none"}]]
  OBVIOUS
<1>2. /\ row'[b] = [status |-> copy.status, claimed |-> copy.sid, sid |-> copy.sid]
      /\ mem'[b] = copy
      /\ \A c \in Bills : c # b => row'[c] = row[c] /\ mem'[c] = mem[c]
  OBVIOUS
<1>3. CopiesAreClaimed'
  BY <1>2 DEF CopiesAreClaimed
<1>4. ClaimsDiffer'
  BY <1>2 DEF ClaimsDiffer
<1>. QED
  BY <1>1, <1>2, <1>3, <1>4

(* Every step keeps the invariant.                                           *)
LEMMA ClaimStep == ClaimInv /\ [SettlementNext]_claimedVars => ClaimInv'
<1>. SUFFICES ASSUME ClaimInv, [SettlementNext]_claimedVars PROVE ClaimInv'
  OBVIOUS
<1>1. ASSUME NEW v \in Verifiers, NEW b \in Bills, NEW s \in Settlements, BeginVerify(v, b, s)
      PROVE  ClaimInv'
  <2>. DEFINE next == [at |-> IF BillCopy(b).status = "pending" THEN "lock" ELSE "rule",
                       bill |-> b, sid |-> s]
  <2>1. /\ mem' = [mem EXCEPT ![b] = BillCopy(b)] /\ verify' = [verify EXCEPT ![v] = next]
        /\ row' = row /\ lock' = lock
    BY <1>1 DEF BeginVerify
  <2>2. ClaimTypes'
    BY <2>1, CopyIsClaimed DEF ClaimInv, ClaimTypes
  <2>3. CopiesAreClaimed' /\ ClaimsDiffer'
    BY <2>1, CopyIsClaimed DEF ClaimInv, ClaimTypes, CopiesAreClaimed, ClaimsDiffer
  <2>4. LockHeld' /\ NoOtherClaim'
    BY <2>1 DEF ClaimInv, ClaimTypes, LockHeld, NoOtherClaim
  <2>. QED
    BY <2>2, <2>3, <2>4 DEF ClaimInv
<1>2. ASSUME NEW v \in Verifiers, TakeLock(v) PROVE ClaimInv'
  <2>1. /\ verify' = [verify EXCEPT ![v].at = "check"] /\ row' = row /\ mem' = mem
        /\ lock' = [lock EXCEPT ![verify[v].sid] = v] /\ lock[verify[v].sid] = "free"
    BY <1>2 DEF TakeLock, VerifyGoes
  <2>2. ClaimTypes'
    BY <2>1 DEF ClaimInv, ClaimTypes
  <2>3. CopiesAreClaimed' /\ ClaimsDiffer' /\ NoOtherClaim'
    BY <2>1 DEF ClaimInv, ClaimTypes, CopiesAreClaimed, ClaimsDiffer, NoOtherClaim
  <2>4. LockHeld'
    BY <2>1, ClaimedAssumption DEF ClaimInv, ClaimTypes, LockHeld
  <2>. QED
    BY <2>2, <2>3, <2>4 DEF ClaimInv
<1>3. ASSUME NEW v \in Verifiers, LockTimesOut(v) PROVE ClaimInv'
  BY <1>3 DEF LockTimesOut, VerifyGoes, ClaimInv, ClaimTypes, CopiesAreClaimed, ClaimsDiffer,
     LockHeld, NoOtherClaim
<1>4. ASSUME NEW v \in Verifiers, CheckClaimed(v) PROVE ClaimInv'
  <2>1. CASE VerifyLeaves(v)
    BY <1>4, <2>1, LeavingKeeps DEF CheckClaimed, ClaimInv, ClaimTypes, CopiesAreClaimed
  <2>2. CASE VerifyGoes(v, "claim") /\ UNCHANGED lock
    BY <1>4, <2>2 DEF CheckClaimed, VerifyAt, VerifyGoes, ClaimInv, ClaimTypes,
       CopiesAreClaimed, ClaimsDiffer, LockHeld, NoOtherClaim
  <2>. QED
    BY <1>4, <2>1, <2>2 DEF CheckClaimed
<1>5. ASSUME NEW v \in Verifiers, ClaimSettlement(v) PROVE ClaimInv'
  <2>. DEFINE b == verify[v].bill
              s == verify[v].sid
  <2>. b \in Bills /\ s \in Settlements
    BY DEF ClaimInv, ClaimTypes
  <2>1. CASE VerifyLeaves(v) /\ UNCHANGED <<row, mem>>
    BY <2>1, LeavingKeeps DEF ClaimInv, ClaimTypes, CopiesAreClaimed
  <2>2. CASE /\ ~RowOfOther(b, s) /\ row[b].claimed \in {"none", s}
             /\ row' = [row EXCEPT ![b].claimed = s]
             /\ mem' = [mem EXCEPT ![b].sid = IF mem[b].status = "absent" THEN @ ELSE s]
             /\ VerifyGoes(v, "bind") /\ UNCHANGED lock
    <3>1. /\ verify' = [verify EXCEPT ![v].at = "bind"] /\ lock' = lock
          /\ verify[v].at = "claim"
          /\ \A c \in Bills : c # b => row[c].claimed # s
      BY <1>5, <2>2 DEF ClaimSettlement, VerifyAt, VerifyGoes, RowOfOther
    <3>2. /\ row'[b].claimed = s /\ row'[b].sid = row[b].sid /\ row'[b].status = row[b].status
          /\ mem'[b].status = mem[b].status /\ mem'[b].sid \in {mem[b].sid, s}
          /\ \A c \in Bills : c # b => row'[c] = row[c] /\ mem'[c] = mem[c]
      BY <2>2 DEF ClaimInv, ClaimTypes
    <3>3. ClaimTypes'
      BY <2>2, <3>1 DEF ClaimInv, ClaimTypes
    <3>4. CopiesAreClaimed'
      BY <2>2, <3>2, ClaimedAssumption DEF ClaimInv, CopiesAreClaimed
    <3>5. ClaimsDiffer'
      BY <3>1, <3>2 DEF ClaimInv, ClaimsDiffer
    <3>6. LockHeld'
      BY <3>1 DEF ClaimInv, ClaimTypes, LockHeld
    <3>7. ASSUME NEW w \in Verifiers, verify'[w].at = "bind"
          PROVE  \A c \in Bills : c # verify'[w].bill => row'[c].claimed # verify'[w].sid
      <4>1. CASE w = v
        BY <3>1, <3>2, <4>1 DEF ClaimInv, ClaimTypes
      <4>2. CASE w # v
        <5>1. verify'[w] = verify[w]
          BY <3>1, <4>2 DEF ClaimInv, ClaimTypes
        <5>2. verify[w].sid # s
          BY <3>1, <3>7, <4>2, <5>1 DEF ClaimInv, LockHeld
        <5>. QED
          BY <3>2, <3>7, <5>1, <5>2 DEF ClaimInv, NoOtherClaim
      <4>. QED
        BY <4>1, <4>2
    <3>. QED
      BY <3>3, <3>4, <3>5, <3>6, <3>7 DEF ClaimInv, NoOtherClaim
  <2>. QED
    BY <1>5, <2>1, <2>2 DEF ClaimSettlement
<1>6. ASSUME NEW v \in Verifiers, BindSettlement(v) PROVE ClaimInv'
  <2>. DEFINE b == verify[v].bill
              s == verify[v].sid
              copy == [status |-> "verification_pending", sid |-> s]
  <2>. b \in Bills /\ s \in Settlements
    BY DEF ClaimInv, ClaimTypes
  <2>1. verify[v].at = "bind"
    BY <1>6 DEF BindSettlement, VerifyAt
  <2>2. CASE SavesBill(b, copy) /\ VerifyGoes(v, "rule") /\ UNCHANGED lock
    <3>1. verify' = [verify EXCEPT ![v].at = "rule"] /\ lock' = lock
      BY <2>2 DEF VerifyGoes
    <3>2. /\ copy \in [status: RowStatuses, sid: Settlements \cup {"none"}]
          /\ copy.sid # "none" /\ \A c \in Bills : c # b => row[c].claimed # copy.sid
      BY <2>1, ClaimedAssumption DEF ClaimInv, NoOtherClaim, RowStatuses
    <3>3. /\ row' \in [Bills -> [status: RowStatuses, claimed: Settlements \cup {"none"},
                                 sid: Settlements \cup {"none"}]]
          /\ mem' \in [Bills -> [status: RowStatuses \cup {"absent"},
                                 sid: Settlements \cup {"none"}]]
          /\ CopiesAreClaimed' /\ ClaimsDiffer'
          /\ row'[b].claimed = copy.sid
          /\ \A c \in Bills : c # b => row'[c] = row[c]
      BY <2>2, <3>2, SaveKeeps
    <3>4. ClaimTypes'
      BY <3>1, <3>3 DEF ClaimInv, ClaimTypes
    <3>5. LockHeld'
      BY <3>1 DEF ClaimInv, ClaimTypes, LockHeld
    <3>6. ASSUME NEW w \in Verifiers, verify'[w].at = "bind"
          PROVE  \A c \in Bills : c # verify'[w].bill => row'[c].claimed # verify'[w].sid
      <4>1. w # v /\ verify'[w] = verify[w]
        BY <3>1, <3>6 DEF ClaimInv, ClaimTypes
      <4>2. verify[w].sid # s
        BY <2>1, <3>6, <4>1 DEF ClaimInv, LockHeld
      <4>. QED
        BY <3>3, <3>6, <4>1, <4>2 DEF ClaimInv, NoOtherClaim
    <3>. QED
      BY <3>3, <3>4, <3>5, <3>6 DEF ClaimInv, NoOtherClaim
  <2>3. CASE SaveBillFails(b) /\ VerifyLeaves(v)
    BY <2>3, LeavingKeeps DEF SaveBillFails, ClaimInv, ClaimTypes, CopiesAreClaimed
  <2>4. CASE mem' = [mem EXCEPT ![b] = BillCopy(b)] /\ VerifyLeaves(v) /\ row' = row
    BY <2>4, CopyIsClaimed, LeavingKeeps DEF ClaimInv, ClaimTypes, CopiesAreClaimed
  <2>. QED
    BY <1>6, <2>2, <2>3, <2>4 DEF BindSettlement
<1>7. ASSUME NEW v \in Verifiers, RuleBill(v) PROVE ClaimInv'
  <2>. DEFINE b == verify[v].bill
  <2>. b \in Bills
    BY DEF ClaimInv, ClaimTypes
  <2>1. BillCopy(b).status = "verification_pending" /\ verify[v].at = "rule"
    BY <1>7 DEF RuleBill, VerifyAt
  <2>2. ASSUME NEW ruled \in {"paid", "verification_rejected"}, NEW place \in {"enter", "idle"},
               SavesBill(b, [BillCopy(b) EXCEPT !.status = ruled]),
               VerifyGoes(v, place), LetGo(v)
        PROVE  ClaimInv'
    <3>. DEFINE copy == [BillCopy(b) EXCEPT !.status = ruled]
    <3>1. /\ copy \in [status: RowStatuses, sid: Settlements \cup {"none"}]
          /\ copy.sid = BillCopy(b).sid
          /\ copy.sid # "none" /\ row[b].claimed = copy.sid
      BY <2>1, CopyIsClaimed DEF RowStatuses
    <3>2. \A c \in Bills : c # b => row[c].claimed # copy.sid
      BY <3>1 DEF ClaimInv, ClaimsDiffer
    <3>3. /\ row' \in [Bills -> [status: RowStatuses, claimed: Settlements \cup {"none"},
                                 sid: Settlements \cup {"none"}]]
          /\ mem' \in [Bills -> [status: RowStatuses \cup {"absent"},
                                 sid: Settlements \cup {"none"}]]
          /\ CopiesAreClaimed' /\ ClaimsDiffer'
          /\ row'[b].claimed = copy.sid
          /\ \A c \in Bills : c # b => row'[c] = row[c]
      BY <2>2, <3>1, <3>2, SaveKeeps
    <3>4. verify' = [verify EXCEPT ![v].at = place]
      BY <2>2 DEF VerifyGoes
    <3>5. ClaimTypes'
      BY <2>2, <3>3, <3>4, LetGoKeeps, SMTT(30) DEF ClaimInv, ClaimTypes
    <3>6. LockHeld'
      BY <2>2, <3>4, LetGoKeeps DEF ClaimInv, ClaimTypes, LockHeld
    <3>7. NoOtherClaim'
      BY <3>1, <3>3, <3>4 DEF ClaimInv, ClaimTypes, NoOtherClaim
    <3>. QED
      BY <3>3, <3>5, <3>6, <3>7 DEF ClaimInv
  <2>3. CASE SaveBillFails(b) /\ VerifyLeaves(v)
    BY <2>3, LeavingKeeps DEF SaveBillFails, ClaimInv, ClaimTypes, CopiesAreClaimed
  <2>4. CASE VerifyLeaves(v) /\ UNCHANGED <<row, mem>>
    BY <2>4, LeavingKeeps DEF ClaimInv, ClaimTypes, CopiesAreClaimed
  <2>. QED
    BY <1>7, <2>2, <2>3, <2>4 DEF RuleBill, VerifyLeaves
<1>8. ASSUME NEW v \in Verifiers, RuledBefore(v) \/ EnterPayment(v) PROVE ClaimInv'
  BY <1>8, LeavingKeeps DEF RuledBefore, EnterPayment, ClaimInv, ClaimTypes, CopiesAreClaimed
<1>9. ASSUME NEW b \in Bills, SaveBack(b) PROVE ClaimInv'
  <2>1. /\ mem[b] \in [status: RowStatuses, sid: Settlements \cup {"none"}]
        /\ SavesBill(b, mem[b]) /\ lock' = lock /\ verify' = verify
        /\ mem[b].sid # "none" => row[b].claimed = mem[b].sid
        /\ mem[b].status # "pending" => mem[b].sid # "none"
    BY <1>9 DEF SaveBack, ClaimInv, ClaimTypes, CopiesAreClaimed
  <2>2. mem[b].sid # "none" => \A c \in Bills : c # b => row[c].claimed # mem[b].sid
    BY <2>1 DEF ClaimInv, ClaimsDiffer
  <2>3. /\ row' \in [Bills -> [status: RowStatuses, claimed: Settlements \cup {"none"},
                               sid: Settlements \cup {"none"}]]
        /\ mem' \in [Bills -> [status: RowStatuses \cup {"absent"},
                               sid: Settlements \cup {"none"}]]
        /\ CopiesAreClaimed' /\ ClaimsDiffer'
        /\ row'[b].claimed = mem[b].sid
        /\ \A c \in Bills : c # b => row'[c] = row[c]
    BY <2>1, <2>2, SaveKeeps
  <2>4. ClaimTypes' /\ LockHeld'
    BY <2>1, <2>3 DEF ClaimInv, ClaimTypes, LockHeld
  <2>5. NoOtherClaim'
    <3>. SUFFICES ASSUME NEW v \in Verifiers, verify[v].at = "bind",
                         NEW c \in Bills, c # verify[v].bill
                  PROVE  row'[c].claimed # verify[v].sid
      BY <2>1 DEF NoOtherClaim
    <3>1. row[c].claimed # verify[v].sid
      BY DEF ClaimInv, NoOtherClaim
    <3>2. CASE c = b
      <4>1. verify[v].sid # "none"
        BY ClaimedAssumption DEF ClaimInv, ClaimTypes
      <4>. QED
        BY <2>1, <2>3, <3>1, <3>2, <4>1
    <3>3. CASE c # b
      BY <2>3, <3>1, <3>3
    <3>. QED
      BY <3>2, <3>3
  <2>. QED
    BY <2>3, <2>4, <2>5 DEF ClaimInv
<1>10. ASSUME RestartClaims PROVE ClaimInv'
  <2>1. NoVerify \in [at: {"idle"}, bill: Bills, sid: Settlements]
    BY ClaimedAssumption DEF NoVerify
  <2>2. /\ mem' = [b \in Bills |-> RowCopy(b)] /\ row' = row
        /\ lock' = [s \in Settlements |-> "free"] /\ verify' = [v \in Verifiers |-> NoVerify]
    BY <1>10 DEF RestartClaims
  <2>3. ClaimTypes'
    BY <2>1, <2>2 DEF ClaimInv, ClaimTypes, RowCopy
  <2>4. CopiesAreClaimed' /\ ClaimsDiffer'
    BY <2>2 DEF ClaimInv, ClaimTypes, CopiesAreClaimed, ClaimsDiffer, RowCopy
  <2>5. LockHeld' /\ NoOtherClaim'
    BY <2>1, <2>2 DEF LockHeld, NoOtherClaim
  <2>. QED
    BY <2>3, <2>4, <2>5 DEF ClaimInv
<1>11. CASE UNCHANGED claimedVars
  BY <1>11 DEF claimedVars, ClaimInv, ClaimTypes, CopiesAreClaimed, ClaimsDiffer, LockHeld,
     NoOtherClaim
<1>. QED
  BY <1>1, <1>2, <1>3, <1>4, <1>5, <1>6, <1>7, <1>8, <1>9, <1>10, <1>11 DEF SettlementNext

(* The invariant holds at the start: nothing is claimed.                     *)
LEMMA ClaimStart == SettlementInit => ClaimInv
<1>. SUFFICES ASSUME SettlementInit PROVE ClaimInv
  OBVIOUS
<1>1. NoVerify \in [at: {"idle"}, bill: Bills, sid: Settlements]
  BY ClaimedAssumption DEF NoVerify
<1>2. ClaimTypes
  BY <1>1 DEF SettlementInit, ClaimTypes, RowStatuses
<1>3. CopiesAreClaimed /\ ClaimsDiffer /\ LockHeld /\ NoOtherClaim
  BY <1>1 DEF SettlementInit, CopiesAreClaimed, ClaimsDiffer, LockHeld, NoOtherClaim
<1>. QED
  BY <1>2, <1>3 DEF ClaimInv

(* The invariant says at least what the property says.                       *)
LEMMA ClaimImplies == ClaimInv => OneInvoicePerSettlement
  BY DEF ClaimInv, CopiesAreClaimed, ClaimsDiffer, OneInvoicePerSettlement

(* No two invoices past "pending" are bound to one settlement                *)
(* (services/payment_service.py, verify_payment, and Postgres'               *)
(* claim_settlement_for_invoice): for any number of invoices, settlements    *)
(* and concurrent calls.                                                     *)
THEOREM OneInvoice == SettlementSpec => []OneInvoicePerSettlement
  BY ClaimStart, ClaimStep, ClaimImplies, PTL DEF SettlementSpec

-----------------------------------------------------------------------------
(***************************************************************************)
(* One MCP connection: a revocation that no approval was under way for     *)
(* holds for ever, whatever codes are redeemed and purchases are made.     *)
(***************************************************************************)
(* What the grants of the connection are, as far as the revocation goes.     *)
GrantTypes ==
  /\ approval \in [Approvals -> {"idle", "loaded", "bound", "done"}]
  /\ code \in [Approvals -> {"none", "open", "used", "deleted"}]
  /\ raced \in BOOLEAN

(* From the PATCH of the row on, no approval is between its load of the      *)
(* client and its code, unless one was under way then; and there are no open *)
(* codes once they were deleted.                                             *)
NoneUnderWay ==
  revoke \in {"patched", "answered"} /\ ~raced =>
    /\ connection = "revoked"
    /\ \A a \in Approvals: approval[a] \in {"idle", "done"}
    /\ revoke = "answered" => \A a \in Approvals: code[a] # "open"

RevocationInv == GrantTypes /\ NoneUnderWay

(* The invariant says at least what the property says.                       *)
LEMMA InvImpliesHolds == RevocationInv => RevocationHolds
  BY DEF RevocationInv, NoneUnderWay, RevocationHolds

(* Every step of approvals, exchanges, revocation and purchases keeps the    *)
(* invariant: an approval starts only on an active row.                      *)
LEMMA RevocationStep == RevocationInv /\ [McpNext]_mcpVars => RevocationInv'
<1>. SUFFICES ASSUME RevocationInv, [McpNext]_mcpVars PROVE RevocationInv'
  OBVIOUS
<1>. USE DEF RevocationInv, GrantTypes, NoneUnderWay, buyVars
<1>1. ASSUME NEW a \in Approvals, LoadClient(a) PROVE RevocationInv'
  BY <1>1 DEF LoadClient
<1>2. ASSUME NEW a \in Approvals, BindConnection(a) PROVE RevocationInv'
  BY <1>2 DEF BindConnection
<1>3. ASSUME NEW a \in Approvals, CreateCode(a) PROVE RevocationInv'
  BY <1>3 DEF CreateCode
<1>4. ASSUME NEW a \in Approvals, RedeemCode(a) PROVE RevocationInv'
  BY <1>4 DEF RedeemCode
<1>5. ASSUME FindConnection PROVE RevocationInv'
  BY <1>5 DEF FindConnection
<1>6. ASSUME RevokeConnection PROVE RevocationInv'
  BY <1>6 DEF RevokeConnection
<1>7. ASSUME DeleteCodes PROVE RevocationInv'
  BY <1>7 DEF DeleteCodes
<1>8. ASSUME UNCHANGED grantVars PROVE RevocationInv'
  BY <1>8 DEF grantVars
<1>9. ASSUME NEW p \in Purchases,
             \/ \E r \in Prices: CheckBudget(p, r)
             \/ StartPurchase(p) \/ SessionBuys(p) \/ SessionFails(p)
             \/ CollectPurchase(p) \/ GetPurchase(p)
      PROVE  UNCHANGED grantVars
  BY <1>9 DEF CheckBudget, StartPurchase, SessionBuys, SessionFails, CollectPurchase, GetPurchase
<1>. QED
  BY <1>1, <1>2, <1>3, <1>4, <1>5, <1>6, <1>7, <1>8, <1>9 DEF McpNext, mcpVars

(* Once a revocation is answered the connection stays revoked and no code is *)
(* left to redeem, unless an approval had loaded the client before the row   *)
(* was revoked (endpoints/oauth.py, oauth_revoke and oauth_approve): for any *)
(* number of approvals and purchases.                                        *)
THEOREM Revocation == McpSpec => []RevocationHolds
<1>1. McpInit => RevocationInv
  BY DEF McpInit, RevocationInv, GrantTypes, NoneUnderWay
<1>. QED
  BY <1>1, RevocationStep, InvImpliesHolds, PTL DEF McpSpec

-----------------------------------------------------------------------------
(***************************************************************************)
(* The purchases of one MCP connection: while each is counted before the   *)
(* next is admitted, what was paid and the one cap that is still open are  *)
(* within the budget.                                                      *)
(***************************************************************************)
(* What each purchase paid.                                                  *)
Paid == [p \in Purchases |-> purchase[p].paid]

(* A purchase whose session may still pay, up to its cap.                    *)
MayPay(p) == purchase[p].at \in {"checked", "running"}

PurchaseTypes ==
  /\ purchase \in [Purchases -> [at: {"idle", "checked", "running", "bought", "over"},
                                 budget: Nat, paid: Nat]]
  /\ spendLedger \in [Purchases -> Nat]
  /\ newest \in Seq(Purchases)
  /\ \A p \in Purchases: purchase[p].paid # 0 => newest # <<>>

(* The one purchase that may still pay stays within the budget if it does.   *)
WithinCaps ==
  ~uncounted =>
    /\ SumOf(Paid, Purchases) <= Budget
    /\ \A p \in Purchases: MayPay(p) =>
         /\ SumOf(Paid, Purchases) + purchase[p].budget <= Budget
         /\ \A q \in Purchases: MayPay(q) => q = p

PurchasesInv ==
  /\ PurchaseTypes
  /\ \A p \in Purchases: purchase[p].at \in {"idle", "checked", "running"} => purchase[p].paid = 0
  /\ WithinCaps

(* The sum over a table that the code computes is the sum of the laws.       *)
LEMMA SpentIsSum ==
  ASSUME NEW f
  PROVE  SpentOn(f) = SumOf(f, DOMAIN f)
  BY DEF SpentOn, FoldFunction, FoldFunctionOnSet, SumOf, MapThenSumSet

(* Payments are natural numbers.                                             *)
LEMMA PaidType ==
  ASSUME PurchaseTypes
  PROVE  (\A p \in Purchases: Paid[p] \in Nat) /\ SumOf(Paid, Purchases) \in Nat
<1>1. \A p \in Purchases: Paid[p] \in Nat
  BY DEF PurchaseTypes, Paid
<1>. QED
  BY <1>1, McpAssumption, SumType

(* A cap is a number.                                                        *)
LEMMA CapType ==
  ASSUME NEW r \in Prices
  PROVE  PriceCap(r) \in Nat
  BY McpAssumption DEF PriceCap

(* The start: nothing was paid.                                              *)
LEMMA PurchasesStart == McpInit => PurchasesInv
<1>. SUFFICES ASSUME McpInit PROVE PurchasesInv
  OBVIOUS
<1>1. PurchaseTypes /\ \A p \in Purchases: purchase[p].at = "idle" /\ purchase[p].paid = 0
  BY DEF McpInit, PurchaseTypes
<1>2. SumOf(Paid, Purchases) = 0
  <2>1. \A p \in Purchases: Paid[p] = 0
    BY <1>1 DEF Paid
  <2>. QED
    BY <2>1, McpAssumption, SumZero
<1>. QED
  BY <1>1, <1>2, McpAssumption DEF PurchasesInv, WithinCaps, MayPay

(* A step that pays nothing, and after which no other purchase may pay.      *)
LEMMA PaysNothing ==
  ASSUME PurchasesInv, PurchaseTypes', Paid' = Paid, uncounted' = uncounted,
         \A p \in Purchases: purchase'[p].budget = purchase[p].budget /\
                             purchase'[p].paid = purchase[p].paid,
         \A p \in Purchases: \/ purchase'[p].at = purchase[p].at
                             \/ purchase'[p].at = "running" /\ purchase[p].at = "checked"
                             \/ purchase'[p].at = "over"
  PROVE  PurchasesInv'
<1>1. \A p \in Purchases: MayPay(p)' => MayPay(p)
  BY DEF MayPay
<1>2. WithinCaps'
  BY <1>1 DEF PurchasesInv, WithinCaps
<1>. QED
  BY <1>2 DEF PurchasesInv

(* Every step keeps the invariant.                                           *)
LEMMA PurchasesStep == PurchasesInv /\ [McpNext]_mcpVars => PurchasesInv'
<1>. SUFFICES ASSUME PurchasesInv, [McpNext]_mcpVars PROVE PurchasesInv'
  OBVIOUS
<1>0. /\ purchase \in [Purchases -> [at: {"idle", "checked", "running", "bought", "over"},
                                     budget: Nat, paid: Nat]]
      /\ spendLedger \in [Purchases -> Nat] /\ newest \in Seq(Purchases)
      /\ \A p \in Purchases: purchase[p].paid # 0 => newest # <<>>
  BY DEF PurchasesInv, PurchaseTypes
<1>1. ASSUME NEW p \in Purchases, Recorded(p)
      PROVE  spendLedger' \in [Purchases -> Nat]
  BY <1>0, <1>1 DEF Recorded
<1>2. ASSUME NEW p \in Purchases, StartPurchase(p) \/ SessionFails(p) \/ CollectPurchase(p) \/ GetPurchase(p)
      PROVE  PurchasesInv'
  <2>0. PICK at \in {"running", "over"} :
          /\ purchase' = [purchase EXCEPT ![p].at = at]
          /\ at = "running" => purchase[p].at = "checked"
    BY <1>2 DEF StartPurchase, SessionFails, CollectPurchase, GetPurchase
  <2>1. /\ \A q \in Purchases: purchase'[q].budget = purchase[q].budget /\
                                purchase'[q].paid = purchase[q].paid
        /\ \A q \in Purchases: \/ purchase'[q].at = purchase[q].at
                               \/ purchase'[q].at = "running" /\ purchase[q].at = "checked"
                               \/ purchase'[q].at = "over"
        /\ newest' = newest /\ uncounted' = uncounted
    <3>1. purchase' = [purchase EXCEPT ![p].at = at] /\ (at = "running" => purchase[p].at = "checked")
      BY <2>0
    <3>2. newest' = newest /\ uncounted' = uncounted
      BY <1>2 DEF StartPurchase, SessionFails, CollectPurchase, GetPurchase
    <3>3. /\ purchase'[p].at = at /\ purchase'[p].budget = purchase[p].budget
          /\ purchase'[p].paid = purchase[p].paid
          /\ \A q \in Purchases: q # p => purchase'[q] = purchase[q]
      BY <1>0, <3>1
    <3>4. ASSUME NEW q \in Purchases
          PROVE  /\ purchase'[q].budget = purchase[q].budget /\ purchase'[q].paid = purchase[q].paid
                 /\ \/ purchase'[q].at = purchase[q].at
                    \/ purchase'[q].at = "running" /\ purchase[q].at = "checked"
                    \/ purchase'[q].at = "over"
      <4>1. CASE q = p
        BY <3>1, <3>3, <4>1
      <4>2. CASE q # p
        BY <3>3, <4>2
      <4>. QED
        BY <4>1, <4>2
    <3>. QED
      BY <3>2, <3>4
  <2>2. Paid' = Paid
    BY <2>1 DEF Paid
  <2>3. spendLedger' \in [Purchases -> Nat]
    BY <1>0, <1>1, <1>2 DEF StartPurchase, SessionFails, CollectPurchase, GetPurchase
  <2>4. purchase' \in [Purchases -> [at: {"idle", "checked", "running", "bought", "over"},
                                     budget: Nat, paid: Nat]]
    BY <1>0, <2>0
  <2>5. PurchaseTypes'
    BY <1>0, <2>1, <2>3, <2>4 DEF PurchaseTypes
  <2>. QED
    BY <2>1, <2>2, <2>5, PaysNothing
<1>3. ASSUME NEW p \in Purchases, NEW r \in Prices, CheckBudget(p, r)
      PROVE  PurchasesInv'
  <2>. DEFINE cap == PriceCap(r)
  <2>0. cap \in Nat /\ Budget \in Nat /\ IsFiniteSet(Purchases)
    BY CapType, McpAssumption
  <2>. HIDE DEF cap
  <2>1. /\ purchase[p].at = "idle" /\ cap + SpentOn(spendLedger) <= Budget
        /\ purchase' = [purchase EXCEPT ![p].at = "checked", ![p].budget = cap]
        /\ uncounted' = (uncounted \/ \E q \in Purchases: Uncounted(q))
        /\ newest' = newest /\ spendLedger' = spendLedger
    BY <1>3 DEF CheckBudget, Admitted, cap
  <2>2. /\ purchase'[p].at = "checked" /\ purchase'[p].budget = cap /\ purchase'[p].paid = purchase[p].paid
        /\ \A q \in Purchases: q # p => purchase'[q] = purchase[q]
    BY <1>0, <2>1
  <2>3. Paid' = Paid
    BY <2>2 DEF Paid
  <2>4. purchase' \in [Purchases -> [at: {"idle", "checked", "running", "bought", "over"},
                                     budget: Nat, paid: Nat]]
    BY <1>0, <2>0, <2>1
  <2>5. PurchaseTypes'
    BY <1>0, <2>1, <2>2, <2>4 DEF PurchaseTypes
  <2>6. ASSUME ~uncounted'
        PROVE  /\ SumOf(Paid, Purchases) + cap <= Budget
               /\ \A q \in Purchases: ~MayPay(q)
    <3>1. \A q \in Purchases: ~Uncounted(q)
      BY <2>1, <2>6
    <3>2. \A q \in Purchases: Paid[q] \in Nat /\ spendLedger[q] \in Nat /\ Paid[q] <= spendLedger[q]
      BY <1>0, <3>1 DEF Uncounted, Paid
    <3>3. SumOf(Paid, Purchases) <= SumOf(spendLedger, Purchases)
      BY <2>0, <3>2, SumMonotone
    <3>4. SumOf(Paid, Purchases) \in Nat /\ SumOf(spendLedger, Purchases) \in Nat
      BY <2>0, <3>2, SumType
    <3>5. SpentOn(spendLedger) = SumOf(spendLedger, Purchases)
      BY <1>0, SpentIsSum
    <3>6. \A q \in Purchases: ~MayPay(q)
      BY <3>1 DEF Uncounted, MayPay
    <3>. QED
      BY <2>0, <2>1, <3>3, <3>4, <3>5, <3>6
  <2>7. WithinCaps'
    <3>1. SumOf(Paid, Purchases) \in Nat
      BY PaidType DEF PurchasesInv
    <3>2. \A q \in Purchases: MayPay(q)' => q = p \/ MayPay(q)
      BY <2>2 DEF MayPay
    <3>. QED
      BY <2>0, <2>2, <2>3, <2>6, <3>1, <3>2 DEF WithinCaps
  <2>. QED
    BY <2>1, <2>2, <2>5, <2>7 DEF PurchasesInv
<1>4. ASSUME NEW p \in Purchases, SessionBuys(p)
      PROVE  PurchasesInv'
  <2>1. PICK price \in 1..purchase[p].budget:
          purchase' = [purchase EXCEPT ![p].at = "bought", ![p].paid = price]
    BY <1>4 DEF SessionBuys
  <2>2. /\ purchase[p].at = "running" /\ newest' = <<p>> \o newest
        /\ spendLedger' = spendLedger /\ uncounted' = uncounted
    BY <1>4 DEF SessionBuys
  <2>3. price \in Nat /\ price <= purchase[p].budget /\ purchase[p].budget \in Nat
    BY <1>0
  <2>4. /\ purchase'[p].at = "bought" /\ purchase'[p].paid = price
        /\ \A q \in Purchases: q # p => purchase'[q] = purchase[q]
    BY <1>0, <2>1
  <2>5. PurchaseTypes'
    <3>1. purchase' \in [Purchases -> [at: {"idle", "checked", "running", "bought", "over"},
                                       budget: Nat, paid: Nat]]
      BY <1>0, <2>1, <2>3
    <3>2. newest' \in Seq(Purchases) /\ newest' # <<>>
      <4>1. <<p>> \in Seq(Purchases) /\ Len(<<p>>) = 1
        OBVIOUS
      <4>2. newest' \in Seq(Purchases) /\ Len(newest') = 1 + Len(newest) /\ Len(newest) \in Nat
        BY <1>0, <2>2, <4>1
      <4>. QED
        BY <4>2
    <3>. QED
      BY <1>0, <2>2, <3>1, <3>2 DEF PurchaseTypes
  <2>6. SumOf(Paid', Purchases) = SumOf(Paid, Purchases) + price
    <3>1. PICK f, g : f = Paid /\ g = Paid'
      OBVIOUS
    <3>2. \A q \in Purchases: f[q] \in Nat /\ g[q] \in Nat /\ (q # p => g[q] = f[q])
      BY <1>0, <2>3, <2>4, <3>1 DEF Paid
    <3>3. f[p] = 0 /\ g[p] = price
      BY <2>2, <2>4, <3>1 DEF Paid, PurchasesInv
    <3>4. IsFiniteSet(Purchases)
      BY McpAssumption
    <3>5. SumOf(g, Purchases) + f[p] = SumOf(f, Purchases) + g[p]
      BY <3>2, <3>4, SumChanges
    <3>6. SumOf(g, Purchases) \in Nat /\ SumOf(f, Purchases) \in Nat
      BY <3>2, <3>4, SumType
    <3>. QED
      BY <2>3, <3>1, <3>3, <3>5, <3>6
  <2>7. WithinCaps'
    <3>1. SumOf(Paid, Purchases) \in Nat /\ Budget \in Nat
      BY PaidType, McpAssumption DEF PurchasesInv
    <3>2. MayPay(p) /\ \A q \in Purchases: MayPay(q)' => q # p /\ MayPay(q)
      BY <2>2, <2>4 DEF MayPay
    <3>3. ~uncounted => /\ SumOf(Paid, Purchases) + purchase[p].budget <= Budget
                        /\ \A q \in Purchases: ~MayPay(q)'
      BY <3>2 DEF PurchasesInv, WithinCaps
    <3>. QED
      BY <2>2, <2>3, <2>6, <3>1, <3>3 DEF WithinCaps
  <2>. QED
    BY <2>2, <2>4, <2>5, <2>7 DEF PurchasesInv
<1>5. CASE UNCHANGED buyVars
  BY <1>5 DEF buyVars, PurchasesInv, PurchaseTypes, WithinCaps, MayPay, Paid
<1>6. ASSUME UNCHANGED mcpVars \/ FindConnection \/ RevokeConnection \/ DeleteCodes \/
             \E a \in Approvals: LoadClient(a) \/ BindConnection(a) \/ CreateCode(a) \/ RedeemCode(a)
      PROVE  UNCHANGED buyVars
  BY <1>6 DEF mcpVars, FindConnection, RevokeConnection, DeleteCodes, LoadClient, BindConnection,
              CreateCode, RedeemCode
<1>. QED
  BY <1>2, <1>3, <1>4, <1>5, <1>6 DEF McpNext

(* The purchases of a connection stay within its budget as long as each one  *)
(* was counted in full before the next was admitted (mcp_server/server.py,   *)
(* qma_query_market_memory and _await_session): for any number of purchases, *)
(* prices and caps.                                                          *)
THEOREM CapsHold == McpSpec => []CapsHoldWhenCounted
<1>1. PurchasesInv => CapsHoldWhenCounted
  <2>1. DOMAIN Paid = Purchases /\ Paid = [p \in Purchases |-> purchase[p].paid]
    BY DEF Paid
  <2>. QED
    BY <2>1, SpentIsSum DEF PurchasesInv, WithinCaps, CapsHoldWhenCounted
<1>. QED
  BY <1>1, PurchasesStart, PurchasesStep, PTL DEF McpSpec

-----------------------------------------------------------------------------
(***************************************************************************)
(* Split payments: a leg is charged once unless a reservation was let go   *)
(* while its charge could still go through, and what is paid stays paid.   *)
(***************************************************************************)
(* The requests that may still charge the buyer for a leg, or have.          *)
Engaged(l, r) ==
  /\ req[r].leg = l
  /\ r \in charged \/ req[r].at \in {"settle", "record", "retry", "release"}

(* A leg that was never let go too early has one such request at most, and   *)
(* is reserved for it or paid by it.                                         *)
EngagedOnce ==
  \A l \in Legs \ unsure, r, s \in Requests :
    Engaged(l, r) /\ Engaged(l, s) =>
      /\ r = s
      /\ \/ leg[l].status = "processing" /\ l \in held
         \/ leg[l] = [status |-> "paid", sid |-> r]
      /\ req[r].at = "release" => r \notin charged

(* A recorded leg was charged to the buyer, by a request for that leg.       *)
PaidIsCharged ==
  /\ \A r \in Requests :
       /\ req[r].at \in {"record", "retry"} => r \in charged
       /\ req[r].at \in {"look", "reserve", "settle"} => r \notin charged
  /\ \A l \in Legs :
       /\ leg[l].status # "paid" => leg[l].sid = "none"
       /\ leg[l].status = "paid" =>
            leg[l].sid \in charged /\ req[leg[l].sid].leg = l

(* An invoice past its payment has all its legs paid.                        *)
UnlockedIsPaid ==
  splitStatus \in {"paid", "verification_pending"} => \A l \in Legs : leg[l].status = "paid"

(* What legs, verdicts and requests are.                                     *)
SplitTypes ==
  /\ leg \in [Legs -> [status: {"pending", "processing", "paid"}, sid: Requests \cup {"none"}]]
  /\ held \subseteq Legs /\ unsure \subseteq Legs /\ charged \subseteq Requests
  /\ verdict \in {"none", "VALID", "INVALID"}
  /\ req \in [Requests -> [at: {"look", "reserve", "settle", "record", "retry", "release", "end"},
                           leg: Legs]]

(* The inductive invariant.                                                  *)
SplitInv == SplitTypes /\ EngagedOnce /\ PaidIsCharged /\ UnlockedIsPaid

(* The status that refresh_split_invoice_status gives is earned.             *)
LEMMA RefreshIsEarned ==
  ASSUME NEW lg, verdict \in {"none", "VALID", "INVALID"},
         Refreshed(lg) \in {"paid", "verification_pending"}
  PROVE  \A l \in Legs : lg[l].status = "paid"
  BY DEF Refreshed, PaidLegs

(* A paid leg stays as it is, so what is unlocked stays earned.              *)
LEMMA PaidStays ==
  ASSUME SplitTypes, SplitNext, NEW l \in Legs, leg[l].status = "paid"
  PROVE  leg'[l] = leg[l]
<1>1. ASSUME NEW r \in Requests, ReserveLeg(r) PROVE leg'[l] = leg[l]
  BY <1>1 DEF ReserveLeg, Taken, SplitTypes
<1>2. ASSUME NEW r \in Requests, RecordLeg(r) PROVE leg'[l] = leg[l]
  BY <1>2 DEF RecordLeg, SplitTypes
<1>3. ASSUME NEW r \in Requests, ReleaseLeg(r) PROVE leg'[l] = leg[l]
  BY <1>3 DEF ReleaseLeg, SplitTypes
<1>. QED
  BY <1>1, <1>2, <1>3 DEF SplitNext, Look, ReserveRefused, SettleRefused, SettleLeg, RecordRefused,
     Lapse, VerifySplit, PollSplit, ExpireSplit

(* The status is earned after each step.                                     *)
LEMMA UnlockedStep ==
  ASSUME SplitInv, SplitTypes', SplitNext
  PROVE  UnlockedIsPaid'
<1>1. CASE UNCHANGED splitStatus
  BY <1>1, PaidStays DEF SplitInv, UnlockedIsPaid
<1>2. ASSUME Refresh, UNCHANGED verdict PROVE UnlockedIsPaid'
  <2>1. splitStatus' = Refreshed(leg')
    BY <1>2 DEF Refresh
  <2>. QED
    BY <1>2, <2>1, RefreshIsEarned DEF UnlockedIsPaid, SplitInv, SplitTypes
<1>3. ASSUME VerifySplit \/ PollSplit PROVE UnlockedIsPaid'
  <2>1. leg' = leg /\ ((Refresh /\ UNCHANGED verdict) \/ Verified(leg))
    BY <1>3 DEF VerifySplit, PollSplit
  <2>2. CASE Verified(leg) /\ ~(Refresh /\ UNCHANGED verdict)
    <3>1. \A l \in Legs : leg[l].status = "paid"
      <4>1. CASE PollSplit
        <5>1. Refreshed(leg) = "verification_pending"
          BY <2>2, <4>1 DEF PollSplit
        <5>. QED
          BY <5>1, RefreshIsEarned DEF SplitInv, SplitTypes
      <4>2. CASE VerifySplit
        <5>1. \A l \in Legs : leg[l].sid # "none"
          BY <2>2, <4>2 DEF VerifySplit
        <5>. QED
          BY <5>1 DEF SplitInv, PaidIsCharged
      <4>. QED
        BY <1>3, <4>1, <4>2
    <3>. QED
      BY <2>1, <3>1 DEF UnlockedIsPaid
  <2>. QED
    BY <1>2, <2>1, <2>2
<1>. QED
  BY <1>1, <1>2, <1>3 DEF SplitNext, Look, ReserveRefused, ReserveLeg, SettleRefused, SettleLeg,
     RecordRefused, RecordLeg, ReleaseLeg, Lapse, ExpireSplit, invoiceVars

(* Types are kept.                                                           *)
LEMMA SplitTypesStep ==
  ASSUME SplitTypes, SplitNext
  PROVE  SplitTypes'
<1>. USE DEF SplitTypes
<1>1. ASSUME NEW r \in Requests, NEW at \in {"look", "reserve", "settle", "record", "retry", "release", "end"},
             Goes(r, at)
      PROVE  req' \in [Requests -> [at: {"look", "reserve", "settle", "record", "retry", "release", "end"},
                                    leg: Legs]]
  BY <1>1 DEF Goes
<1>2. ASSUME NEW r \in Requests,
             Look(r) \/ ReserveRefused(r) \/ SettleRefused(r) \/ SettleLeg(r) \/ RecordRefused(r)
      PROVE SplitTypes'
  BY <1>1, <1>2 DEF Look, ReserveRefused, SettleRefused, SettleLeg, RecordRefused, AfterError, Tells, invoiceVars
<1>3. ASSUME NEW r \in Requests, ReserveLeg(r) \/ RecordLeg(r) \/ ReleaseLeg(r)
      PROVE SplitTypes'
  <2>1. req' \in [Requests -> [at: {"look", "reserve", "settle", "record", "retry", "release", "end"},
                               leg: Legs]]
    BY <1>1, <1>3 DEF ReserveLeg, RecordLeg, ReleaseLeg, AfterError, Tells
  <2>2. req[r].leg \in Legs
    OBVIOUS
  <2>3. leg' \in [Legs -> [status: {"pending", "processing", "paid"}, sid: Requests \cup {"none"}]]
    <3>1. CASE ReserveLeg(r)
      BY <2>2, <3>1 DEF ReserveLeg
    <3>2. CASE RecordLeg(r)
      BY <2>2, <3>2 DEF RecordLeg
    <3>3. CASE ReleaseLeg(r)
      BY <2>2, <3>3 DEF ReleaseLeg, Unpaid
    <3>. QED
      BY <1>3, <3>1, <3>2, <3>3
  <2>. QED
    BY <1>3, <2>1, <2>2, <2>3 DEF ReserveLeg, RecordLeg, ReleaseLeg
<1>4. ASSUME NEW l \in Legs, Lapse(l) PROVE SplitTypes'
  BY <1>4 DEF Lapse, invoiceVars
<1>5. ASSUME VerifySplit \/ PollSplit \/ ExpireSplit PROVE SplitTypes'
  BY <1>5 DEF VerifySplit, PollSplit, ExpireSplit, Verified, Refresh
<1>. QED
  BY <1>2, <1>3, <1>4, <1>5 DEF SplitNext

(* Reservations and charges fit after each step.                             *)
LEMMA ChargedStep ==
  ASSUME SplitTypes, EngagedOnce, PaidIsCharged, SplitTypes', SplitNext
  PROVE  EngagedOnce' /\ PaidIsCharged'
<1>. USE DEF SplitTypes
<1>1. ASSUME UNCHANGED <<leg, held, unsure, charged>>,
             \A r \in Requests : req'[r].leg = req[r].leg,
             \A r \in Requests : req'[r].at \in {"record", "retry"} => r \in charged,
             \A r \in Requests : req'[r].at \in {"look", "reserve", "settle", "release"} =>
               req'[r].at = req[r].at \/ r \notin charged,
             \A r \in Requests : req'[r].at \in {"settle", "record", "retry", "release"} =>
                                 req[r].at \in {"settle", "record", "retry", "release"}
      PROVE  EngagedOnce' /\ PaidIsCharged'
  BY <1>1 DEF EngagedOnce, PaidIsCharged, Engaged
<1>2. ASSUME NEW r \in Requests, Look(r) \/ ReserveRefused(r) \/ SettleRefused(r) \/ RecordRefused(r)
      PROVE  EngagedOnce' /\ PaidIsCharged'
  <2>1. /\ UNCHANGED <<leg, held, unsure, charged>>
        /\ \E at \in {"reserve", "end", "release", "retry"} :
             /\ req' = [req EXCEPT ![r].at = at]
             /\ at = "reserve" => req[r].at = "look"
             /\ at = "release" => req[r].at = "settle"
             /\ at = "retry" => req[r].at = "record"
    BY <1>2 DEF Look, ReserveRefused, SettleRefused, RecordRefused, AfterError, Tells, Goes
  <2>. QED
    BY <1>1, <2>1 DEF PaidIsCharged
<1>3. ASSUME NEW r \in Requests, ReserveLeg(r)
      PROVE  EngagedOnce' /\ PaidIsCharged'
  <2>0. PICK l \in Legs : l = req[r].leg
    OBVIOUS
  <2>1. /\ l \in Legs /\ ~Taken(l) /\ req[r].at = "reserve"
        /\ leg' = [leg EXCEPT ![l].status = "processing"] /\ held' = held \cup {l}
        /\ UNCHANGED <<charged, unsure>>
        /\ req' = [req EXCEPT ![r].at = "settle"] \/ req' = [req EXCEPT ![r].at = "end"]
    BY <1>3, <2>0 DEF ReserveLeg, Goes, Tells
  <2>2. leg[l].status # "paid" /\ ~(leg[l].status = "processing" /\ l \in held)
    BY <2>1 DEF Taken
  <2>4. /\ leg'[l].status = "processing" /\ leg'[l].sid = leg[l].sid /\ l \in held'
        /\ \A k \in Legs : k # l => leg'[k] = leg[k] /\ (k \in held => k \in held')
    BY <2>1
  <2>5. /\ \A s \in Requests : req'[s].leg = req[s].leg /\ (s # r => req'[s] = req[s])
        /\ req'[r].at \in {"settle", "end"} /\ r \notin charged
    BY <2>1 DEF PaidIsCharged
  <2>6. ASSUME NEW k \in Legs, NEW s \in Requests, Engaged(k, s)'
        PROVE  Engaged(k, s) \/ (k = l /\ s = r)
    BY <2>0, <2>1, <2>5, <2>6 DEF Engaged
  <2>3. \A s \in Requests : l \notin unsure => ~Engaged(l, s)
    BY <2>2 DEF EngagedOnce
  <2>7. EngagedOnce'
    BY <2>0, <2>1, <2>3, <2>4, <2>5, <2>6 DEF EngagedOnce
  <2>8. PaidIsCharged'
    <3>1. \A s \in Requests : /\ req'[s].at \in {"record", "retry"} => s \in charged'
                              /\ req'[s].at \in {"look", "reserve", "settle"} => s \notin charged'
      BY <2>0, <2>1, <2>2, <2>4, <2>5 DEF PaidIsCharged
    <3>2. ASSUME NEW k \in Legs
          PROVE  /\ leg'[k].status # "paid" => leg'[k].sid = "none"
                 /\ leg'[k].status = "paid" => leg'[k].sid \in charged' /\ req'[leg'[k].sid].leg = k
      <4>1. CASE k = l
        BY <2>0, <2>1, <2>2, <2>4, <2>5, <4>1 DEF PaidIsCharged
      <4>2. CASE k # l
        <5>1. leg'[k] = leg[k] /\ charged' = charged
          BY <2>0, <2>1, <2>2, <2>4, <2>5, <4>2
        <5>. QED
          BY <2>0, <2>1, <2>2, <2>4, <2>5, <5>1 DEF PaidIsCharged
      <4>. QED
        BY <4>1, <4>2
    <3>. QED
      BY <3>1, <3>2 DEF PaidIsCharged
  <2>. QED
    BY <2>7, <2>8
<1>4. ASSUME NEW r \in Requests, SettleLeg(r)
      PROVE  EngagedOnce' /\ PaidIsCharged'
  <2>0. PICK l \in Legs : l = req[r].leg
    OBVIOUS
  <2>1. /\ l \in Legs /\ req[r].at = "settle" /\ charged' = charged \cup {r}
        /\ UNCHANGED <<leg, held>> /\ unsure \subseteq unsure'
        /\ \E at \in {"record", "end", "release"} :
             req' = [req EXCEPT ![r].at = at] /\ (at = "release" => l \in unsure')
    BY <1>4, <2>0 DEF SettleLeg, Goes, Tells
  <2>2. \A s \in Requests : req'[s].leg = req[s].leg /\ (s # r => req'[s] = req[s])
    BY <2>1
  <2>3. \A k \in Legs, s \in Requests : Engaged(k, s)' <=> Engaged(k, s)
    BY <2>0, <2>1, <2>2 DEF Engaged
  <2>6. req'[r].at = "release" => l \in unsure'
    BY <2>1
  <2>4. EngagedOnce'
    BY <2>0, <2>1, <2>2, <2>3, <2>6 DEF EngagedOnce, Engaged
  <2>5. PaidIsCharged'
    BY <2>1, <2>2 DEF PaidIsCharged
  <2>. QED
    BY <2>4, <2>5
<1>5. ASSUME NEW r \in Requests, RecordLeg(r)
      PROVE  EngagedOnce' /\ PaidIsCharged'
  <2>0. PICK l \in Legs : l = req[r].leg
    OBVIOUS
  <2>1. /\ l \in Legs /\ req[r].at \in {"record", "retry"} /\ leg[l].status # "paid"
        /\ leg' = [leg EXCEPT ![l] = [status |-> "paid", sid |-> r]] /\ held' = held \ {l}
        /\ UNCHANGED <<charged, unsure>>
        /\ \E at \in {"retry", "end"} : req' = [req EXCEPT ![r].at = at]
    BY <1>5, <2>0 DEF RecordLeg, AfterError, Goes, Tells
  <2>2. r \in charged /\ Engaged(l, r)
    BY <2>0, <2>1 DEF PaidIsCharged, Engaged
  <2>3. \A s \in Requests : req'[s].leg = req[s].leg /\ (s # r => req'[s] = req[s])
    BY <2>1
  <2>4. /\ \A k \in Legs, s \in Requests : Engaged(k, s)' <=> Engaged(k, s)
        /\ req'[r].at \in {"retry", "end"}
    BY <2>0, <2>1, <2>2, <2>3 DEF Engaged
  <2>5. /\ leg'[l] = [status |-> "paid", sid |-> r]
        /\ \A k \in Legs : k # l => leg'[k] = leg[k] /\ (k \in held => k \in held')
    BY <2>1
  <2>6. EngagedOnce'
    BY <2>1, <2>2, <2>3, <2>4, <2>5 DEF EngagedOnce
  <2>7. PaidIsCharged'
    <3>1. \A s \in Requests : /\ req'[s].at \in {"record", "retry"} => s \in charged'
                              /\ req'[s].at \in {"look", "reserve", "settle"} => s \notin charged'
      BY <2>0, <2>1, <2>2, <2>3, <2>4, <2>5 DEF PaidIsCharged
    <3>2. ASSUME NEW k \in Legs
          PROVE  /\ leg'[k].status # "paid" => leg'[k].sid = "none"
                 /\ leg'[k].status = "paid" => leg'[k].sid \in charged' /\ req'[leg'[k].sid].leg = k
      <4>1. CASE k = l
        BY <2>0, <2>1, <2>2, <2>3, <2>4, <2>5, <4>1 DEF PaidIsCharged
      <4>2. CASE k # l
        <5>1. leg'[k] = leg[k] /\ charged' = charged
          BY <2>0, <2>1, <2>2, <2>3, <2>4, <2>5, <4>2
        <5>. QED
          BY <2>0, <2>1, <2>2, <2>3, <2>4, <2>5, <5>1 DEF PaidIsCharged
      <4>. QED
        BY <4>1, <4>2
    <3>. QED
      BY <3>1, <3>2 DEF PaidIsCharged
  <2>. QED
    BY <2>6, <2>7
<1>6. ASSUME NEW r \in Requests, ReleaseLeg(r)
      PROVE  EngagedOnce' /\ PaidIsCharged'
  <2>0. PICK l \in Legs : l = req[r].leg
    OBVIOUS
  <2>1. /\ l \in Legs /\ req[r].at = "release"
        /\ leg' = [leg EXCEPT ![l] = IF @.status = "processing" THEN Unpaid ELSE @]
        /\ held' = IF leg[l].status = "processing" THEN held \ {l} ELSE held
        /\ UNCHANGED <<charged, unsure>> /\ req' = [req EXCEPT ![r].at = "end"]
    BY <1>6, <2>0 DEF ReleaseLeg, Goes, Tells
  <2>2. /\ \A s \in Requests : req'[s].leg = req[s].leg /\ (s # r => req'[s] = req[s])
        /\ req'[r].at = "end" /\ Engaged(l, r)
    BY <2>0, <2>1 DEF Engaged
  <2>3. \A s \in Requests : l \notin unsure /\ Engaged(l, s) => s = r /\ r \notin charged
    BY <2>1, <2>2 DEF EngagedOnce
  <2>4. /\ leg'[l] = leg[l] \/ leg'[l] = Unpaid
        /\ leg[l].status = "paid" => leg'[l] = leg[l]
        /\ \A k \in Legs : k # l => leg'[k] = leg[k] /\ (k \in held => k \in held')
    BY <2>1
  <2>5. ASSUME NEW k \in Legs, NEW s \in Requests, Engaged(k, s)'
        PROVE  Engaged(k, s) /\ (s = r => r \in charged)
    BY <2>0, <2>1, <2>2, <2>5 DEF Engaged
  <2>6. PaidIsCharged'
    BY <2>1, <2>2, <2>4 DEF PaidIsCharged, Unpaid
  <2>7. EngagedOnce'
    BY <2>1, <2>2, <2>3, <2>4, <2>5 DEF EngagedOnce
  <2>. QED
    BY <2>6, <2>7
<1>7. ASSUME NEW l \in Legs, Lapse(l)
      PROVE  EngagedOnce' /\ PaidIsCharged'
  <2>1. /\ UNCHANGED <<leg, req, charged>> /\ held' = held \ {l}
        /\ unsure \subseteq unsure' /\ \A r \in Requests : Engaged(l, r) => l \in unsure'
    BY <1>7 DEF Lapse, Engaged
  <2>2. \A k \in Legs, r \in Requests : Engaged(k, r)' <=> Engaged(k, r)
    BY <2>1 DEF Engaged
  <2>3. EngagedOnce'
    BY <2>1, <2>2 DEF EngagedOnce
  <2>. QED
    BY <2>1, <2>3 DEF PaidIsCharged
<1>8. ASSUME VerifySplit \/ PollSplit \/ ExpireSplit PROVE EngagedOnce' /\ PaidIsCharged'
  BY <1>1, <1>8 DEF VerifySplit, PollSplit, ExpireSplit, PaidIsCharged
<1>. QED
  BY <1>2, <1>3, <1>4, <1>5, <1>6, <1>7, <1>8 DEF SplitNext

(* The invariant holds for ever.                                             *)
LEMMA SplitInductive == SplitSpec => []SplitInv
<1>1. SplitInit => SplitInv
  <2>. SUFFICES ASSUME SplitInit PROVE SplitInv
    OBVIOUS
  <2>1. PICK f \in [Requests -> Legs] : req = [r \in Requests |-> [at |-> "look", leg |-> f[r]]]
    BY DEF SplitInit
  <2>2. SplitTypes
    BY <2>1 DEF SplitInit, SplitTypes, Unpaid
  <2>. QED
    BY <2>1, <2>2 DEF SplitInit, SplitInv, EngagedOnce, PaidIsCharged, UnlockedIsPaid, Engaged, Unpaid
<1>2. SplitInv /\ [SplitNext]_splitVars => SplitInv'
  <2>. SUFFICES ASSUME SplitInv, [SplitNext]_splitVars PROVE SplitInv'
    OBVIOUS
  <2>1. CASE SplitNext
    BY <2>1, SplitTypesStep, ChargedStep, UnlockedStep DEF SplitInv
  <2>2. CASE UNCHANGED splitVars
    BY <2>2 DEF splitVars, SplitInv, SplitTypes, EngagedOnce, PaidIsCharged, UnlockedIsPaid, Engaged
  <2>. QED
    BY <2>1, <2>2
<1>. QED
  BY <1>1, <1>2, PTL DEF SplitSpec

(* A buyer is charged once for a leg whose reservation was never let go too  *)
(* early, by the request the leg is recorded as paid with, and the report is *)
(* unlocked only when every leg is paid (settle_split_leg,                   *)
(* refresh_split_invoice_status).                                            *)
THEOREM LegChargedOnce == SplitSpec => []ChargedOnce
<1>1. SplitInv => ChargedOnce
  <2>. SUFFICES ASSUME SplitInv PROVE ChargedOnce
    OBVIOUS
  <2>1. ASSUME NEW l \in Legs \ unsure PROVE Cardinality({r \in charged : req[r].leg = l}) <= 1
    <3>. DEFINE S == {r \in charged : req[r].leg = l}
    <3>1. \A r, s \in S : r = s
      BY DEF SplitInv, SplitTypes, EngagedOnce, Engaged
    <3>2. CASE S = {}
      BY <3>2, FS_EmptySet
    <3>3. CASE S # {}
      <4>1. PICK r : S = {r}
        BY <3>1, <3>3
      <4>. HIDE DEF S
      <4>2. Cardinality({r}) = 1
        BY FS_Singleton
      <4>. QED
        BY <4>1, <4>2 DEF S
    <3>. QED
      BY <3>2, <3>3
  <2>2. ASSUME splitStatus \in {"paid", "verification_pending"}, NEW l \in Legs
        PROVE  \E r \in charged : leg[l] = [status |-> "paid", sid |-> r] /\ req[r].leg = l
    <3>1. leg[l].status = "paid" /\ leg[l].sid \in charged /\ req[leg[l].sid].leg = l
      BY <2>2 DEF SplitInv, UnlockedIsPaid, PaidIsCharged
    <3>2. leg[l] = [status |-> "paid", sid |-> leg[l].sid]
      BY <3>1 DEF SplitInv, SplitTypes
    <3>. QED
      BY <3>1, <3>2
  <2>. QED
    BY <2>1, <2>2 DEF ChargedOnce
<1>. QED
  BY <1>1, SplitInductive, PTL

(* A leg that is paid keeps its status and its settlement (settle_split_leg).*)
THEOREM PaidLegStays == SplitSpec => PaidLegKeepsSettlement
<1>1. SplitInv /\ [SplitNext]_splitVars =>
        [\A l \in Legs : leg[l].status = "paid" => leg'[l] = leg[l]]_splitVars
  BY PaidStays DEF SplitInv
<1>. QED
  BY <1>1, SplitInductive, PTL DEF SplitSpec, PaidLegKeepsSettlement

-----------------------------------------------------------------------------
(***************************************************************************)
(* Report access: a failure that Circle told of is final, on both sides.   *)
(***************************************************************************)

(* What is said of a failure, in a copy of an invoice or in an answer of     *)
(* Circle, is so.                                                            *)
FailuresAreReal ==
  /\ \A i \in Invoices :
       (paper[i].gateway = "failed" \/ saved[i].gateway = "failed" \/ dropped[i].gateway = "failed")
         => circle[i] = "failed"
  /\ \A r \in Readers : answer[r] = "failed" => circle[InvoiceOf[r]] = "failed"

(* A failure that was stored is in the storage and in memory, and one that   *)
(* the process knows of is in memory.                                        *)
FailuresAreKept ==
  /\ \A i \in recorded : saved[i].gateway = "failed" /\ paper[i].gateway = "failed"
  /\ \A i \in learnt : paper[i].gateway = "failed"

AccessInv == AccessTypeOK /\ FailuresAreReal /\ FailuresAreKept

(* The copies of the invoices after a step that does not move Circle.        *)
CopiesKeep ==
  /\ paper' \in [Invoices -> Papers] /\ saved' \in [Invoices -> Papers] /\ dropped' \in [Invoices -> Papers]
  /\ astray' \subseteq Readers /\ learnt' \subseteq Invoices /\ recorded' \subseteq Invoices
  /\ \A j \in Invoices :
       (paper'[j].gateway = "failed" \/ saved'[j].gateway = "failed" \/ dropped'[j].gateway = "failed")
         => circle[j] = "failed"
  /\ \A j \in recorded' : saved'[j].gateway = "failed" /\ paper'[j].gateway = "failed"
  /\ \A j \in learnt' : paper'[j].gateway = "failed"

(* The start: nothing has failed and nothing is learnt.                      *)
LEMMA AccessStart == AccessInit => AccessInv
<1>. SUFFICES ASSUME AccessInit PROVE AccessInv
  OBVIOUS
<1>1. Fresh \in Papers /\ Fresh.gateway # "failed"
  BY DEF Fresh, Papers
<1>2. AccessTypeOK
  BY <1>1 DEF AccessInit, AccessTypeOK
<1>3. FailuresAreReal /\ FailuresAreKept
  BY <1>1 DEF AccessInit, FailuresAreReal, FailuresAreKept
<1>. QED
  BY <1>2, <1>3 DEF AccessInv

(* Steps that leave the copies alone keep them.                              *)
LEMMA CopiesStay ==
  ASSUME AccessInv, UNCHANGED <<paper, saved, dropped, learnt, recorded>>, astray' \subseteq Readers
  PROVE  CopiesKeep
BY DEF AccessInv, AccessTypeOK, FailuresAreReal, FailuresAreKept, CopiesKeep

(* A save that fails drops what only the process knew.                       *)
LEMMA NotStoredKeeps ==
  ASSUME AccessInv, NEW i \in Invoices, NEW object \in Papers, NEW holders \in SUBSET Readers,
         object.gateway = "failed" => circle[i] = "failed",
         NotStored(i, object, holders)
  PROVE  CopiesKeep
<1>1. /\ paper' = [paper EXCEPT ![i] = saved[i]] /\ dropped' = [dropped EXCEPT ![i] = object]
      /\ astray' = astray \cup holders /\ learnt' = learnt \ {i} /\ saved' = saved
      /\ recorded' = recorded
  BY DEF NotStored
<1>2. /\ paper \in [Invoices -> Papers] /\ saved \in [Invoices -> Papers]
      /\ dropped \in [Invoices -> Papers] /\ astray \subseteq Readers
      /\ learnt \subseteq Invoices /\ recorded \subseteq Invoices
  BY DEF AccessInv, AccessTypeOK
<1>3. /\ paper'[i] = saved[i] /\ dropped'[i] = object
      /\ \A j \in Invoices : j # i => paper'[j] = paper[j] /\ dropped'[j] = dropped[j]
  BY <1>1, <1>2
<1>4. /\ paper' \in [Invoices -> Papers] /\ saved' \in [Invoices -> Papers]
      /\ dropped' \in [Invoices -> Papers] /\ astray' \subseteq Readers
      /\ learnt' \subseteq Invoices /\ recorded' \subseteq Invoices
  BY <1>1, <1>2
<1>5. \A j \in Invoices :
        (paper'[j].gateway = "failed" \/ saved'[j].gateway = "failed" \/ dropped'[j].gateway = "failed")
          => circle[j] = "failed"
  BY <1>1, <1>3 DEF AccessInv, FailuresAreReal
<1>6. /\ \A j \in recorded' : saved'[j].gateway = "failed" /\ paper'[j].gateway = "failed"
      /\ \A j \in learnt' : paper'[j].gateway = "failed"
  BY <1>1, <1>2, <1>3 DEF AccessInv, FailuresAreKept
<1>. QED
  BY <1>4, <1>5, <1>6 DEF CopiesKeep

(* A save that succeeds stores what it says of a failure; it may only take   *)
(* one back when it strikes the invoice from the histories.                  *)
LEMMA StoredKeeps ==
  ASSUME AccessInv, NEW i \in Invoices, NEW object \in Papers,
         object.gateway = "failed" => circle[i] = "failed",
         Stored(i, object),
         dropped' \in {dropped, [dropped EXCEPT ![i] = paper[i]]}, astray' \subseteq Readers,
         learnt' \subseteq learnt \cup {i}, recorded' \subseteq recorded \cup {i},
         i \in learnt' \cup recorded' => object.gateway = "failed"
  PROVE  CopiesKeep
<1>1. saved' = [saved EXCEPT ![i] = object] /\ paper' = [paper EXCEPT ![i] = object]
  BY DEF Stored
<1>2. /\ paper \in [Invoices -> Papers] /\ saved \in [Invoices -> Papers]
      /\ dropped \in [Invoices -> Papers]
      /\ learnt \subseteq Invoices /\ recorded \subseteq Invoices
  BY DEF AccessInv, AccessTypeOK
<1>3. /\ paper'[i] = object /\ saved'[i] = object
      /\ \A j \in Invoices : j # i => paper'[j] = paper[j] /\ saved'[j] = saved[j]
      /\ \A j \in Invoices : dropped'[j] \in {dropped[j], paper[j]}
  BY <1>1, <1>2
<1>4. /\ paper' \in [Invoices -> Papers] /\ saved' \in [Invoices -> Papers]
      /\ dropped' \in [Invoices -> Papers] /\ astray' \subseteq Readers
      /\ learnt' \subseteq Invoices /\ recorded' \subseteq Invoices
  BY <1>1, <1>2
<1>5. \A j \in Invoices :
        (paper'[j].gateway = "failed" \/ saved'[j].gateway = "failed" \/ dropped'[j].gateway = "failed")
          => circle[j] = "failed"
  BY <1>3 DEF AccessInv, FailuresAreReal
<1>6. \A j \in recorded' : saved'[j].gateway = "failed" /\ paper'[j].gateway = "failed"
  BY <1>2, <1>3, <1>4 DEF AccessInv, FailuresAreKept
<1>7. \A j \in learnt' : paper'[j].gateway = "failed"
  BY <1>2, <1>3, <1>4 DEF AccessInv, FailuresAreKept
<1>. QED
  BY <1>4, <1>5, <1>6, <1>7 DEF CopiesKeep

(* A handler that saves what it looked up leaves no failure out.             *)
LEMMA PaperSaveKeeps ==
  ASSUME AccessInv, NEW i \in Invoices, NEW object \in Papers,
         object.gateway = "failed" => circle[i] = "failed",
         paper[i].gateway = "failed" => object.gateway = "failed",
         Save(i, object)
  PROVE  CopiesKeep
<1>0. Holders(i) \in SUBSET Readers
  BY DEF Holders
<1>1. CASE NotStored(i, object, Holders(i))
  BY <1>0, <1>1, NotStoredKeeps
<1>2. CASE ~NotStored(i, object, Holders(i))
  <2>1. /\ Stored(i, object) /\ dropped' = dropped /\ astray' = astray
        /\ learnt' = learnt \cup (IF object.gateway = "failed" THEN {i} ELSE {})
        /\ recorded' = recorded \cup (IF object.gateway = "failed" THEN {i} ELSE {})
    BY <1>2 DEF Save
  <2>2. i \in learnt' \cup recorded' => object.gateway = "failed"
    BY <2>1 DEF AccessInv, FailuresAreKept
  <2>3. astray' \subseteq Readers
    BY <2>1 DEF AccessInv, AccessTypeOK
  <2>. QED
    BY <2>1, <2>2, <2>3, StoredKeeps
<1>. QED
  BY <1>1, <1>2

(* A poll or a visit that saves what Circle answered.                        *)
LEMMA SaveByKeeps ==
  ASSUME AccessInv, NEW r \in Readers, NEW object \in Papers, object.gateway = answer[r],
         SaveBy(r, object)
  PROVE  CopiesKeep
<1>. DEFINE i == InvoiceOf[r]
<1>1. i \in Invoices /\ (object.gateway = "failed" => circle[i] = "failed")
  BY ReportAssumption DEF AccessInv, FailuresAreReal
<1>0. Holders(i) \ {r} \in SUBSET Readers
  BY DEF Holders
<1>2. CASE NotStored(i, object, Holders(i) \ {r})
  BY <1>0, <1>1, <1>2, NotStoredKeeps
<1>3. CASE ~NotStored(i, object, Holders(i) \ {r})
  <2>1. /\ Stored(i, object)
        /\ learnt' = IF answer[r] = "failed" THEN learnt \cup {i} ELSE learnt \ {i}
        /\ recorded' = IF answer[r] = "failed" THEN recorded \cup {i} ELSE recorded \ {i}
        /\ dropped' \in {dropped, [dropped EXCEPT ![i] = paper[i]]}
        /\ astray' \subseteq astray \cup Holders(i)
    BY <1>3 DEF SaveBy
  <2>2. astray' \subseteq Readers
    BY <2>1 DEF AccessInv, AccessTypeOK, Holders
  <2>3. /\ learnt' \subseteq learnt \cup {i} /\ recorded' \subseteq recorded \cup {i}
        /\ i \in learnt' \cup recorded' => object.gateway = "failed"
    BY <2>1
  <2>. HIDE DEF i
  <2>. QED
    BY <1>1, <2>1, <2>2, <2>3, StoredKeeps
<1>. QED
  BY <1>2, <1>3

(* What a reader holds is a copy of its invoice.                             *)
LEMMA ObjectTypes ==
  ASSUME AccessInv, NEW r \in Readers
  PROVE  /\ InvoiceOf[r] \in Invoices /\ Object(r) \in Papers
         /\ [Object(r) EXCEPT !.gateway = answer[r]] \in Papers
         /\ [Object(r) EXCEPT !.gateway = answer[r]].gateway = answer[r]
<1>1. InvoiceOf[r] \in Invoices
  BY ReportAssumption
<1>2. Object(r) \in Papers /\ answer[r] \in {"none", "received", "batched", "completed", "failed"}
  BY <1>1 DEF AccessInv, AccessTypeOK, Object
<1>. QED
  BY <1>1, <1>2 DEF Papers

(* The copies after a step, with the rest of the state in its types and no   *)
(* answer that is not so, make the invariant.                                *)
LEMMA CopiesSuffice ==
  ASSUME AccessInv, CopiesKeep, circle' = circle, overdue' \in BOOLEAN, tokens' \subseteq Invoices,
         reader' \in [Readers -> {"new", "open", "asked", "refused", "served"}],
         answer' \in [Readers -> {"none", "received", "batched", "completed", "failed"}],
         \A r \in Readers : answer'[r] = "failed" => circle[InvoiceOf[r]] = "failed"
  PROVE  AccessInv'
<1>1. AccessTypeOK'
  BY DEF AccessInv, AccessTypeOK, CopiesKeep
<1>2. FailuresAreReal' /\ FailuresAreKept'
  BY DEF CopiesKeep, FailuresAreReal, FailuresAreKept
<1>. QED
  BY <1>1, <1>2 DEF AccessInv

(* Every step keeps the invariant.                                           *)
LEMMA AccessStep == AccessInv /\ [AccessNext]_accessVars => AccessInv'
<1>. SUFFICES ASSUME AccessInv, [AccessNext]_accessVars PROVE AccessInv'
  OBVIOUS
<1>. DEFINE Places == {"new", "open", "asked", "refused", "served"}
            Replies == {"none", "received", "batched", "completed", "failed"}
<1>0. /\ circle \in [Invoices -> {"received", "batched", "completed", "failed"}]
      /\ paper \in [Invoices -> Papers] /\ saved \in [Invoices -> Papers]
      /\ overdue \in BOOLEAN /\ tokens \subseteq Invoices /\ astray \subseteq Readers
      /\ reader \in [Readers -> Places] /\ answer \in [Readers -> Replies]
      /\ \A r \in Readers : answer[r] = "failed" => circle[InvoiceOf[r]] = "failed"
      /\ \A i \in Invoices : paper[i].gateway = "failed" => circle[i] = "failed"
  BY DEF AccessInv, AccessTypeOK, FailuresAreReal
<1>1. ASSUME NEW i \in Invoices,
             SettleInvoice(i) \/ RuleValid(i) \/ RuleInvalid(i) \/ RefundInvoice(i)
      PROVE  AccessInv'
  <2>1. PICK object \in Papers :
          /\ Save(i, object)
          /\ object.gateway = "failed" => circle[i] = "failed"
          /\ paper[i].gateway = "failed" => object.gateway = "failed"
    <3>1. CASE SettleInvoice(i)
      <4>. DEFINE object == [paper[i] EXCEPT !.status = "verification_pending", !.gateway = circle[i]]
      <4>1. object \in Papers /\ object.gateway = circle[i] /\ circle[i] # "failed"
        BY <1>0, <3>1 DEF SettleInvoice, AcceptedByCircle, Papers
      <4>2. Save(i, object)
        BY <3>1 DEF SettleInvoice
      <4>. HIDE DEF object
      <4>. QED
        BY <1>0, <4>1, <4>2
    <3>2. CASE RuleValid(i)
      <4>. DEFINE object == [paper[i] EXCEPT !.status = "paid", !.verdict = "VALID"]
      <4>0. paper[i] \in Papers
        BY <1>0
      <4>1. object \in Papers /\ object.gateway = paper[i].gateway
        BY <4>0 DEF Papers
      <4>2. Save(i, object)
        BY <3>2 DEF RuleValid
      <4>. HIDE DEF object
      <4>. QED
        BY <1>0, <4>1, <4>2
    <3>3. CASE RuleInvalid(i)
      <4>. DEFINE object == [paper[i] EXCEPT !.status = "verification_rejected", !.verdict = "INVALID"]
      <4>0. paper[i] \in Papers
        BY <1>0
      <4>1. object \in Papers /\ object.gateway = paper[i].gateway
        BY <4>0 DEF Papers
      <4>2. Save(i, object)
        BY <3>3 DEF RuleInvalid
      <4>. HIDE DEF object
      <4>. QED
        BY <1>0, <4>1, <4>2
    <3>4. CASE RefundInvoice(i)
      <4>. DEFINE object == [paper[i] EXCEPT !.status = "refunded"]
      <4>1. object \in Papers /\ object.gateway = paper[i].gateway
        BY <1>0 DEF Papers
      <4>2. Save(i, object)
        BY <3>4 DEF RefundInvoice
      <4>. HIDE DEF object
      <4>. QED
        BY <1>0, <4>1, <4>2
    <3>. QED
      BY <1>1, <3>1, <3>2, <3>3, <3>4
  <2>2. CopiesKeep
    BY <2>1, PaperSaveKeeps
  <2>3. UNCHANGED <<circle, overdue, tokens, reader, answer>>
    BY <1>1 DEF SettleInvoice, RuleValid, RuleInvalid, RefundInvoice
  <2>. QED
    BY <1>0, <2>2, <2>3, CopiesSuffice
<1>2. ASSUME NEW r \in Readers, Asked(r), UNCHANGED <<circle, overdue, tokens>>,
             UNCHANGED <<paper, saved, dropped, astray, learnt, recorded>>
      PROVE  AccessInv'
  <2>1. InvoiceOf[r] \in Invoices
    BY ReportAssumption
  <2>2. /\ reader' \in [Readers -> Places] /\ answer' \in [Readers -> Replies]
        /\ \A q \in Readers : answer'[q] = "failed" => circle[InvoiceOf[q]] = "failed"
    BY <1>0, <1>2, <2>1 DEF Asked
  <2>3. CopiesKeep
    BY <1>0, <1>2, CopiesStay
  <2>. QED
    BY <1>0, <1>2, <2>2, <2>3, CopiesSuffice
<1>3. ASSUME NEW r \in Readers, NEW next \in Places, Answered(r, next), CopiesKeep,
             UNCHANGED <<circle, overdue>>, tokens' \subseteq Invoices
      PROVE  AccessInv'
  <2>1. /\ reader' \in [Readers -> Places] /\ answer' \in [Readers -> Replies]
        /\ \A q \in Readers : answer'[q] = "failed" => circle[InvoiceOf[q]] = "failed"
    BY <1>0, <1>3 DEF Answered
  <2>. QED
    BY <1>0, <1>3, <2>1, CopiesSuffice
<1>4. ASSUME NEW r \in Polls, AnswerPoll(r)
      PROVE  AccessInv'
  <2>. DEFINE object == [Object(r) EXCEPT !.gateway = answer[r]]
  <2>1. r \in Readers
    BY DEF Readers
  <2>2. object \in Papers /\ object.gateway = answer[r] /\ InvoiceOf[r] \in Invoices
    BY <2>1, ObjectTypes
  <2>3. SaveBy(r, object) /\ Answered(r, "new") /\ UNCHANGED <<circle, overdue>>
    BY <1>4 DEF AnswerPoll
  <2>4. tokens' \subseteq Invoices
    BY <1>0, <1>4, <2>2 DEF AnswerPoll, TokensWith
  <2>. HIDE DEF object
  <2>5. CopiesKeep
    BY <2>1, <2>2, <2>3, SaveByKeeps
  <2>. QED
    BY <1>3, <2>1, <2>3, <2>4, <2>5
<1>5. ASSUME NEW v \in Visits, EndVisit(v)
      PROVE  AccessInv'
  <2>. DEFINE object == [Object(v) EXCEPT !.gateway = answer[v],
                           !.status = IF @ = "paid" /\ answer[v] = "failed" THEN "disputed" ELSE @]
  <2>1. v \in Readers
    BY DEF Readers
  <2>2. Object(v) \in Papers /\ answer[v] \in Replies
    BY <1>0, <2>1, ObjectTypes
  <2>3. object \in Papers /\ object.gateway = answer[v]
    BY <2>2 DEF Papers
  <2>4. Answered(v, "new") /\ UNCHANGED <<circle, overdue, tokens>>
    BY <1>5 DEF EndVisit
  <2>5. CopiesKeep
    <3>1. CASE answer[v] = Object(v).gateway
      <4>1. UNCHANGED <<paper, saved, dropped, learnt, recorded>> /\ astray' = astray \ {v}
        BY <1>5, <3>1 DEF EndVisit
      <4>. QED
        BY <1>0, <4>1, CopiesStay
    <3>2. CASE answer[v] # Object(v).gateway
      <4>1. SaveBy(v, object)
        BY <1>5, <3>2 DEF EndVisit
      <4>. HIDE DEF object
      <4>. QED
        BY <2>1, <2>3, <4>1, SaveByKeeps
    <3>. QED
      BY <3>1, <3>2
  <2>. QED
    BY <1>0, <1>3, <2>1, <2>4, <2>5
<1>6. ASSUME NEW r \in ReportRequests, Authorize(r)
      PROVE  AccessInv'
  <2>. DEFINE i == InvoiceOf[r]
  <2>1. r \in Readers /\ i \in Invoices
    BY ReportAssumption DEF Readers
  <2>2. /\ reader' = [reader EXCEPT ![r] = IF Unlocked(i) THEN "open" ELSE "refused"]
        /\ UNCHANGED <<circle, overdue, tokens, answer>>
    BY <1>6 DEF Authorize
  <2>3. CopiesKeep
    <3>1. CASE UNCHANGED <<paper, saved, dropped, astray, learnt, recorded>>
      BY <1>0, <3>1, CopiesStay
    <3>2. CASE Save(i, [paper[i] EXCEPT !.status = "disputed"])
      <4>. DEFINE object == [paper[i] EXCEPT !.status = "disputed"]
      <4>1. object \in Papers /\ object.gateway = paper[i].gateway
        BY <1>0, <2>1 DEF Papers
      <4>2. Save(i, object)
        BY <3>2
      <4>. HIDE DEF i, object
      <4>. QED
        BY <1>0, <2>1, <4>1, <4>2, PaperSaveKeeps
    <3>. QED
      BY <1>6, <3>1, <3>2 DEF Authorize
  <2>4. reader' \in [Readers -> Places]
    BY <1>0, <2>2
  <2>. QED
    BY <1>0, <2>2, <2>3, <2>4, CopiesSuffice
<1>7. ASSUME NEW r \in ReportRequests, ReturnReport(r)
      PROVE  AccessInv'
  <2>. DEFINE i == InvoiceOf[r]
              object == [Object(r) EXCEPT !.gateway = answer[r]]
  <2>1. r \in Readers
    BY DEF Readers
  <2>2. object \in Papers /\ object.gateway = answer[r] /\ i \in Invoices
    BY <2>1, ObjectTypes
  <2>3. /\ Answered(r, "served") /\ astray' = astray \ {r}
        /\ UNCHANGED <<circle, saved, overdue, tokens>>
    BY <1>7 DEF ReturnReport
  <2>4. \/ UNCHANGED <<paper, dropped, learnt, recorded>>
        \/ dropped' = [dropped EXCEPT ![i] = object] /\ UNCHANGED <<paper, learnt, recorded>>
        \/ /\ paper' = [paper EXCEPT ![i] = object] /\ UNCHANGED dropped
           /\ learnt' = IF answer[r] = "failed" THEN learnt \cup {i} ELSE learnt \ {i}
           /\ recorded' = IF answer[r] = "failed" THEN recorded ELSE recorded \ {i}
    BY <1>7 DEF ReturnReport
  <2>5. /\ circle[i] = "failed" \/ object.gateway # "failed"
        /\ dropped \in [Invoices -> Papers] /\ learnt \subseteq Invoices /\ recorded \subseteq Invoices
        /\ \A j \in Invoices :
             (paper[j].gateway = "failed" \/ saved[j].gateway = "failed" \/ dropped[j].gateway = "failed")
               => circle[j] = "failed"
        /\ \A j \in recorded : saved[j].gateway = "failed" /\ paper[j].gateway = "failed"
        /\ \A j \in learnt : paper[j].gateway = "failed"
    BY <1>0, <2>1, <2>2 DEF AccessInv, AccessTypeOK, FailuresAreReal, FailuresAreKept
  <2>. HIDE DEF i, object
  <2>6. CopiesKeep
    <3>1. CASE UNCHANGED <<paper, dropped, learnt, recorded>>
      BY <1>0, <2>3, <3>1, CopiesStay
    <3>2. CASE dropped' = [dropped EXCEPT ![i] = object] /\ UNCHANGED <<paper, learnt, recorded>>
      BY <1>0, <2>2, <2>3, <2>5, <3>2 DEF CopiesKeep
    <3>3. CASE /\ paper' = [paper EXCEPT ![i] = object] /\ UNCHANGED dropped
               /\ learnt' = IF answer[r] = "failed" THEN learnt \cup {i} ELSE learnt \ {i}
               /\ recorded' = IF answer[r] = "failed" THEN recorded ELSE recorded \ {i}
      <4>1. paper'[i] = object /\ \A j \in Invoices : j # i => paper'[j] = paper[j]
        BY <1>0, <2>2, <3>3
      <4>2. /\ paper' \in [Invoices -> Papers] /\ saved' \in [Invoices -> Papers]
            /\ dropped' \in [Invoices -> Papers]
            /\ astray' \subseteq Readers /\ learnt' \subseteq Invoices /\ recorded' \subseteq Invoices
        BY <1>0, <2>2, <2>3, <2>5, <3>3
      <4>3. \A j \in Invoices :
              (paper'[j].gateway = "failed" \/ saved'[j].gateway = "failed" \/ dropped'[j].gateway = "failed")
                => circle[j] = "failed"
        BY <2>3, <2>5, <3>3, <4>1
      <4>4. /\ \A j \in recorded' : saved'[j].gateway = "failed" /\ paper'[j].gateway = "failed"
            /\ \A j \in learnt' : paper'[j].gateway = "failed"
        <5>1. CASE answer[r] = "failed"
          BY <2>2, <2>3, <2>5, <3>3, <4>1, <5>1
        <5>2. CASE answer[r] # "failed"
          BY <2>2, <2>3, <2>5, <3>3, <4>1, <5>2
        <5>. QED
          BY <5>1, <5>2
      <4>. QED
        BY <4>2, <4>3, <4>4 DEF CopiesKeep
    <3>. QED
      BY <2>4, <3>1, <3>2, <3>3
  <2>. QED
    BY <1>0, <1>3, <2>1, <2>3, <2>6
<1>8. ASSUME NEW v \in Visits, LeaveVisit(v)
      PROVE  AccessInv'
  <2>1. v \in Readers /\ Answered(v, "new") /\ UNCHANGED <<circle, overdue, tokens>>
    BY <1>8 DEF LeaveVisit, Readers
  <2>2. CopiesKeep
    BY <1>0, <1>8, CopiesStay DEF LeaveVisit
  <2>. QED
    BY <1>0, <1>3, <2>1, <2>2
<1>9. ASSUME Restart
      PROVE  AccessInv'
  <2>1. /\ paper' = saved /\ dropped' = saved /\ saved' = saved /\ astray' = {} /\ learnt' = {}
        /\ recorded' = recorded /\ UNCHANGED <<circle, overdue, tokens>>
        /\ answer' = [r \in Readers |-> "none"]
    BY <1>9 DEF Restart
  <2>2. CopiesKeep
    BY <2>1 DEF AccessInv, AccessTypeOK, FailuresAreReal, FailuresAreKept, CopiesKeep
  <2>3. reader' \in [Readers -> Places]
    BY <1>0, <1>9 DEF Restart
  <2>. QED
    BY <1>0, <2>1, <2>2, <2>3, CopiesSuffice
<1>10. ASSUME NEW i \in Invoices, CircleMoves(i)
       PROVE  AccessInv'
  <2>1. /\ \A j \in Invoices : circle[j] = "failed" => circle'[j] = "failed"
        /\ circle' \in [Invoices -> {"received", "batched", "completed", "failed"}]
        /\ UNCHANGED <<paper, saved, dropped, astray, overdue, tokens, reader, answer, learnt, recorded>>
    BY <1>0, <1>10 DEF CircleMoves, Ends
  <2>2. AccessTypeOK'
    BY <2>1 DEF AccessInv, AccessTypeOK
  <2>3. \A r \in Readers : InvoiceOf[r] \in Invoices
    BY ReportAssumption
  <2>4. FailuresAreReal'
    BY <2>1, <2>3 DEF AccessInv, FailuresAreReal
  <2>5. FailuresAreKept'
    BY <2>1 DEF AccessInv, FailuresAreKept
  <2>. QED
    BY <2>2, <2>4, <2>5 DEF AccessInv
<1>11. ASSUME UNCHANGED <<circle, paper, saved, dropped, astray, answer, learnt, recorded>>,
              overdue' \in BOOLEAN, tokens' \subseteq Invoices, reader' \in [Readers -> Places]
       PROVE  AccessInv'
  <2>1. CopiesKeep
    BY <1>0, <1>11, CopiesStay
  <2>. QED
    BY <1>0, <1>11, <2>1, CopiesSuffice
<1>12. CASE UNCHANGED accessVars \/ BecomeOverdue \/ \E i \in Invoices : TokenExpires(i)
  BY <1>0, <1>11, <1>12 DEF accessVars, BecomeOverdue, TokenExpires
<1>13. CASE StartSweep
  <2>1. reader' \in [Readers -> Places]
    BY <1>0, <1>13 DEF StartSweep
  <2>. QED
    BY <1>0, <1>11, <1>13, <2>1 DEF StartSweep
<1>14. ASSUME NEW r \in Polls, PollStatus(r)
       PROVE  AccessInv'
  <2>1. InvoiceOf[r] \in Invoices
    BY ReportAssumption DEF Readers
  <2>2. tokens' \subseteq Invoices
    BY <1>0, <1>14, <2>1 DEF PollStatus, TokensWith
  <2>. QED
    BY <1>0, <1>11, <1>14, <2>2 DEF PollStatus
<1>15. CASE \/ \E r \in Polls : AskForStatus(r)
            \/ \E r \in ReportRequests : AskForReport(r)
            \/ \E v \in Visits : AskForVisit(v)
  BY <1>2, <1>15 DEF AskForStatus, AskForReport, AskForVisit, Readers
<1>. QED
  BY <1>1, <1>4, <1>5, <1>6, <1>7, <1>8, <1>9, <1>10, <1>12, <1>13, <1>14, <1>15 DEF AccessNext

(* Only authorize_paid_invoice lets a request for a report go on.            *)
LEMMA OnlyAuthorized ==
  ASSUME AccessInv, AccessNext, NEW r \in ReportRequests, reader[r] = "new", reader'[r] = "open"
  PROVE  Unlocked(InvoiceOf[r])
<1>1. reader \in [Readers -> {"new", "open", "asked", "refused", "served"}] /\ r \in Readers
      /\ r \notin Visits /\ r \notin Polls
  BY ReportAssumption DEF AccessInv, AccessTypeOK, Readers
<1>2. ~UNCHANGED reader
  OBVIOUS
<1>3. CASE \E q \in ReportRequests : Authorize(q)
  BY <1>1, <1>3 DEF Authorize
<1>4. CASE \/ \E q \in Polls : AskForStatus(q) \/ AnswerPoll(q)
           \/ \E q \in ReportRequests : AskForReport(q) \/ ReturnReport(q)
           \/ \E v \in Visits : AskForVisit(v) \/ LeaveVisit(v) \/ EndVisit(v)
  <2>1. PICK q \in Readers, next \in {"new", "asked", "served"} : reader' = [reader EXCEPT ![q] = next]
    BY <1>4 DEF AskForStatus, AnswerPoll, AskForReport, ReturnReport, AskForVisit, LeaveVisit,
                EndVisit, Asked, Answered, Readers
  <2>. QED
    BY <1>1, <2>1
<1>5. CASE StartSweep
  BY <1>1, <1>5 DEF StartSweep
<1>6. CASE Restart
  BY <1>1, <1>6 DEF Restart
<1>. QED
  BY <1>2, <1>3, <1>4, <1>5, <1>6
  DEF AccessNext, SettleInvoice, RuleValid, RuleInvalid, RefundInvoice, TokenExpires, CircleMoves,
      PollStatus, BecomeOverdue

(* A failure that was stored closes access for good, and one that only the   *)
(* process knows of until it forgets it: in every interleaving of reports,   *)
(* polls, sweeps, failed saves and restarts (authorize_paid_invoice,         *)
(* run_paid_provider_report, reconcile_disputed_invoices, _save_invoice).    *)
THEOREM FailureCloses == AccessSpec => FailureClosesAccess
<1>1. AccessInv /\ [AccessNext]_accessVars =>
        [\A r \in ReportRequests :
           InvoiceOf[r] \in learnt \cup recorded =>
             ~(reader[r] = "new" /\ reader'[r] = "open")]_accessVars
  <2>. SUFFICES ASSUME AccessInv, AccessNext, NEW r \in ReportRequests,
                       InvoiceOf[r] \in learnt \cup recorded, reader[r] = "new", reader'[r] = "open"
                PROVE  FALSE
    OBVIOUS
  <2>1. paper[InvoiceOf[r]].gateway = "failed"
    BY DEF AccessInv, FailuresAreKept
  <2>2. Unlocked(InvoiceOf[r])
    BY OnlyAuthorized
  <2>. QED
    BY <2>1, <2>2 DEF Unlocked, FailedSettlement
<1>. QED
  BY <1>1, AccessStart, AccessStep, PTL DEF AccessSpec, FailureClosesAccess

-----------------------------------------------------------------------------
(***************************************************************************)
(* A creator's claims: as long as a read of the ledger returns all of it,  *)
(* what is reserved is covered by the final sales, and only what is        *)
(* reserved is ever sent.                                                  *)
(***************************************************************************)
(* The share of each sale, and the debit of each claim, that count for a     *)
(* provider.                                                                 *)
Shares(p, sales) ==
  [s \in Sales |-> IF s \in sales /\ SaleOf[s].provider = p THEN SaleOf[s].share ELSE 0]
Debits(p, claims) ==
  [c \in Claims |-> IF c \in claims THEN claim[c].alloc[p] ELSE 0]

(* The claims that keep their debit.                                         *)
ReservedClaims == {c \in Claims : Reserved(c)}

(* Only reserved claims are under way or sent, and what is sent is not posted.*)
SentIsReserved ==
  /\ calling \cup posted \cup sent \subseteq ReservedClaims
  /\ posted \cap sent = {}

(* The ledger has one claim for one nonce.                                   *)
OneClaimPerNonce ==
  \A c, d \in Claims :
    claim[c].status # "none" /\ claim[d].status # "none" /\ claim[c].nonce = claim[d].nonce
      => c = d

(* A read returns the whole ledger.                                          *)
WholeLedgerIsRead == ~LedgerReadFails /\ ReadLimit \in Nat /\ Cardinality(Claims) <= ReadLimit

(* The debits are covered by the sales that are not paid automatically.      *)
DebitsCovered ==
  WholeLedgerIsRead => \A p \in Providers :
    SumOf(Debits(p, ReservedClaims), Claims) <= SumOf(Shares(p, final \ Automatic), Sales)

ClaimsInv ==
  /\ ClaimTypeOK /\ paidOut \subseteq final
  /\ SentIsReserved /\ OneClaimPerNonce /\ DebitsCovered

(* Shares and debits are natural numbers.                                    *)
LEMMA SharesType ==
  ASSUME NEW p, NEW sales
  PROVE  /\ \A s \in Sales : Shares(p, sales)[s] \in Nat
         /\ SumOf(Shares(p, sales), Sales) \in Nat
<1>1. \A s \in Sales : Shares(p, sales)[s] \in Nat
  BY ClaimsAssumption DEF Shares
<1>2. IsFiniteSet(Sales)
  BY ClaimsAssumption
<1>. QED
  BY <1>1, <1>2, SumType

(* The same of debits.                                                       *)
LEMMA DebitsType ==
  ASSUME ClaimTypeOK, NEW p \in Providers, NEW claims
  PROVE  /\ \A c \in Claims : Debits(p, claims)[c] \in Nat
         /\ SumOf(Debits(p, claims), Claims) \in Nat
<1>1. \A c \in Claims : Debits(p, claims)[c] \in Nat
  BY DEF ClaimTypeOK, Debits
<1>2. IsFiniteSet(Claims)
  BY ClaimsAssumption
<1>. QED
  BY <1>1, <1>2, SumType

(* The same after a step.                                                    *)
LEMMA DebitsTypePrime ==
  ASSUME ClaimTypeOK', NEW p \in Providers, NEW claims
  PROVE  /\ \A c \in Claims : Debits(p, claims)'[c] \in Nat
         /\ SumOf(Debits(p, claims)', Claims) \in Nat
<1>1. \A c \in Claims : Debits(p, claims)'[c] \in Nat
  BY DEF ClaimTypeOK, Debits
<1>2. IsFiniteSet(Claims)
  BY ClaimsAssumption
<1>. QED
  BY <1>1, <1>2, SumType

(* The sums the code computes are the sums over all sales and all claims.    *)
LEMMA ShareIsSum ==
  ASSUME NEW p, NEW sales \in SUBSET Sales
  PROVE  ShareOf(p, sales) = SumOf(Shares(p, sales), Sales)
<1>. DEFINE mine == {s \in sales : SaleOf[s].provider = p}
            f == [s \in Sales |-> SaleOf[s].share]
            P(it) == it = [u \in SUBSET mine |-> IF u = {} THEN 0
                           ELSE LET x == CHOOSE x \in u : TRUE IN SaleOf[x].share + it[u \ {x}]]
<1>1. \A it : IsSum(it, f, mine) <=> P(it)
  <2>1. \A u \in SUBSET mine : u # {} => f[CHOOSE x \in u : TRUE] = SaleOf[CHOOSE x \in u : TRUE].share
    OBVIOUS
  <2>. HIDE DEF f, mine
  <2>. QED
    BY <2>1 DEF IsSum
<1>2. ShareOf(p, sales) = (CHOOSE it : P(it))[mine]
  BY DEF ShareOf, MapThenSumSet, MapThenFoldSet
<1>3. SumOf(f, mine) = (CHOOSE it : IsSum(it, f, mine))[mine]
  BY DEF SumOf, MapThenSumSet, MapThenFoldSet, IsSum
<1>. HIDE DEF P
<1>4. ShareOf(p, sales) = SumOf(f, mine)
  BY <1>1, <1>2, <1>3
<1>5. PICK g : g = Shares(p, sales)
  OBVIOUS
<1>6. \A s \in Sales : f[s] \in Nat /\ g[s] = IF s \in mine THEN f[s] ELSE 0
  BY <1>5, ClaimsAssumption DEF Shares
<1>7. mine \in SUBSET Sales /\ IsFiniteSet(Sales)
  BY ClaimsAssumption
<1>. HIDE DEF f, mine
<1>8. SumOf(g, Sales) = SumOf(f, mine)
  BY <1>6, <1>7, SumRestricted
<1>. QED
  BY <1>4, <1>5, <1>8

(* The same of debits.                                                       *)
LEMMA DebitIsSum ==
  ASSUME ClaimTypeOK, NEW p \in Providers, NEW claims \in SUBSET Claims
  PROVE  DebitOf(p, claims) = SumOf(Debits(p, claims), Claims)
<1>. DEFINE f == [c \in Claims |-> claim[c].alloc[p]]
            P(it) == it = [u \in SUBSET claims |-> IF u = {} THEN 0
                           ELSE LET x == CHOOSE x \in u : TRUE IN claim[x].alloc[p] + it[u \ {x}]]
<1>1. \A it : IsSum(it, f, claims) <=> P(it)
  <2>1. \A u \in SUBSET claims : u # {} => f[CHOOSE x \in u : TRUE] = claim[CHOOSE x \in u : TRUE].alloc[p]
    OBVIOUS
  <2>. HIDE DEF f
  <2>. QED
    BY <2>1 DEF IsSum
<1>2. DebitOf(p, claims) = (CHOOSE it : P(it))[claims]
  BY DEF DebitOf, MapThenSumSet, MapThenFoldSet
<1>3. SumOf(f, claims) = (CHOOSE it : IsSum(it, f, claims))[claims]
  BY DEF SumOf, MapThenSumSet, MapThenFoldSet, IsSum
<1>. HIDE DEF P
<1>4. DebitOf(p, claims) = SumOf(f, claims)
  BY <1>1, <1>2, <1>3
<1>5. PICK g : g = Debits(p, claims)
  OBVIOUS
<1>6. \A c \in Claims : f[c] \in Nat /\ g[c] = IF c \in claims THEN f[c] ELSE 0
  BY <1>5 DEF Debits, ClaimTypeOK
<1>7. IsFiniteSet(Claims)
  BY ClaimsAssumption
<1>. HIDE DEF f
<1>8. SumOf(g, Claims) = SumOf(f, claims)
  BY <1>6, <1>7, SumRestricted
<1>. QED
  BY <1>4, <1>5, <1>8

(* What can be claimed of a provider is what the sales exceed the debits by. *)
LEMMA ClaimableIs ==
  ASSUME ClaimTypeOK, NEW p \in Providers, NEW read \in SUBSET Claims
  PROVE  LET share == SumOf(Shares(p, final \ Automatic), Sales)
             debit == SumOf(Debits(p, {c \in read : Reserved(c)}), Claims)
         IN Claimable(p, read) = IF debit <= share THEN share - debit ELSE 0
<1>. DEFINE share == SumOf(Shares(p, final \ Automatic), Sales)
            debit == SumOf(Debits(p, {c \in read : Reserved(c)}), Claims)
<1>1. share \in Nat /\ debit \in Nat
  BY SharesType, DebitsType
<1>2. ShareOf(p, final \ Automatic) = share
  BY ShareIsSum DEF ClaimTypeOK
<1>3. DebitOf(p, {c \in read : Reserved(c)}) = debit
  BY DebitIsSum
<1>. HIDE DEF share, debit
<1>4. Claimable(p, read) = Max({0, share - debit})
  BY <1>2, <1>3 DEF Claimable
<1>5. Max({0, share - debit}) = IF debit <= share THEN share - debit ELSE 0
  BY <1>1 DEF Max
<1>. QED
  BY <1>4, <1>5 DEF share, debit

(* No provider is debited more than can be claimed of it.                    *)
LEMMA AllocationCovered ==
  ASSUME ClaimTypeOK, NEW p \in Providers, NEW read \in SUBSET Claims, NEW amount \in Nat
  PROVE  /\ Claimable(p, read) \in Nat
         /\ Allocation(amount, read)[p] \in 0..Claimable(p, read)
<1>1. \A q \in Providers : Claimable(q, read) \in Nat
  <2>. SUFFICES ASSUME NEW q \in Providers PROVE Claimable(q, read) \in Nat
    OBVIOUS
  <2>. DEFINE share == SumOf(Shares(q, final \ Automatic), Sales)
              debit == SumOf(Debits(q, {c \in read : Reserved(c)}), Claims)
  <2>1. share \in Nat /\ debit \in Nat
    BY SharesType, DebitsType
  <2>2. Claimable(q, read) = IF debit <= share THEN share - debit ELSE 0
    BY ClaimableIs
  <2>. HIDE DEF share, debit
  <2>. QED
    BY <2>1, <2>2
<1>. DEFINE earlier == {q \in Providers : q < p}
            before == MapThenSumSet(LAMBDA q : Claimable(q, read), earlier)
<1>2. before \in Nat
  <2>. DEFINE f == [q \in Providers |-> Claimable(q, read)]
              P(it) == it = [u \in SUBSET earlier |-> IF u = {} THEN 0
                             ELSE LET x == CHOOSE x \in u : TRUE IN Claimable(x, read) + it[u \ {x}]]
  <2>1. \A it : IsSum(it, f, earlier) <=> P(it)
    <3>. SUFFICES ASSUME NEW it PROVE IsSum(it, f, earlier) <=> P(it)
      OBVIOUS
    <3>. DEFINE sums == [u \in SUBSET earlier |-> IF u = {} THEN 0
                         ELSE LET x == CHOOSE x \in u : TRUE IN f[x] + it[u \ {x}]]
                claims == [u \in SUBSET earlier |-> IF u = {} THEN 0
                           ELSE LET x == CHOOSE x \in u : TRUE IN Claimable(x, read) + it[u \ {x}]]
    <3>1. \A u \in SUBSET earlier : u # {} =>
            f[CHOOSE x \in u : TRUE] = Claimable(CHOOSE x \in u : TRUE, read)
      OBVIOUS
    <3>2. sums = claims
      <4>. HIDE DEF f, earlier
      <4>. QED
        BY <3>1
    <3>3. IsSum(it, f, earlier) <=> it = sums
      BY DEF IsSum
    <3>4. P(it) <=> it = claims
      OBVIOUS
    <3>. HIDE DEF sums, claims, P
    <3>. QED
      BY <3>2, <3>3, <3>4
  <2>2. before = (CHOOSE it : P(it))[earlier]
    BY DEF MapThenSumSet, MapThenFoldSet
  <2>3. SumOf(f, earlier) = (CHOOSE it : IsSum(it, f, earlier))[earlier]
    BY DEF SumOf, MapThenSumSet, MapThenFoldSet, IsSum
  <2>. HIDE DEF P, before
  <2>4. before = SumOf(f, earlier)
    BY <2>1, <2>2, <2>3
  <2>5. \A q \in earlier : f[q] \in Nat
    BY <1>1
  <2>6. IsFiniteSet(earlier)
    BY ClaimsAssumption, FS_Subset
  <2>. HIDE DEF f, earlier
  <2>. QED
    BY <2>4, <2>5, <2>6, SumType
<1>3. Allocation(amount, read)[p] = Max({0, Min({Claimable(p, read), amount - before})})
  BY DEF Allocation
<1>. HIDE DEF before
<1>4. PICK c, d : c = Claimable(p, read) /\ d = amount - before /\ c \in Nat /\ d \in Int
  BY <1>1, <1>2
<1>5. Min({c, d}) = IF c <= d THEN c ELSE d
  BY <1>4 DEF Min
<1>6. PICK m : m = Min({c, d}) /\ m \in Int /\ m <= c
  BY <1>4, <1>5
<1>7. Max({0, m}) = IF m <= 0 THEN 0 ELSE m
  BY <1>6 DEF Max
<1>. QED
  BY <1>3, <1>4, <1>6, <1>7

(* A read is a part of the ledger, and all of it when the ledger is short.   *)
LEMMA ReadIsLedger ==
  ASSUME ClaimTypeOK, NEW read \in LedgerReads
  PROVE  /\ read \in SUBSET Claims
         /\ WholeLedgerIsRead => {c \in read : Reserved(c)} = ReservedClaims
<1>. DEFINE ledger == {c \in Claims : claim[c].status # "none"}
<1>1. read \in SUBSET Claims
  BY DEF LedgerReads
<1>2. ASSUME WholeLedgerIsRead
      PROVE  {c \in read : Reserved(c)} = ReservedClaims
  <2>1. \A c \in ledger : Cardinality({d \in ledger : d < c}) < ReadLimit
    <3>. SUFFICES ASSUME NEW c \in ledger PROVE Cardinality({d \in ledger : d < c}) < ReadLimit
      OBVIOUS
    <3>. DEFINE below == {d \in ledger : d < c}
    <3>1. below \in SUBSET Claims /\ c \in Claims /\ c \notin below /\ IsFiniteSet(Claims)
      BY ClaimsAssumption
    <3>. HIDE DEF below, ledger
    <3>2. IsFiniteSet(below) /\ Cardinality(below) <= Cardinality(Claims) /\ Cardinality(below) # Cardinality(Claims)
      BY <3>1, FS_Subset
    <3>3. Cardinality(below) \in Nat /\ Cardinality(Claims) \in Nat
      BY <3>1, <3>2, FS_CardinalityType
    <3>4. Cardinality(below) < ReadLimit
      BY <1>2, <3>2, <3>3 DEF WholeLedgerIsRead
    <3>. QED
      BY <3>4 DEF below
  <2>2. read = ledger
    BY <1>2, <2>1 DEF LedgerReads, WholeLedgerIsRead
  <2>3. \A c \in Claims : Reserved(c) => c \in ledger
    BY DEF Reserved
  <2>. QED
    BY <2>2, <2>3 DEF ReservedClaims
<1>. QED
  BY <1>1, <1>2

(* A claim that is accepted is covered by what the debits have left.         *)
LEMMA AcceptedKeeps ==
  ASSUME ClaimsInv, NEW c \in Claims, NEW n \in ClaimNonces, NEW amount \in Nat,
         NEW read \in LedgerReads, claim[c].status = "none", Accepted(c, n, amount, read),
         UNCHANGED <<posted, sent, final, paidOut>>, seen' \subseteq ClaimNonces
  PROVE  ClaimsInv'
<1>. DEFINE alloc == Allocation(amount, read)
<1>0. ClaimTypeOK /\ read \in SUBSET Claims
  BY ReadIsLedger DEF ClaimsInv
<1>1. \A p \in Providers : Claimable(p, read) \in Nat /\ alloc[p] \in 0..Claimable(p, read)
  BY <1>0, AllocationCovered
<1>2. alloc \in [Providers -> Nat]
  <2>1. alloc = [p \in Providers |-> alloc[p]]
    BY DEF Allocation
  <2>2. \A p \in Providers : alloc[p] \in Nat
    BY <1>1
  <2>. HIDE DEF alloc
  <2>. QED
    BY <2>1, <2>2
<1>. HIDE DEF alloc
<1>3. /\ claim' = [claim EXCEPT ![c] = [status |-> "requested", nonce |-> n, alloc |-> alloc]]
      /\ calling' = calling \cup {c} /\ \A d \in Claims : claim[d].nonce # n
  BY DEF Accepted, alloc
<1>4. ClaimTypeOK' /\ paidOut' \subseteq final'
  BY <1>2, <1>3 DEF ClaimsInv, ClaimTypeOK
<1>5. /\ claim'[c] = [status |-> "requested", nonce |-> n, alloc |-> alloc]
      /\ \A d \in Claims : d # c => claim'[d] = claim[d]
  BY <1>0, <1>3 DEF ClaimTypeOK
<1>6. c \notin ReservedClaims /\ ReservedClaims' = ReservedClaims \cup {c}
  BY <1>5 DEF ReservedClaims, Reserved
<1>7. SentIsReserved'
  BY <1>3, <1>6 DEF ClaimsInv, SentIsReserved
<1>8. OneClaimPerNonce'
  BY <1>3, <1>5 DEF ClaimsInv, OneClaimPerNonce
<1>9. ASSUME WholeLedgerIsRead, NEW p \in Providers
      PROVE  SumOf(Debits(p, ReservedClaims)', Claims) <= SumOf(Shares(p, final \ Automatic)', Sales)
  <2>1. PICK f, g : f = Debits(p, ReservedClaims) /\ g = Debits(p, ReservedClaims)'
    OBVIOUS
  <2>2. f[c] = 0 /\ g[c] = alloc[p]
    BY <1>5, <1>6, <2>1 DEF Debits
  <2>3. \A d \in Claims : d # c => g[d] = f[d]
    BY <1>5, <1>6, <2>1 DEF Debits
  <2>4. \A d \in Claims : f[d] \in Nat /\ g[d] \in Nat
    BY <1>0, <1>4, <2>1, DebitsType, DebitsTypePrime
  <2>5. IsFiniteSet(Claims)
    BY ClaimsAssumption
  <2>6. SumOf(g, Claims) + f[c] = SumOf(f, Claims) + g[c] /\ SumOf(g, Claims) \in Nat /\ SumOf(f, Claims) \in Nat
    BY <2>3, <2>4, <2>5, SumChanges, SumType
  <2>7. SumOf(f, Claims) <= SumOf(Shares(p, final \ Automatic), Sales)
    BY <1>9, <2>1 DEF ClaimsInv, DebitsCovered
  <2>8. Claimable(p, read) = SumOf(Shares(p, final \ Automatic), Sales) - SumOf(f, Claims)
    BY <1>0, <1>9, <2>1, <2>7, ClaimableIs, ReadIsLedger
  <2>9. SumOf(Shares(p, final \ Automatic), Sales) \in Nat
    BY SharesType
  <2>10. SumOf(g, Claims) <= SumOf(Shares(p, final \ Automatic), Sales)
    BY <1>1, <2>2, <2>6, <2>8, <2>9
  <2>11. Shares(p, final \ Automatic)' = Shares(p, final \ Automatic)
    BY DEF Shares
  <2>. QED
    BY <2>1, <2>10, <2>11
<1>. QED
  BY <1>4, <1>7, <1>8, <1>9 DEF ClaimsInv, DebitsCovered

(* The end of a payout request frees a debit only of what was not sent.      *)
LEMMA ClosesKeeps ==
  ASSUME ClaimsInv, NEW c \in calling, NEW status \in {"paid", "unknown", "failed"}, Closes(c, status),
         posted' \subseteq posted, status = "failed" => c \notin sent \cup posted'
  PROVE  ClaimsInv'
<1>0. ClaimTypeOK /\ c \in Claims /\ c \in ReservedClaims
  BY DEF ClaimsInv, ClaimTypeOK, SentIsReserved
<1>1. /\ \A d \in Claims : d # c => claim'[d] = claim[d]
      /\ claim'[c].nonce = claim[c].nonce /\ claim'[c].alloc = claim[c].alloc
      /\ claim'[c].status \in {claim[c].status, status}
      /\ UNCHANGED <<seen, sent, final, paidOut>> /\ calling' = calling \ {c}
  BY <1>0 DEF Closes, ClaimTypeOK
<1>2. ClaimTypeOK' /\ paidOut' \subseteq final'
  <2>. DEFINE Entry == [status: {"none", "requested", "paid", "failed", "unknown"},
                        nonce: ClaimNonces \cup {"none"}, alloc: [Providers -> Nat]]
              entry == [claim[c] EXCEPT !.status = status]
  <2>1. claim \in [Claims -> Entry] /\ claim[c] \in Entry
    BY <1>0 DEF ClaimTypeOK
  <2>2. entry \in Entry
    BY <2>1
  <2>3. claim' \in {claim, [claim EXCEPT ![c] = entry]}
    BY <2>1 DEF Closes
  <2>. HIDE DEF Entry, entry
  <2>4. claim' \in [Claims -> Entry]
    BY <2>1, <2>2, <2>3
  <2>. QED
    BY <1>0, <1>1, <2>4 DEF ClaimsInv, ClaimTypeOK, Entry
<1>3. ReservedClaims' \subseteq ReservedClaims /\ ReservedClaims \ {c} \subseteq ReservedClaims'
  BY <1>0, <1>1 DEF ReservedClaims, Reserved
<1>4. status # "failed" => c \in ReservedClaims'
  BY <1>0, <1>1 DEF ReservedClaims, Reserved
<1>5. SentIsReserved'
  BY <1>1, <1>3, <1>4 DEF ClaimsInv, SentIsReserved
<1>6. claim[c].status # "none" /\ OneClaimPerNonce'
  BY <1>0, <1>1 DEF ClaimsInv, OneClaimPerNonce, ReservedClaims, Reserved
<1>7. ASSUME WholeLedgerIsRead, NEW p \in Providers
      PROVE  SumOf(Debits(p, ReservedClaims)', Claims) <= SumOf(Shares(p, final \ Automatic)', Sales)
  <2>1. PICK f, g : f = Debits(p, ReservedClaims) /\ g = Debits(p, ReservedClaims)'
    OBVIOUS
  <2>2. \A d \in Claims : f[d] \in Nat /\ g[d] \in Nat
    BY <1>0, <1>2, <2>1, DebitsType, DebitsTypePrime
  <2>3. \A d \in Claims : g[d] <= f[d]
    <3>1. \A d \in Claims : g[d] \in {f[d], 0}
      BY <1>1, <1>3, <2>1 DEF Debits
    <3>. QED
      BY <2>2, <3>1
  <2>4. IsFiniteSet(Claims)
    BY ClaimsAssumption
  <2>5. SumOf(g, Claims) <= SumOf(f, Claims) /\ SumOf(g, Claims) \in Nat /\ SumOf(f, Claims) \in Nat
    BY <2>2, <2>3, <2>4, SumMonotone, SumType
  <2>6. Shares(p, final \ Automatic)' = Shares(p, final \ Automatic)
    BY <1>1 DEF Shares
  <2>. QED
    BY <1>7, <2>1, <2>5, <2>6, SharesType DEF ClaimsInv, DebitsCovered
<1>. QED
  BY <1>2, <1>5, <1>6, <1>7 DEF ClaimsInv, DebitsCovered

(* Every step keeps the invariant.                                           *)
LEMMA ClaimsStep == ClaimsInv /\ [ClaimNext]_claimVars => ClaimsInv'
<1>. SUFFICES ASSUME ClaimsInv, [ClaimNext]_claimVars PROVE ClaimsInv'
  OBVIOUS
<1>0. ClaimTypeOK
  BY DEF ClaimsInv
<1>1. ASSUME NEW c \in Claims, NEW n \in ClaimNonces, NEW amount \in Nat, CreateClaim(c, n, amount)
      PROVE  ClaimsInv'
  <2>1. seen' \subseteq ClaimNonces /\ claim[c].status = "none" /\ UNCHANGED <<posted, sent, final, paidOut>>
    BY <1>0, <1>1 DEF CreateClaim, ClaimTypeOK
  <2>2. CASE UNCHANGED <<claim, calling>>
    <3>1. /\ ClaimTypeOK' /\ ReservedClaims' = ReservedClaims
          /\ \A p : Debits(p, ReservedClaims)' = Debits(p, ReservedClaims)
          /\ \A p : Shares(p, final \ Automatic)' = Shares(p, final \ Automatic)
      BY <1>0, <2>1, <2>2 DEF ClaimTypeOK, ReservedClaims, Reserved, Debits, Shares
    <3>. QED
      BY <2>1, <2>2, <3>1 DEF ClaimsInv, SentIsReserved, OneClaimPerNonce, DebitsCovered
  <2>3. CASE \E read \in LedgerReads : Accepted(c, n, amount, read)
    BY <2>1, <2>3, AcceptedKeeps
  <2>. QED
    BY <1>1, <2>2, <2>3 DEF CreateClaim
<1>2. ASSUME NEW c \in Claims, PostPayout(c) \/ ExecutePayout(c)
      PROVE  ClaimsInv'
  <2>1. /\ UNCHANGED <<claim, seen, calling, final, paidOut>>
        /\ posted' \cup sent' \subseteq Claims /\ posted' \cap sent' = {}
        /\ calling' \cup posted' \cup sent' \subseteq ReservedClaims
    BY <1>2 DEF PostPayout, ExecutePayout, ClaimsInv, ClaimTypeOK, SentIsReserved
  <2>2. /\ ClaimTypeOK' /\ ReservedClaims' = ReservedClaims
        /\ \A p : Debits(p, ReservedClaims)' = Debits(p, ReservedClaims)
        /\ \A p : Shares(p, final \ Automatic)' = Shares(p, final \ Automatic)
    BY <1>0, <2>1 DEF ClaimTypeOK, ReservedClaims, Reserved, Debits, Shares
  <2>. QED
    BY <2>1, <2>2 DEF ClaimsInv, SentIsReserved, OneClaimPerNonce, DebitsCovered
<1>3. ASSUME NEW c \in Claims, AnswerPaid(c) \/ AnswerRefused(c) \/ AnswerUnknown(c)
      PROVE  ClaimsInv'
  <2>1. PICK status \in {"paid", "unknown", "failed"} :
          /\ Closes(c, status) /\ c \in calling /\ posted' \subseteq posted
          /\ status = "failed" => c \in posted /\ c \notin posted'
    BY <1>3 DEF AnswerPaid, AnswerRefused, AnswerUnknown
  <2>2. status = "failed" => c \notin sent \cup posted'
    BY <2>1 DEF ClaimsInv, SentIsReserved
  <2>. QED
    BY <2>1, <2>2, ClosesKeeps
<1>4. ASSUME NEW s \in Sales, Finalize(s)
      PROVE  ClaimsInv'
  <2>1. UNCHANGED <<claim, seen, calling, posted, sent, paidOut>> /\ final' = final \cup {s}
    BY <1>4 DEF Finalize
  <2>2. /\ ClaimTypeOK' /\ ReservedClaims' = ReservedClaims /\ paidOut' \subseteq final'
        /\ \A p : Debits(p, ReservedClaims)' = Debits(p, ReservedClaims)
    BY <1>0, <2>1 DEF ClaimsInv, ClaimTypeOK, ReservedClaims, Reserved, Debits
  <2>3. ASSUME NEW p \in Providers
        PROVE  SumOf(Shares(p, final \ Automatic), Sales) <= SumOf(Shares(p, final \ Automatic)', Sales)
    <3>1. PICK f, g : f = Shares(p, final \ Automatic) /\ g = Shares(p, final \ Automatic)'
      OBVIOUS
    <3>2. \A x \in Sales : f[x] \in Nat /\ g[x] \in Nat /\ f[x] <= g[x]
      BY <2>1, <3>1, ClaimsAssumption DEF Shares
    <3>3. IsFiniteSet(Sales)
      BY ClaimsAssumption
    <3>4. SumOf(f, Sales) <= SumOf(g, Sales)
      BY <3>2, <3>3, SumMonotone
    <3>. QED
      BY <3>1, <3>4
  <2>4. ASSUME WholeLedgerIsRead, NEW p \in Providers
        PROVE  SumOf(Debits(p, ReservedClaims)', Claims) <= SumOf(Shares(p, final \ Automatic)', Sales)
    <3>1. PICK a, b, d : /\ a = SumOf(Shares(p, final \ Automatic), Sales)
                         /\ b = SumOf(Shares(p, final \ Automatic)', Sales)
                         /\ d = SumOf(Debits(p, ReservedClaims), Claims)
      OBVIOUS
    <3>2. a \in Nat /\ d \in Nat
      BY <1>0, <3>1, SharesType, DebitsType
    <3>3. b \in Nat
      <4>1. PICK g : g = Shares(p, final \ Automatic)'
        OBVIOUS
      <4>2. \A x \in Sales : g[x] \in Nat
        BY <4>1, ClaimsAssumption DEF Shares
      <4>3. IsFiniteSet(Sales)
        BY ClaimsAssumption
      <4>. QED
        BY <3>1, <4>1, <4>2, <4>3, SumType
    <3>4. d <= a /\ a <= b
      BY <2>3, <2>4, <3>1 DEF ClaimsInv, DebitsCovered
    <3>. QED
      BY <2>2, <3>1, <3>2, <3>3, <3>4
  <2>. QED
    BY <2>1, <2>2, <2>4 DEF ClaimsInv, SentIsReserved, OneClaimPerNonce, DebitsCovered
<1>5. ASSUME \/ UNCHANGED claimVars \/ ClaimRestart \/ \E s \in Sales : PayAutomatically(s)
      PROVE  ClaimsInv'
  <2>1. /\ UNCHANGED <<claim, posted, sent, final>> /\ calling' \subseteq calling
        /\ seen' \subseteq seen /\ paidOut' \subseteq final' /\ paidOut' \subseteq Automatic
    BY <1>0, <1>5 DEF claimVars, ClaimRestart, PayAutomatically, ClaimsInv, ClaimTypeOK
  <2>2. /\ ClaimTypeOK' /\ ReservedClaims' = ReservedClaims
        /\ \A p : Debits(p, ReservedClaims)' = Debits(p, ReservedClaims)
        /\ \A p : Shares(p, final \ Automatic)' = Shares(p, final \ Automatic)
    BY <1>0, <2>1 DEF ClaimTypeOK, ReservedClaims, Reserved, Debits, Shares
  <2>. QED
    BY <2>1, <2>2 DEF ClaimsInv, SentIsReserved, OneClaimPerNonce, DebitsCovered
<1>6. ASSUME NEW amount \in 1..MapThenSumSet(LAMBDA s : SaleOf[s].share, Sales)
      PROVE  amount \in Nat
  BY <1>6
<1>. QED
  BY <1>1, <1>2, <1>3, <1>4, <1>5, <1>6 DEF ClaimNext

(* The start: no claims.                                                     *)
LEMMA ClaimsStart == ClaimInit => ClaimsInv
<1>. SUFFICES ASSUME ClaimInit PROVE ClaimsInv
  OBVIOUS
<1>1. ClaimTypeOK /\ paidOut = {} /\ calling = {} /\ posted = {} /\ sent = {}
  BY DEF ClaimInit, ClaimTypeOK, NoClaim
<1>2. \A c \in Claims : claim[c].status = "none"
  BY DEF ClaimInit, NoClaim
<1>3. ReservedClaims = {}
  BY <1>2 DEF ReservedClaims, Reserved
<1>4. ASSUME NEW p \in Providers
      PROVE  SumOf(Debits(p, ReservedClaims), Claims) <= SumOf(Shares(p, final \ Automatic), Sales)
  <2>1. PICK f : f = Debits(p, ReservedClaims)
    OBVIOUS
  <2>2. \A c \in Claims : f[c] = 0
    BY <1>3, <2>1 DEF Debits
  <2>3. SumOf(f, Claims) = 0
    BY <2>2, ClaimsAssumption, SumZero
  <2>. QED
    BY <2>1, <2>3, SharesType
<1>. QED
  BY <1>1, <1>2, <1>3, <1>4 DEF ClaimsInv, SentIsReserved, OneClaimPerNonce, DebitsCovered

(* The invariant says at least what the property says.                       *)
LEMMA ClaimsImply == ClaimsInv /\ WholeLedgerIsRead => PaidWithinEarnings
<1>. SUFFICES ASSUME ClaimsInv, WholeLedgerIsRead PROVE PaidWithinEarnings
  OBVIOUS
<1>0. ClaimTypeOK
  BY DEF ClaimsInv
<1>1. \A c, d \in sent : claim[c].nonce = claim[d].nonce => c = d
  BY <1>0 DEF ClaimsInv, ClaimTypeOK, SentIsReserved, ReservedClaims, Reserved, OneClaimPerNonce
<1>2. ASSUME NEW p \in Providers
      PROVE  ShareOf(p, paidOut) + DebitOf(p, sent) <= ShareOf(p, final)
  <2>1. PICK a, m, t : a = Shares(p, paidOut) /\ m = Shares(p, final \ Automatic) /\ t = Shares(p, final)
    OBVIOUS
  <2>2. PICK b, d : b = Debits(p, sent) /\ d = Debits(p, ReservedClaims)
    OBVIOUS
  <2>3. ShareOf(p, paidOut) = SumOf(a, Sales) /\ ShareOf(p, final) = SumOf(t, Sales)
        /\ DebitOf(p, sent) = SumOf(b, Claims)
    BY <1>0, <2>1, <2>2, ShareIsSum, DebitIsSum, ClaimsAssumption DEF ClaimTypeOK
  <2>4. IsFiniteSet(Sales) /\ IsFiniteSet(Claims)
    BY ClaimsAssumption
  <2>5. \A s \in Sales : a[s] \in Nat /\ m[s] \in Nat /\ t[s] \in Nat
    BY <2>1, SharesType
  <2>6. \A c \in Claims : b[c] \in Nat /\ d[c] \in Nat
    BY <1>0, <2>2, DebitsType
  <2>7. SumOf(b, Claims) <= SumOf(d, Claims)
    <3>1. \A c \in Claims : b[c] <= d[c]
      <4>1. \A c \in Claims : b[c] \in {0, d[c]}
        BY <2>2 DEF Debits, ClaimsInv, SentIsReserved
      <4>. QED
        BY <2>6, <4>1
    <3>. QED
      BY <2>4, <2>6, <3>1, SumMonotone
  <2>8. SumOf(d, Claims) <= SumOf(m, Sales)
    BY <2>1, <2>2 DEF ClaimsInv, DebitsCovered
  <2>9. SumOf(a, Sales) + SumOf(m, Sales) <= SumOf(t, Sales)
    <3>. DEFINE e == [s \in Sales |-> a[s] + m[s]]
    <3>1. \A s \in Sales : e[s] \in Nat /\ e[s] = a[s] + m[s]
      BY <2>5
    <3>2. \A s \in Sales : e[s] <= t[s]
      <4>1. \A s \in Sales : a[s] = 0 \/ m[s] = 0
        BY <2>1 DEF Shares, ClaimsInv, ClaimTypeOK
      <4>2. \A s \in Sales : a[s] \in {0, t[s]} /\ m[s] \in {0, t[s]}
        BY <2>1 DEF Shares, ClaimsInv
      <4>. QED
        BY <2>5, <3>1, <4>1, <4>2
    <3>. HIDE DEF e
    <3>3. SumOf(e, Sales) = SumOf(a, Sales) + SumOf(m, Sales)
      BY <2>4, <2>5, <3>1, SumPlus
    <3>4. SumOf(e, Sales) <= SumOf(t, Sales)
      BY <2>4, <2>5, <3>1, <3>2, SumMonotone
    <3>. QED
      BY <3>3, <3>4
  <2>10. /\ SumOf(a, Sales) \in Nat /\ SumOf(m, Sales) \in Nat /\ SumOf(t, Sales) \in Nat
         /\ SumOf(b, Claims) \in Nat /\ SumOf(d, Claims) \in Nat
    BY <2>4, <2>5, <2>6, SumType
  <2>. QED
    BY <2>3, <2>7, <2>8, <2>9, <2>10
<1>. QED
  BY <1>1, <1>2 DEF PaidWithinEarnings

(* Whatever the reads of the ledger return, no two claims with one nonce are *)
(* paid: the unique index of nonces (qma_creator_claims) and the replay      *)
(* cache of create_creator_claim.                                            *)
THEOREM SignedClaimsPaidOnce ==
  ClaimSpec => [](\A c, d \in sent : claim[c].nonce = claim[d].nonce => c = d)
<1>1. ClaimsInv => \A c, d \in sent : claim[c].nonce = claim[d].nonce => c = d
  BY DEF ClaimsInv, ClaimTypeOK, SentIsReserved, ReservedClaims, Reserved, OneClaimPerNonce
<1>. QED
  BY <1>1, ClaimsStart, ClaimsStep, PTL DEF ClaimSpec

(* As long as a read of the claim ledger returns all of it, the treasury     *)
(* pays a creator no more than the settled sales earned, over claims and     *)
(* automatic payouts together, whatever becomes of payout requests, and pays *)
(* a signed claim once (endpoints/providers.py, create_creator_claim).  *)
THEOREM PaidWithin ==
  ASSUME WholeLedgerIsRead
  PROVE  ClaimSpec => []PaidWithinEarnings
<1>1. ClaimsInv => PaidWithinEarnings
  BY ClaimsImply
<1>. QED
  BY <1>1, ClaimsStart, ClaimsStep, PTL DEF ClaimSpec

-----------------------------------------------------------------------------
(***************************************************************************)
(* Payment views: every copy of a status, saved, in memory, being loaded   *)
(* or being swept, is final only if Circle's is, so what is merged from    *)
(* them is.                                                                *)
(***************************************************************************)
(* A table of statuses that calls no payment completed that Circle does not. *)
Truthful(copy) == \A k \in PayKeys : copy[k] = "completed" => circleSays[k] = "completed"

(* The payments of an invoice are made together, with Circle and in the      *)
(* invoice.                                                                  *)
PaidTogether ==
  \A i \in Sold :
    \/ \A k \in KeysOf(i) : legPaid[k] = "none" /\ circleSays[k] = "none"
    \/ \A k \in KeysOf(i) : legPaid[k] # "none" /\ circleSays[k] # "none"

CopiesAreTrue ==
  /\ Truthful(legPaid) /\ Truthful(rows) /\ Truthful(events)
  /\ Truthful(reading.loaded) /\ Truthful(swept.seen)

ViewInv ==
  /\ ViewTypeOK /\ PaidTogether /\ CopiesAreTrue
  /\ \A i \in Sold : billed[i] # "pending" => LegsPaid(i)

(* The payments of an invoice are payments, and of no other invoice.         *)
LEMMA KeysAreOwn ==
  ASSUME NEW i \in Sold
  PROVE  /\ KeysOf(i) \subseteq PayKeys
         /\ KeysOf(i) # {}
         /\ \A j \in Sold : j # i => KeysOf(i) \cap KeysOf(j) = {}
<1>1. LegsOf(i) \subseteq {"whole", "creator", "platform"} /\ LegsOf(i) # {}
  BY DEF LegsOf
<1>2. \A k \in KeysOf(i) : k[1] = i
  BY DEF KeysOf
<1>3. \A j \in Sold : \A k \in KeysOf(j) : k[1] = j
  BY DEF KeysOf
<1>4. KeysOf(i) \subseteq PayKeys
  BY <1>1 DEF KeysOf, PayKeys
<1>5. KeysOf(i) # {}
  <2>1. PICK l \in LegsOf(i) : TRUE
    BY <1>1
  <2>2. <<i, l>> \in KeysOf(i)
    BY DEF KeysOf
  <2>. QED
    BY <2>2
<1>. QED
  BY <1>2, <1>3, <1>4, <1>5

(* Tables made of others.                                                    *)
LEMMA MergedIs ==
  ASSUME NEW a \in [PayKeys -> Gateway], NEW b \in [PayKeys -> Gateway]
  PROVE  /\ Merged(a, b) \in [PayKeys -> Gateway]
         /\ \A k \in PayKeys : Merged(a, b)[k] = IF a[k] # "none" THEN a[k] ELSE b[k]
  BY DEF Merged

(* A sweep that no longer holds the list stays what it was otherwise.        *)
LEMMA SweptIs ==
  ASSUME ViewTypeOK, swept' = [swept EXCEPT !.current = FALSE]
  PROVE  /\ swept' \in [busy : BOOLEAN, seen : [PayKeys -> Gateway], current : BOOLEAN]
         /\ swept'.seen = swept.seen
<1>. DEFINE Tables == [PayKeys -> Gateway]
<1>1. swept \in [busy : BOOLEAN, seen : Tables, current : BOOLEAN]
  BY DEF ViewTypeOK
<1>. HIDE DEF Tables
<1>2. swept' \in [busy : BOOLEAN, seen : Tables, current : BOOLEAN] /\ swept'.seen = swept.seen
  BY <1>1
<1>. QED
  BY <1>2 DEF Tables

(* What a save, of some rows or of the list, leaves in the ledger comes from *)
(* the rows saved and those it had.                                          *)
LEMMA SavedComesFrom ==
  ASSUME ViewTypeOK, NEW list \in [PayKeys -> Gateway], RowsSaved(list) \/ LedgerSaved(list)
  PROVE  /\ rows' \in [PayKeys -> Gateway]
         /\ \A k \in PayKeys : rows'[k] \in {"none", list[k], rows[k]}
         /\ ledgerFaults' \in 0 .. MaxLedgerFaults
<1>0. rows \in [PayKeys -> Gateway] /\ "none" \in Gateway
  BY DEF ViewTypeOK, Gateway
<1>1. ledgerFaults' \in 0 .. MaxLedgerFaults
  BY ViewAssumption DEF ViewTypeOK, RowsSaved, LedgerSaved, LedgerFault, NoLedgerFault
<1>2. rows' = Merged(list, rows) \/ rows' = list \/ rows' = rows
      \/ \E k \in PayKeys : rows' = Merged([list EXCEPT ![k] = "none"], rows)
  BY DEF RowsSaved, LedgerSaved
<1>3. CASE \E k \in PayKeys : rows' = Merged([list EXCEPT ![k] = "none"], rows)
  <2>1. PICK k \in PayKeys : rows' = Merged([list EXCEPT ![k] = "none"], rows)
    BY <1>3
  <2>. DEFINE part == [list EXCEPT ![k] = "none"]
  <2>2. part \in [PayKeys -> Gateway] /\ \A j \in PayKeys : part[j] \in {"none", list[j]}
    BY <1>0
  <2>3. rows' = Merged(part, rows)
    BY <2>1
  <2>. HIDE DEF part
  <2>. QED
    BY <1>0, <1>1, <2>2, <2>3, MergedIs
<1>. QED
  BY <1>0, <1>1, <1>2, <1>3, MergedIs

(* The start: no payment.                                                    *)
LEMMA ViewStart == ViewInit => ViewInv
<1>. SUFFICES ASSUME ViewInit PROVE ViewInv
  OBVIOUS
<1>1. NoEvents \in [PayKeys -> Gateway] /\ \A k \in PayKeys : NoEvents[k] = "none"
  BY DEF NoEvents, Gateway
<1>2. ViewTypeOK
  BY <1>1, ViewAssumption DEF ViewInit, ViewTypeOK, NotSweeping, NotReading
<1>3. CopiesAreTrue
  BY <1>1 DEF ViewInit, CopiesAreTrue, Truthful, NotSweeping, NotReading
<1>4. PaidTogether
  BY <1>1, KeysAreOwn DEF ViewInit, PaidTogether
<1>. QED
  BY <1>2, <1>3, <1>4 DEF ViewInit, ViewInv

(* A step that changes copies only, to what some copy or Circle says.        *)
LEMMA CopyingKeeps ==
  ASSUME ViewInv, ViewTypeOK', UNCHANGED <<ledgerKind, circleSays>>,
         \A k \in PayKeys :
           /\ legPaid'[k] \in {legPaid[k], circleSays[k]} /\ (legPaid[k] = "none" => legPaid'[k] = "none")
           /\ {rows'[k], events'[k], reading'.loaded[k], swept'.seen[k]}
                \subseteq {"none", legPaid[k], legPaid'[k], rows[k], events[k], reading.loaded[k],
                           swept.seen[k], circleSays[k]},
         \A i \in Sold : billed[i] = "pending" => billed'[i] = "pending" \/ LegsPaid(i)
  PROVE  ViewInv'
<1>1. \A k \in PayKeys : circleSays'[k] = circleSays[k]
  OBVIOUS
<1>2. Truthful(legPaid)'
  BY <1>1 DEF ViewInv, CopiesAreTrue, Truthful
<1>3. CopiesAreTrue'
  <2>1. ASSUME NEW k \in PayKeys,
               "completed" \in {rows'[k], events'[k], reading'.loaded[k], swept'.seen[k]}
        PROVE  circleSays'[k] = "completed"
    <3>1. "completed" \in {legPaid[k], legPaid'[k], rows[k], events[k], reading.loaded[k],
                           swept.seen[k], circleSays[k]}
      BY <2>1
    <3>. QED
      BY <1>1, <1>2, <3>1 DEF ViewInv, CopiesAreTrue, Truthful
  <2>. QED
    BY <1>2, <2>1 DEF CopiesAreTrue, Truthful
<1>4. \A i \in Sold : KeysOf(i)' = KeysOf(i) /\ KeysOf(i) \subseteq PayKeys
  BY KeysAreOwn DEF KeysOf, LegsOf
<1>5. PaidTogether'
  <2>1. SUFFICES ASSUME NEW i \in Sold
                 PROVE  \/ \A k \in KeysOf(i) : legPaid'[k] = "none" /\ circleSays[k] = "none"
                        \/ \A k \in KeysOf(i) : legPaid'[k] # "none" /\ circleSays[k] # "none"
    BY <1>4 DEF PaidTogether
  <2>2. CASE \A k \in KeysOf(i) : legPaid[k] = "none" /\ circleSays[k] = "none"
    BY <1>4, <2>2
  <2>3. CASE \A k \in KeysOf(i) : legPaid[k] # "none" /\ circleSays[k] # "none"
    BY <1>4, <2>3
  <2>. QED
    BY <2>2, <2>3 DEF ViewInv, PaidTogether
<1>6. \A i \in Sold : LegsPaid(i) => LegsPaid(i)'
  <2>1. SUFFICES ASSUME NEW i \in Sold, LegsPaid(i) PROVE \A k \in KeysOf(i) : legPaid'[k] # "none"
    BY <1>4 DEF LegsPaid
  <2>2. KeysOf(i) # {}
    BY KeysAreOwn
  <2>3. \A k \in KeysOf(i) : legPaid[k] # "none" /\ circleSays[k] # "none"
    BY <2>1, <2>2 DEF ViewInv, PaidTogether, LegsPaid
  <2>. QED
    BY <1>4, <2>3
<1>7. \A i \in Sold : billed'[i] # "pending" => LegsPaid(i)'
  BY <1>6 DEF ViewInv
<1>. QED
  BY <1>3, <1>5, <1>7 DEF ViewInv

(* Every step keeps the invariant.                                           *)
LEMMA ViewStep == ViewInv /\ [ViewNext]_viewVars => ViewInv'
<1>. SUFFICES ASSUME ViewInv, [ViewNext]_viewVars PROVE ViewInv'
  OBVIOUS
<1>0. /\ ViewTypeOK
      /\ {legPaid, circleSays, rows, events, reading.loaded, swept.seen, NoEvents} \subseteq [PayKeys -> Gateway]
      /\ {"none", "received", "completed", "failed"} = Gateway
      /\ \A i \in Sold : KeysOf(i) \subseteq PayKeys
  BY KeysAreOwn DEF ViewInv, ViewTypeOK, NoEvents, Gateway
<1>1. ASSUME NEW i \in Sold, SettlePayments(i) PROVE ViewInv'
  <2>. DEFINE new == [k \in PayKeys |-> IF k \in KeysOf(i) THEN "received" ELSE "none"]
  <2>1. new \in [PayKeys -> Gateway] /\ \A k \in PayKeys : new[k] = IF k \in KeysOf(i) THEN "received" ELSE "none"
    BY <1>0
  <2>2. legPaid' = Merged(new, legPaid) /\ circleSays' = Merged(new, circleSays)
    BY <1>1 DEF SettlePayments
  <2>. HIDE DEF new
  <2>3. /\ legPaid' \in [PayKeys -> Gateway] /\ circleSays' \in [PayKeys -> Gateway]
        /\ \A k \in PayKeys : /\ legPaid'[k] = IF k \in KeysOf(i) THEN "received" ELSE legPaid[k]
                              /\ circleSays'[k] = IF k \in KeysOf(i) THEN "received" ELSE circleSays[k]
    BY <1>0, <2>1, <2>2, MergedIs
  <2>4. UNCHANGED <<ledgerKind, billed, rows, events, reading, swept, ledgerFaults>> /\ ~LegsPaid(i)
    BY <1>1 DEF SettlePayments
  <2>5. \A k \in KeysOf(i) : legPaid[k] = "none" /\ circleSays[k] = "none"
    BY <2>4 DEF ViewInv, PaidTogether, LegsPaid
  <2>6. ViewTypeOK'
    BY <2>3, <2>4 DEF ViewInv, ViewTypeOK
  <2>7. CopiesAreTrue'
    <3>1. \A k \in PayKeys : circleSays[k] = "completed" => circleSays'[k] = "completed"
      BY <2>3, <2>5
    <3>2. Truthful(legPaid)'
      BY <2>3, <3>1 DEF ViewInv, CopiesAreTrue, Truthful
    <3>. QED
      BY <2>4, <3>1, <3>2 DEF ViewInv, CopiesAreTrue, Truthful
  <2>8. \A j \in Sold : KeysOf(j)' = KeysOf(j)
    BY <2>4 DEF KeysOf, LegsOf
  <2>9. \A j \in Sold : j # i => \A k \in KeysOf(j) : legPaid'[k] = legPaid[k] /\ circleSays'[k] = circleSays[k]
    BY <1>0, <2>3, KeysAreOwn
  <2>10. \A k \in KeysOf(i) : legPaid'[k] # "none" /\ circleSays'[k] # "none"
    BY <1>0, <2>3
  <2>11. PaidTogether'
    <3>1. SUFFICES ASSUME NEW j \in Sold
                   PROVE  \/ \A k \in KeysOf(j) : legPaid'[k] = "none" /\ circleSays'[k] = "none"
                          \/ \A k \in KeysOf(j) : legPaid'[k] # "none" /\ circleSays'[k] # "none"
      BY <2>8 DEF PaidTogether
    <3>. QED
      BY <2>9, <2>10 DEF ViewInv, PaidTogether
  <2>12. \A j \in Sold : billed'[j] # "pending" => LegsPaid(j)'
    <3>1. SUFFICES ASSUME NEW j \in Sold, billed'[j] # "pending" PROVE \A k \in KeysOf(j) : legPaid'[k] # "none"
      BY <2>8 DEF LegsPaid
    <3>. QED
      BY <2>4, <2>9, <2>10, <3>1 DEF ViewInv, LegsPaid
  <2>. QED
    BY <2>6, <2>7, <2>11, <2>12 DEF ViewInv
<1>2. ASSUME NEW i \in Sold, PublishPaid(i) PROVE ViewInv'
  <2>1. ViewTypeOK'
    BY <1>0, <1>2 DEF PublishPaid, ViewTypeOK
  <2>2. /\ UNCHANGED <<ledgerKind, circleSays, legPaid, rows, events, reading, swept>>
        /\ \A j \in Sold : billed[j] = "pending" => billed'[j] = "pending" \/ LegsPaid(j)
    BY <1>0, <1>2 DEF PublishPaid, ViewTypeOK
  <2>. QED
    BY <2>1, <2>2, CopyingKeeps
<1>3. ASSUME NEW i \in Sold, RecordPaid(i) PROVE ViewInv'
  <2>. DEFINE new == EventsOf(i, legPaid)
  <2>1. new \in [PayKeys -> Gateway] /\ \A k \in PayKeys : new[k] \in {"none", legPaid[k]}
    BY <1>0 DEF EventsOf
  <2>2. RowsSaved(new) /\ events' = Merged(new, rows)
    BY <1>3 DEF RecordPaid
  <2>3. /\ UNCHANGED <<ledgerKind, billed, legPaid, circleSays, reading>>
        /\ swept' = [swept EXCEPT !.current = FALSE]
    BY <1>3 DEF RecordPaid
  <2>. HIDE DEF new
  <2>4. /\ rows' \in [PayKeys -> Gateway] /\ events' \in [PayKeys -> Gateway]
        /\ ledgerFaults' \in 0 .. MaxLedgerFaults
        /\ \A k \in PayKeys : rows'[k] \in {"none", new[k], rows[k]} /\ events'[k] \in {new[k], rows[k]}
    BY <1>0, <2>1, <2>2, SavedComesFrom, MergedIs
  <2>5. ViewTypeOK' /\ swept'.seen = swept.seen
    BY <1>0, <2>3, <2>4, SweptIs DEF ViewTypeOK
  <2>. QED
    BY <2>1, <2>3, <2>4, <2>5, CopyingKeeps
<1>4. ASSUME NEW k \in PayKeys, CircleEnds(k) PROVE ViewInv'
  <2>1. /\ UNCHANGED <<ledgerKind, billed, legPaid, rows, events, reading, swept, ledgerFaults>>
        /\ circleSays' \in [PayKeys -> Gateway]
        /\ \A l \in PayKeys : /\ circleSays[l] = "completed" => circleSays'[l] = "completed"
                              /\ circleSays'[l] = "none" <=> circleSays[l] = "none"
    BY <1>0, <1>4 DEF CircleEnds
  <2>2. ViewTypeOK' /\ CopiesAreTrue'
    BY <1>0, <2>1 DEF ViewInv, ViewTypeOK, CopiesAreTrue, Truthful
  <2>3. \A j \in Sold : KeysOf(j)' = KeysOf(j) /\ (LegsPaid(j) => LegsPaid(j)')
    BY <2>1 DEF KeysOf, LegsOf, LegsPaid
  <2>4. PaidTogether'
    BY <1>0, <2>1, <2>3 DEF ViewInv, PaidTogether
  <2>. QED
    BY <2>1, <2>2, <2>3, <2>4 DEF ViewInv
<1>5. ASSUME NEW i \in Sold, PollInvoice(i) \/ DisputeFailed(i) PROVE ViewInv'
  <2>1. PICK answered \in SUBSET KeysOf(i) : legPaid' = LegsAfter(i, answered) /\ LegsPaid(i)
    <3>1. CASE PollInvoice(i)
      BY <3>1 DEF PollInvoice
    <3>2. CASE DisputeFailed(i)
      BY <3>2 DEF DisputeFailed, ViewInv
    <3>. QED
      BY <1>5, <3>1, <3>2
  <2>2. /\ legPaid' \in [PayKeys -> Gateway]
        /\ \A k \in PayKeys : legPaid'[k] \in {legPaid[k], circleSays[k]} /\ (legPaid[k] = "none" => legPaid'[k] = "none")
    BY <1>0, <2>1 DEF LegsAfter, LegsPaid
  <2>3. UNCHANGED <<ledgerKind, circleSays, reading, swept>>
    BY <1>5 DEF PollInvoice, DisputeFailed
  <2>4. /\ billed' \in [Sold -> {"pending", "paid", "disputed"}]
        /\ \A j \in Sold : billed[j] = "pending" => billed'[j] = "pending"
    BY <1>0, <1>5 DEF PollInvoice, DisputeFailed, ViewTypeOK
  <2>5. /\ rows' \in [PayKeys -> Gateway] /\ events' \in [PayKeys -> Gateway]
        /\ ledgerFaults' \in 0 .. MaxLedgerFaults
        /\ \A k \in PayKeys : {rows'[k], events'[k]} \subseteq {"none", legPaid'[k], rows[k], events[k]}
    <3>1. CASE UNCHANGED <<rows, events, ledgerFaults>>
      BY <1>0, <3>1 DEF ViewTypeOK
    <3>2. CASE /\ RowsSaved(EventsOf(i, legPaid')) /\ events' = Merged(EventsOf(i, legPaid'), events)
      <4>. DEFINE new == EventsOf(i, legPaid')
      <4>1. new \in [PayKeys -> Gateway] /\ \A k \in PayKeys : new[k] \in {"none", legPaid'[k]}
        BY <1>0, <2>2 DEF EventsOf
      <4>2. RowsSaved(new) /\ events' = Merged(new, events)
        BY <3>2
      <4>. HIDE DEF new
      <4>. QED
        BY <1>0, <4>1, <4>2, SavedComesFrom, MergedIs
    <3>. QED
      BY <1>5, <3>1, <3>2 DEF PollInvoice, DisputeFailed
  <2>6. ViewTypeOK'
    BY <1>0, <2>2, <2>3, <2>4, <2>5 DEF ViewTypeOK
  <2>7. \A k \in PayKeys :
          {rows'[k], events'[k], reading'.loaded[k], swept'.seen[k]}
             \subseteq {"none", legPaid[k], legPaid'[k], rows[k], events[k], reading.loaded[k],
                        swept.seen[k], circleSays[k]}
    BY <2>3, <2>5
  <2>. QED
    BY <2>2, <2>3, <2>4, <2>6, <2>7, CopyingKeeps
<1>6. ASSUME BeginReload \/ EndReload \/ StartRefresh PROVE ViewInv'
  <2>1. ViewTypeOK'
    <3>. DEFINE Tables == [PayKeys -> Gateway]
    <3>1. reading \in [busy : BOOLEAN, loaded : Tables] /\ {rows, events, NoEvents} \subseteq Tables
      BY <1>0 DEF ViewTypeOK
    <3>2. ASSUME BeginReload \/ EndReload
          PROVE  /\ reading' \in [busy : BOOLEAN, loaded : Tables]
                 /\ events' \in Tables /\ rows' = rows /\ ledgerFaults' \in 0 .. MaxLedgerFaults
      <4>. HIDE DEF Tables
      <4>1. ledgerFaults' \in 0 .. MaxLedgerFaults
        BY <1>0, <3>2, ViewAssumption
           DEF BeginReload, EndReload, ViewTypeOK, LedgerFault, NoLedgerFault
      <4>. QED
        <5>1. CASE BeginReload
          <6>1. PICK loaded \in Tables : reading' = [busy |-> TRUE, loaded |-> loaded]
            BY <3>1, <5>1 DEF BeginReload
          <6>2. events' = events /\ rows' = rows /\ events \in Tables
            BY <1>0, <5>1 DEF BeginReload, ViewTypeOK, Tables
          <6>3. reading' \in [busy : BOOLEAN, loaded : Tables]
            BY <6>1
          <6>. QED
            BY <4>1, <6>2, <6>3, <3>1
        <5>2. CASE EndReload
          <6>1. /\ reading' = [busy |-> FALSE, loaded |-> NoEvents]
                /\ events' = reading.loaded /\ rows' = rows
            BY <5>2 DEF EndReload, NotReading
          <6>. QED
            BY <3>1, <4>1, <6>1
        <5>. QED
          BY <3>2, <5>1, <5>2
    <3>3. ASSUME StartRefresh
          PROVE  swept' \in [busy : BOOLEAN, seen : Tables, current : BOOLEAN]
      <4>. HIDE DEF Tables
      <4>. QED
        BY <3>1, <3>3 DEF StartRefresh
    <3>4. CASE BeginReload \/ EndReload
      <4>1. swept' \in [busy : BOOLEAN, seen : [PayKeys -> Gateway], current : BOOLEAN]
        BY <1>0, <3>4, SweptIs DEF BeginReload, EndReload, ViewTypeOK
      <4>. QED
        BY <1>0, <3>2, <3>4, <4>1 DEF BeginReload, EndReload, ViewTypeOK
    <3>5. CASE StartRefresh
      BY <1>0, <3>3, <3>5 DEF StartRefresh, ViewTypeOK
    <3>. QED
      BY <1>6, <3>4, <3>5
  <2>2. UNCHANGED <<ledgerKind, billed, circleSays, legPaid>>
    BY <1>6 DEF BeginReload, EndReload, StartRefresh
  <2>3. \A k \in PayKeys :
          {rows'[k], events'[k], reading'.loaded[k], swept'.seen[k]}
             \subseteq {"none", rows[k], events[k], reading.loaded[k], swept.seen[k]}
    <3>1. \A k \in PayKeys : NoEvents[k] = "none"
      BY DEF NoEvents
    <3>2. CASE BeginReload
      BY <3>1, <3>2 DEF BeginReload
    <3>3. CASE EndReload
      <4>1. reading'.loaded = NoEvents /\ events' = reading.loaded /\ rows' = rows /\ swept'.seen = swept.seen
        BY <1>0, <3>3 DEF EndReload, NotReading, ViewTypeOK
      <4>. QED
        BY <3>1, <4>1
    <3>4. CASE StartRefresh
      BY <3>4 DEF StartRefresh
    <3>. QED
      BY <1>6, <3>2, <3>3, <3>4
  <2>. QED
    BY <2>1, <2>2, <2>3, CopyingKeeps
<1>7. ASSUME FinishRefresh PROVE ViewInv'
  <2>1. /\ UNCHANGED <<ledgerKind, billed, circleSays, legPaid, reading>>
        /\ swept' = NotSweeping
    BY <1>7 DEF FinishRefresh
  <2>2. events' \in [PayKeys -> Gateway] /\ \A k \in PayKeys : events'[k] \in {events[k], circleSays[k]}
    <3>1. PICK changed : events' = IF swept.current
                                   THEN [k \in PayKeys |-> IF k \in changed THEN circleSays[k] ELSE events[k]]
                                   ELSE events
      BY <1>7 DEF FinishRefresh
    <3>. QED
      BY <1>0, <3>1
  <2>3. LedgerSaved(events') \/ UNCHANGED <<rows, ledgerFaults>>
    BY <1>7 DEF FinishRefresh
  <2>4. /\ rows' \in [PayKeys -> Gateway] /\ ledgerFaults' \in 0 .. MaxLedgerFaults
        /\ \A k \in PayKeys : rows'[k] \in {"none", events[k], circleSays[k], rows[k]}
    <3>1. CASE UNCHANGED <<rows, ledgerFaults>>
      BY <1>0, <3>1 DEF ViewTypeOK
    <3>2. CASE LedgerSaved(events')
      <4>1. PICK list \in [PayKeys -> Gateway] : list = events'
        BY <2>2
      <4>2. LedgerSaved(list)
        BY <3>2, <4>1
      <4>3. /\ rows' \in [PayKeys -> Gateway] /\ ledgerFaults' \in 0 .. MaxLedgerFaults
            /\ \A k \in PayKeys : rows'[k] \in {"none", list[k], rows[k]}
        BY <1>0, <4>2, SavedComesFrom
      <4>. QED
        BY <2>2, <4>1, <4>3
    <3>. QED
      BY <2>3, <3>1, <3>2
  <2>5. ViewTypeOK' /\ \A k \in PayKeys : swept'.seen[k] = "none"
    BY <1>0, <2>1, <2>2, <2>4 DEF ViewTypeOK, NotSweeping, NoEvents
  <2>6. \A k \in PayKeys :
          {rows'[k], events'[k], reading'.loaded[k], swept'.seen[k]}
             \subseteq {"none", rows[k], events[k], reading.loaded[k], circleSays[k]}
    BY <2>1, <2>2, <2>4, <2>5
  <2>. QED
    BY <2>1, <2>5, <2>6, CopyingKeeps
<1>8. ASSUME UNCHANGED viewVars PROVE ViewInv'
  <2>1. ViewTypeOK'
    BY <1>0, <1>8 DEF viewVars, ViewTypeOK
  <2>. QED
    BY <1>8, <2>1, CopyingKeeps DEF viewVars
<1>. QED
  BY <1>1, <1>2, <1>3, <1>4, <1>5, <1>6, <1>7, <1>8 DEF ViewNext

(* The invariant says at least what the property says.                       *)
LEMMA ViewImplies == ViewInv => TractionIsTrue
<1>. SUFFICES ASSUME ViewInv PROVE TractionIsTrue
  OBVIOUS
<1>1. \A k \in PayKeys : k[1] \in Sold
  BY DEF PayKeys
<1>2. \A i \in Sold : \A k \in KeysOf(i) : k[1] = i /\ k \in PayKeys
  BY KeysAreOwn DEF KeysOf
<1>3. ASSUME NEW k \in PayKeys
      PROVE  /\ FromInvoice(k) \in {"none", legPaid[k]}
             /\ FromInvoice(k) # "none" => PlatformView[k] # "none"
             /\ PlatformView[k] = "completed" => circleSays[k] = "completed"
  <2>1. FromInvoice(k) \in {"none", legPaid[k]}
    BY DEF FromInvoice
  <2>2. PlatformView[k] \in {"completed", FromInvoice(k), rows[k]}
        /\ (FromInvoice(k) # "none" => PlatformView[k] \in {"completed", FromInvoice(k)})
        /\ (PlatformView[k] = "completed" => "completed" \in {rows[k], FromInvoice(k)})
    BY DEF PlatformView
  <2>. QED
    BY <2>1, <2>2 DEF ViewInv, CopiesAreTrue, Truthful
<1>4. {i \in Sold : billed[i] = "paid"} \subseteq PaidReports \cap SummaryReports
  <2>1. ASSUME NEW i \in Sold, billed[i] = "paid", NEW k \in KeysOf(i)
        PROVE  PlatformView[k] # "none"
    <3>1. legPaid[k] # "none" /\ FromInvoice(k) = legPaid[k]
      BY <1>2, <2>1 DEF ViewInv, LegsPaid, FromInvoice
    <3>. QED
      BY <1>2, <1>3, <3>1
  <2>. QED
    BY <2>1, KeysAreOwn DEF PaidReports, SummaryReports
<1>5. \A k \in EarnedFinal \cup BooksSettled : circleSays[k] = "completed"
  BY <1>3 DEF EarnedFinal, BooksSettled, ViewInv, CopiesAreTrue, Truthful
<1>6. ASSUME NEW i \in SettledReports, NEW k \in KeysOf(i) PROVE circleSays[k] = "completed"
  BY <1>2, <1>3 DEF SettledReports, PaidReports
<1>. QED
  BY <1>4, <1>5, <1>6 DEF TractionIsTrue

(* Whatever saves and reloads fail and whatever a sweep still holds, every   *)
(* paid invoice is counted in the published figures, and no payment is       *)
(* called settled or earned that Circle has not completed                    *)
(* (merge_payment_sources, summarize_payment_events, reconcile_books).       *)
THEOREM PublishedIsTrue == ViewSpec => []TractionIsTrue
  BY ViewStart, ViewStep, ViewImplies, PTL DEF ViewSpec

-----------------------------------------------------------------------------
(***************************************************************************)
(* Decisions: whichever tier decides and whatever a model answers, what is *)
(* purchased was considered and eligible when the entitlements were read.  *)
(***************************************************************************)
(* A purchase of an eligible offer.                                          *)
Sound(d) ==
  d.action = "purchase" => \E o \in EligibleOffers : d.offer = o /\ d.tier = CandidateTier(o)

DecisionInv == ask \in Asks /\ Sound(decision)

(* A plan that is accepted, of any model, leads to a sound decision.         *)
LEMMA AcceptedIsSound ==
  ASSUME NEW plan, NEW source, NEW d \in Validated(plan, source)
  PROVE  Sound(d)
<1>1. PlannedOffers(plan) \subseteq Considered
  BY DEF PlannedOffers, EligibleOffers
<1>2. CASE plan.action # "purchase"
  BY <1>2 DEF Validated, Sound
<1>3. CASE plan.action = "purchase"
  <2>1. PICK o \in PlannedOffers(plan) :
          /\ Eligible(o)
          /\ d = [action |-> "purchase", source |-> source, offer |-> o, tier |-> CandidateTier(o)]
    BY <1>3 DEF Validated
  <2>. QED
    BY <1>1, <2>1 DEF Sound, EligibleOffers
<1>. QED
  BY <1>2, <1>3

(* So does the cascade, to the ranking at its end.                           *)
LEMMA CascadeIsSound ==
  ASSUME NEW d \in Cascade
  PROVE  Sound(d)
<1>1. ASSUME NEW plans, NEW source, d \in DecidedBy(plans, source)
      PROVE  Sound(d)
  <2>1. PICK plan \in plans : d \in Validated(plan, source)
    BY <1>1 DEF DecidedBy
  <2>. QED
    BY <2>1, AcceptedIsSound
<1>2. ASSUME d \in Fallback
      PROVE  Sound(d)
  <2>1. CASE d = NothingFrom("deterministic_policy")
    BY <2>1 DEF NothingFrom, Sound
  <2>2. CASE \E o \in Foremost(EligibleOffers, ask.best) :
               d = [action |-> "purchase", source |-> "deterministic_policy", offer |-> o,
                    tier |-> CandidateTier(o)]
    BY <2>2 DEF Foremost, Sound
  <2>. QED
    BY <1>2, <2>1, <2>2 DEF Fallback
<1>3. \/ d \in DecidedBy(FastPlans, "fast_parser") \/ d \in DecidedBy(LayaPlans, "laya_system_one")
      \/ d \in DecidedBy(ModelPlans, "llm") \/ d \in Fallback
  BY DEF Cascade
<1>. QED
  BY <1>1, <1>2, <1>3

(* Every step keeps the invariant.                                           *)
LEMMA DecisionStep == DecisionInv /\ [DecisionNext]_decisionVars => DecisionInv'
<1>. SUFFICES ASSUME DecisionInv, [DecisionNext]_decisionVars PROVE DecisionInv'
  OBVIOUS
<1>1. CASE ReadEntitlements
  BY <1>1 DEF ReadEntitlements, DecisionInv, Sound, Undecided
<1>2. CASE DecideAsk
  <2>1. PICK d \in Cascade : decision' \in {d, NothingFrom("spend_guard")}
    BY <1>2 DEF DecideAsk
  <2>2. Sound(d) /\ Sound(NothingFrom("spend_guard"))
    BY CascadeIsSound DEF Sound, NothingFrom
  <2>3. UNCHANGED <<ask, owned, known>>
    BY <1>2 DEF DecideAsk
  <2>4. EligibleOffers' = EligibleOffers /\ \A o : CandidateTier(o)' = CandidateTier(o)
    BY <2>3 DEF EligibleOffers, Eligible, Considered, CandidateTier, CandidatePrice, Upgraded, TierAsked,
            AskBudget, AskMaxPrice
  <2>5. Sound(decision)'
    BY <2>1, <2>2, <2>4 DEF Sound
  <2>. QED
    BY <2>3, <2>5 DEF DecisionInv
<1>3. CASE UNCHANGED <<ask, known, decision>>
  <2>1. EligibleOffers' = EligibleOffers /\ \A o : CandidateTier(o)' = CandidateTier(o)
    BY <1>3 DEF EligibleOffers, Eligible, Considered, CandidateTier, CandidatePrice, Upgraded, TierAsked,
            AskBudget, AskMaxPrice
  <2>. QED
    BY <1>3, <2>1 DEF DecisionInv, Sound
<1>. QED
  BY <1>1, <1>2, <1>3 DEF DecisionNext, BuyReport, decisionVars

(* The invariant says at least what the property says.                       *)
LEMMA DecisionImplies == DecisionInv => PurchaseIsWithinPolicy
<1>. SUFFICES ASSUME DecisionInv, BuysReport PROVE PurchaseIsWithinPolicy
  BY DEF PurchaseIsWithinPolicy
<1>1. PICK o \in EligibleOffers : decision.offer = o /\ decision.tier = CandidateTier(o)
  BY DEF DecisionInv, Sound, BuysReport
<1>. DEFINE price == o.price[CandidateTier(o)]
<1>2. /\ o \in Considered /\ o.score >= ask.minScore /\ <<o, "full">> \notin known
      /\ <<o, CandidateTier(o)>> \notin known /\ price \in 1..Least(AskBudget, AskMaxPrice)
  BY DEF EligibleOffers, Eligible, CandidatePrice
<1>3. ask.providers = {} \/ o.provider \in ask.providers
  BY <1>2 DEF Considered
<1>4. ask.budget \in Nat /\ ask.maxPrice \in Nat /\ MaxBudget \in Nat
  BY DecisionAssumption DEF DecisionInv
<1>. HIDE DEF price
<1>5. 0 < price /\ price <= ask.budget /\ price <= ask.maxPrice /\ price <= MaxBudget
  BY <1>2, <1>4 DEF Least, AskBudget, AskMaxPrice
<1>. QED
  BY <1>1, <1>2, <1>3, <1>5 DEF PurchaseIsWithinPolicy, price

(* Whatever a model answers and whatever else the owner buys meanwhile, a    *)
(* purchase is within the budget, the price limit and the providers asked    *)
(* for, and of nothing the request saw as owned (make_agent_decision).       *)
THEOREM PurchasesWithinPolicy == DecisionSpec => []PurchaseIsWithinPolicy
<1>1. DecisionInit => DecisionInv
  BY DEF DecisionInit, DecisionInv, Sound
<1>. QED
  BY <1>1, DecisionStep, DecisionImplies, PTL DEF DecisionSpec

-----------------------------------------------------------------------------
(***************************************************************************)
(* The advice on a wallet's caps: the invoice of a payment that left the   *)
(* wallet counts, whatever its copies have learned and whichever event     *)
(* comes with it, and is dated no earlier than the settlement.             *)
(***************************************************************************)
PaymentStates == {"none", "billed", "bound", "paid", "refunded"}
GatewayStates == {"none", "received", "completed", "failed"}

PaymentRow == [state: PaymentStates, value: Nat, created: Nat, settled: Nat, paid: Nat,
               circle: GatewayStates, invoice: GatewayStates, event: GatewayStates]

(* What days and payments are.                                               *)
AdviceTypes == today \in Nat /\ payment \in [Payments -> PaymentRow]

(* The invoice knows what Circle says now, or what it said before: nothing   *)
(* that would not count while the money has left.                            *)
InvoiceLags ==
  \A p \in Payments :
    /\ payment[p].state \in {"bound", "paid", "refunded"} =>
         payment[p].circle # "none" /\ payment[p].invoice # "none"
    /\ payment[p].circle = "received" => payment[p].invoice = "received"
    /\ payment[p].circle = "completed" => payment[p].invoice \in {"received", "completed"}
    /\ payment[p].circle = "none" => payment[p].invoice = "none"

(* A payment is billed, settled and ruled on in this order.                  *)
DaysInOrder ==
  \A p \in Payments :
    /\ payment[p].state \in {"bound", "paid"} => payment[p].settled <= today
    /\ payment[p].state = "paid" =>
         payment[p].settled <= payment[p].paid /\ payment[p].paid <= today

AdviceInv == AdviceTypes /\ InvoiceLags /\ DaysInOrder

(* What left the wallet since a day, by payment.                             *)
HasLeft(p, day) ==
  /\ payment[p].circle \in {"received", "completed"}
  /\ payment[p].state \in {"bound", "paid"}
  /\ payment[p].state = "paid" \/ payment[p].settled = payment[p].created
  /\ payment[p].settled >= day

(* A query that returns as many rows as there are returns all of them.       *)
LEMMA WholeTable ==
  ASSUME NEW table, IsFiniteSet(table), Cardinality(table) <= AdviceRows,
         NEW part \in NewestOf(table)
  PROVE  part = table
<1>1. AdviceRows \in Nat /\ Cardinality(table) \in Nat
  BY AdviceAssumption, FS_CardinalityType
<1>2. part \in SUBSET table /\ Cardinality(part) = Cardinality(table)
  BY <1>1 DEF NewestOf
<1>. QED
  BY <1>2, FS_Subset

(* The sums of the advice, as sums of functions.                             *)
LEMMA SpentFromIsSum ==
  ASSUME NEW ledger, NEW day
  PROVE  LET counted == {r \in ledger : Counts(r) /\ r.at \in day..today}
         IN SpentFrom(ledger, day) = SumOf([r \in counted |-> payment[r.id].value], counted)
<1>. DEFINE counted == {r \in ledger : Counts(r) /\ r.at \in day..today}
            f == [r \in counted |-> payment[r.id].value]
            P(it) == it = [u \in SUBSET counted |-> IF u = {} THEN 0
                           ELSE LET x == CHOOSE x \in u : TRUE
                                IN payment[x.id].value + it[u \ {x}]]
<1>1. \A it : IsSum(it, f, counted) <=> P(it)
  <2>1. \A u \in SUBSET counted : u # {} => f[CHOOSE x \in u : TRUE] = payment[(CHOOSE x \in u : TRUE).id].value
    OBVIOUS
  <2>. HIDE DEF f, counted
  <2>. QED
    BY <2>1 DEF IsSum
<1>2. SpentFrom(ledger, day) = (CHOOSE it : P(it))[counted]
  BY DEF SpentFrom, MapThenSumSet, MapThenFoldSet
<1>3. SumOf(f, counted) = (CHOOSE it : IsSum(it, f, counted))[counted]
  BY DEF SumOf, MapThenSumSet, MapThenFoldSet, IsSum
<1>. HIDE DEF P
<1>4. SpentFrom(ledger, day) = SumOf(f, counted)
  BY <1>1, <1>2, <1>3
<1>. QED
  BY <1>4

LEMMA LeftIsSum ==
  ASSUME NEW day
  PROVE  LET left == {p \in Payments : HasLeft(p, day)}
         IN LeftSince(day) = SumOf([p \in left |-> payment[p].value], left)
<1>. DEFINE left == {p \in Payments : HasLeft(p, day)}
            f == [p \in left |-> payment[p].value]
            P(it) == it = [u \in SUBSET left |-> IF u = {} THEN 0
                           ELSE LET x == CHOOSE x \in u : TRUE
                                IN payment[x].value + it[u \ {x}]]
<1>1. \A it : IsSum(it, f, left) <=> P(it)
  <2>1. \A u \in SUBSET left : u # {} => f[CHOOSE x \in u : TRUE] = payment[CHOOSE x \in u : TRUE].value
    OBVIOUS
  <2>. HIDE DEF f, left
  <2>. QED
    BY <2>1 DEF IsSum
<1>2. LeftSince(day) = (CHOOSE it : P(it))[left]
  BY DEF LeftSince, HasLeft, MapThenSumSet, MapThenFoldSet
<1>3. SumOf(f, left) = (CHOOSE it : IsSum(it, f, left))[left]
  BY DEF SumOf, MapThenSumSet, MapThenFoldSet, IsSum
<1>. HIDE DEF P
<1>4. LeftSince(day) = SumOf(f, left)
  BY <1>1, <1>2, <1>3
<1>. QED
  BY <1>4

(* What left since a day is no more than what the whole ledger shows.        *)
LEMMA LeftIsCounted ==
  ASSUME AdviceInv, NEW told, told \subseteq EventRows, NEW day \in Nat
  PROVE  /\ LeftSince(day) \in Nat
         /\ SpentFrom(FirstRows(InvoiceRows, told), day) \in Nat
         /\ LeftSince(day) <= SpentFrom(FirstRows(InvoiceRows, told), day)
<1>. DEFINE ledger == FirstRows(InvoiceRows, told)
            left == {p \in Payments : HasLeft(p, day)}
            counted == {r \in ledger : Counts(r) /\ r.at \in day..today}
            f == [p \in left |-> payment[p].value]
            g == [r \in counted |-> payment[r.id].value]
            m == [p \in left |-> InvoiceRow(p)]
<1>1. IsFiniteSet(left)
  BY AdviceAssumption, FS_Subset
<1>2. IsFiniteSet(counted)
  <2>1. IsFiniteSet({q \in Payments : payment[q].invoice # "none"})
        /\ IsFiniteSet({q \in Payments : payment[q].event # "none"})
    BY AdviceAssumption, FS_Subset
  <2>2. IsFiniteSet(InvoiceRows) /\ IsFiniteSet(EventRows)
    <3>1. PICK asked : asked = {q \in Payments : payment[q].invoice # "none"}
      OBVIOUS
    <3>2. PICK heard : heard = {q \in Payments : payment[q].event # "none"}
      OBVIOUS
    <3>3. PICK f1 : f1 = [q \in asked |-> InvoiceRow(q)]
      OBVIOUS
    <3>4. PICK f2 : f2 = [q \in heard |-> EventRow(q)]
      OBVIOUS
    <3>5. IsFiniteSet({f1[q] : q \in asked}) /\ IsFiniteSet({f2[q] : q \in heard})
      BY <2>1, <3>1, <3>2, FiniteImage
    <3>6. {f1[q] : q \in asked} = InvoiceRows /\ {f2[q] : q \in heard} = EventRows
      BY <3>1, <3>2, <3>3, <3>4 DEF InvoiceRows, EventRows
    <3>. QED
      BY <3>5, <3>6
  <2>3. IsFiniteSet(InvoiceRows \cup EventRows)
    BY <2>2, FS_Union
  <2>4. counted \subseteq InvoiceRows \cup EventRows
    BY DEF FirstRows
  <2>. QED
    BY <2>3, <2>4, FS_Subset
<1>3. \A p \in left : m[p] \in counted /\ m[p].id = p /\ f[p] = g[m[p]]
  <2>. SUFFICES ASSUME NEW p \in left PROVE InvoiceRow(p) \in counted /\ InvoiceRow(p).id = p
    OBVIOUS
  <2>1. /\ p \in Payments /\ payment[p] \in PaymentRow
        /\ payment[p].state \in {"bound", "paid"}
        /\ payment[p].circle \in {"received", "completed"}
        /\ payment[p].invoice \in {"received", "completed"}
    BY DEF HasLeft, AdviceInv, AdviceTypes, InvoiceLags
  <2>2. InvoiceRow(p).id = p /\ InvoiceRow(p).gateway = payment[p].invoice
        /\ ~InvoiceRow(p).refunded
    BY <2>1 DEF InvoiceRow
  <2>3. Counts(InvoiceRow(p))
    BY <2>1, <2>2 DEF Counts
  <2>4. InvoiceRow(p).at \in day..today
    BY <2>1 DEF InvoiceRow, HasLeft, AdviceInv, AdviceTypes, DaysInOrder, PaymentRow
  <2>5. InvoiceRow(p) \in ledger
    BY <2>1 DEF FirstRows, InvoiceRows
  <2>. QED
    BY <2>2, <2>3, <2>4, <2>5
<1>4. (\A p \in left : f[p] \in Nat) /\ (\A r \in counted : g[r] \in Nat)
  <2>1. \A p \in Payments : payment[p].value \in Nat
    BY DEF AdviceInv, AdviceTypes, PaymentRow
  <2>2. \A r \in counted : r.id \in Payments
    BY DEF FirstRows, InvoiceRows, EventRows, InvoiceRow, EventRow
  <2>. QED
    BY <2>1, <2>2
<1>5. /\ \A p \in left : f[p] \in Nat /\ m[p] \in counted /\ f[p] <= g[m[p]]
      /\ \A p, q \in left : m[p] = m[q] => p = q
  <2>. HIDE DEF left, counted, f, g, m
  <2>1. \A p \in left : f[p] \in Nat /\ m[p] \in counted /\ f[p] <= g[m[p]]
    BY <1>3, <1>4
  <2>2. \A p, q \in left : m[p] = m[q] => p = q
    BY <1>3
  <2>. QED
    BY <2>1, <2>2
<1>6. LeftSince(day) = SumOf(f, left)
  BY LeftIsSum
<1>7. SpentFrom(ledger, day) = SumOf(g, counted)
  BY SpentFromIsSum
<1>. HIDE DEF left, counted, f, g, m, ledger
<1>8. SumOf(f, left) \in Nat /\ SumOf(g, counted) \in Nat
  BY <1>1, <1>2, <1>4, SumType
<1>9. SumOf(f, left) <= SumOf(g, counted)
  BY <1>1, <1>2, <1>4, <1>5, SumInjected
<1>. QED
  BY <1>6, <1>7, <1>8, <1>9 DEF ledger

(* So what is allowed fits what has left.                                    *)
LEMMA AllowedFits ==
  ASSUME AdviceInv
  PROVE  AdviceIsSound
<1>. SUFFICES ASSUME Cardinality(InvoiceRows) \in 1..AdviceRows,
                     NEW invoices \in NewestOf(InvoiceRows), NEW told \in NewestOf(EventRows),
                     NEW limits \in LimitSets, NEW amount \in Amounts,
                     Allows(limits, amount, FirstRows(invoices, told))
              PROVE  /\ LeftSince(today) + amount <= limits.daily
                     /\ LeftSince(WeekStart) + amount <= limits.weekly
                     /\ LeftSince(MonthStart) + amount <= limits.monthly
  BY DEF AdviceIsSound
<1>1. IsFiniteSet(InvoiceRows)
  <2>1. PICK asked : asked = {q \in Payments : payment[q].invoice # "none"}
    OBVIOUS
  <2>2. IsFiniteSet(asked)
    BY <2>1, AdviceAssumption, FS_Subset
  <2>3. PICK f : f = [q \in asked |-> InvoiceRow(q)]
    OBVIOUS
  <2>4. IsFiniteSet({f[q] : q \in asked})
    BY <2>2, FiniteImage
  <2>5. {f[q] : q \in asked} = InvoiceRows
    BY <2>1, <2>3 DEF InvoiceRows
  <2>. QED
    BY <2>4, <2>5
<1>2. invoices = InvoiceRows
  <2>1. Cardinality(InvoiceRows) <= AdviceRows
    BY AdviceAssumption
  <2>. QED
    BY <1>1, <2>1, WholeTable
<1>3. told \subseteq EventRows
  BY DEF NewestOf
<1>4. today \in Nat /\ WeekStart \in Nat /\ MonthStart \in Nat
  <2>1. today \in Nat /\ WeekDays \in Nat \ {0} /\ MonthDays \in Nat \ {0}
    BY AdviceAssumption DEF AdviceInv, AdviceTypes
  <2>2. \A d \in Nat \ {0} : today - (today % d) \in Nat
    <3>. SUFFICES ASSUME NEW d \in Nat \ {0} PROVE today - (today % d) \in Nat
      OBVIOUS
    <3>. DEFINE q == today \div d
                r == today % d
    <3>1. today = d * q + r /\ q \in Nat /\ r \in Nat
      BY <2>1
    <3>. HIDE DEF q, r
    <3>2. d * q \in Nat
      BY <3>1
    <3>3. today - r = d * q
      BY <2>1, <3>1, <3>2
    <3>. QED
      BY <3>2, <3>3 DEF r
  <2>. QED
    BY <2>1, <2>2 DEF WeekStart, MonthStart
<1>. DEFINE ledger == FirstRows(InvoiceRows, told)
<1>5. Allows(limits, amount, ledger)
  BY <1>2
<1>6. amount \in Nat /\ limits.daily \in Int /\ limits.weekly \in Int /\ limits.monthly \in Int
  BY AdviceAssumption
<1>. HIDE DEF ledger
<1>7. \A day \in Nat : LeftSince(day) \in Nat /\ SpentFrom(ledger, day) \in Nat
                         /\ LeftSince(day) <= SpentFrom(ledger, day)
  BY <1>3, LeftIsCounted DEF ledger
<1>. QED
  BY <1>4, <1>5, <1>6, <1>7 DEF Allows

-----------------------------------------------------------------------------
LEMMA AdviceStep ==
  ASSUME AdviceInv, [AdviceNext]_adviceVars
  PROVE  AdviceInv'
<1>. USE DEF AdviceInv, AdviceTypes, InvoiceLags, DaysInOrder
<1>1. CASE UNCHANGED adviceVars
  BY <1>1 DEF adviceVars
<1>2. CASE Midnight
  BY <1>2 DEF Midnight, PaymentRow
<1>. DEFINE moves(p, next) ==
       /\ today' = today /\ next \in PaymentRow
       /\ payment' = [payment EXCEPT ![p] = next]
<1>3. ASSUME NEW p \in Payments, NEW next, moves(p, next),
             /\ next.state \in {"bound", "paid", "refunded"} =>
                  next.circle # "none" /\ next.invoice # "none"
             /\ next.circle = "received" => next.invoice = "received"
             /\ next.circle = "completed" => next.invoice \in {"received", "completed"}
             /\ next.circle = "none" => next.invoice = "none",
             /\ next.state \in {"bound", "paid"} => next.settled <= today
             /\ next.state = "paid" => next.settled <= next.paid /\ next.paid <= today
      PROVE  AdviceInv'
  <2>1. payment' \in [Payments -> PaymentRow]
    BY <1>3
  <2>2. \A q \in Payments : payment'[q] = IF q = p THEN next ELSE payment[q]
    BY <1>3
  <2>3. AdviceTypes'
    BY <1>3, <2>1
  <2>4. InvoiceLags'
    BY <1>3, <2>2
  <2>5. DaysInOrder'
    BY <1>3, <2>2
  <2>. QED
    BY <2>3, <2>4, <2>5
<1>. HIDE DEF AdviceInv
<1>4. ASSUME NEW p \in Payments, NEW v \in Amounts, BillPayment(p, v) PROVE AdviceInv'
  <2>. DEFINE next == [Unbilled EXCEPT !.state = "billed", !.value = v, !.created = today]
  <2>1. Unbilled \in PaymentRow /\ v \in Nat /\ today \in Nat
        /\ Unbilled.circle = "none" /\ Unbilled.invoice = "none"
    BY AdviceAssumption DEF Unbilled, PaymentRow, PaymentStates, GatewayStates, AdviceInv
  <2>2. next \in PaymentRow /\ next.state = "billed" /\ next.circle = "none" /\ next.invoice = "none"
    BY <2>1 DEF PaymentRow, PaymentStates
  <2>3. payment' = [payment EXCEPT ![p] = next] /\ today' = today
    BY <1>4 DEF BillPayment
  <2>. HIDE DEF next
  <2>. QED
    BY <1>3, <2>2, <2>3
<1>5. ASSUME NEW p \in Payments, BindPayment(p) PROVE AdviceInv'
  <2>. DEFINE next == [payment[p] EXCEPT !.state = "bound", !.settled = today,
                                        !.circle = "received", !.invoice = "received"]
  <2>1. payment[p] \in PaymentRow /\ today \in Nat
    BY DEF AdviceInv
  <2>2. next \in PaymentRow /\ next.state = "bound" /\ next.settled = today
        /\ next.circle = "received" /\ next.invoice = "received"
    BY <2>1 DEF PaymentRow, PaymentStates, GatewayStates
  <2>3. payment' = [payment EXCEPT ![p] = next] /\ today' = today
    BY <1>5, ZenonT(30) DEF BindPayment, AdviceInv
  <2>. HIDE DEF next
  <2>4. moves(p, next) /\ next.settled <= today
    BY <2>1, <2>2, <2>3
  <2>. QED
    BY <1>3, <2>2, <2>4
<1>6. ASSUME NEW p \in Payments, RulePayment(p) PROVE AdviceInv'
  <2>. DEFINE next == [payment[p] EXCEPT !.state = "paid", !.paid = today,
                                        !.event = payment[p].invoice]
  <2>1. payment[p] \in PaymentRow /\ today \in Nat /\ payment[p].state = "bound"
    BY <1>6 DEF AdviceInv, RulePayment
  <2>2. next \in PaymentRow /\ next.state = "paid" /\ next.paid = today
        /\ next.circle = payment[p].circle /\ next.invoice = payment[p].invoice
        /\ next.settled = payment[p].settled
    BY <2>1 DEF PaymentRow, PaymentStates
  <2>3. payment' = [payment EXCEPT ![p] = next] /\ today' = today
    BY <1>6, ZenonT(30) DEF RulePayment, AdviceInv
  <2>4. payment[p].settled <= today
    BY <2>1 DEF AdviceInv
  <2>5. /\ payment[p].circle # "none" /\ payment[p].invoice # "none"
        /\ payment[p].circle = "received" => payment[p].invoice = "received"
        /\ payment[p].circle = "completed" => payment[p].invoice \in {"received", "completed"}
    BY <2>1 DEF AdviceInv
  <2>. HIDE DEF next
  <2>6. moves(p, next) /\ next.paid <= today /\ next.settled <= next.paid
    BY <2>1, <2>2, <2>3, <2>4
  <2>. QED
    BY <1>3, <2>2, <2>5, <2>6
<1>7. ASSUME NEW p \in Payments, RefundPayment(p) PROVE AdviceInv'
  <2>. DEFINE next == [payment[p] EXCEPT !.state = "refunded"]
  <2>1. payment[p] \in PaymentRow /\ payment[p].state = "bound"
    BY <1>7 DEF AdviceInv, RefundPayment
  <2>2. next \in PaymentRow /\ next.state = "refunded"
        /\ next.circle = payment[p].circle /\ next.invoice = payment[p].invoice
    BY <2>1 DEF PaymentRow, PaymentStates
  <2>3. payment' = [payment EXCEPT ![p] = next] /\ today' = today
    BY <1>7, ZenonT(30) DEF RefundPayment, AdviceInv
  <2>4. /\ payment[p].circle # "none" /\ payment[p].invoice # "none"
        /\ payment[p].circle = "received" => payment[p].invoice = "received"
        /\ payment[p].circle = "completed" => payment[p].invoice \in {"received", "completed"}
    BY <2>1 DEF AdviceInv
  <2>. HIDE DEF next
  <2>. QED
    BY <1>3, <2>1, <2>2, <2>3, <2>4
<1>8. ASSUME NEW p \in Payments, CircleRules(p) PROVE AdviceInv'
  <2>1. PICK end \in {"completed", "failed"} : payment' = [payment EXCEPT ![p].circle = end]
    BY <1>8 DEF CircleRules
  <2>. DEFINE next == [payment[p] EXCEPT !.circle = end]
  <2>2. payment[p] \in PaymentRow /\ payment[p].circle = "received" /\ payment[p].invoice = "received"
    BY <1>8 DEF AdviceInv, CircleRules
  <2>3. next \in PaymentRow /\ next.circle = end /\ next.invoice = "received"
        /\ next.state = payment[p].state /\ next.settled = payment[p].settled
        /\ next.paid = payment[p].paid
    BY <2>2 DEF PaymentRow, GatewayStates
  <2>4. payment' = [payment EXCEPT ![p] = next] /\ today' = today
    BY <1>8, <2>1, ZenonT(30) DEF CircleRules, AdviceInv
  <2>5. /\ payment[p].state \in {"bound", "paid"} => payment[p].settled <= today
        /\ payment[p].state = "paid" =>
             payment[p].settled <= payment[p].paid /\ payment[p].paid <= today
    BY DEF AdviceInv
  <2>. HIDE DEF next
  <2>. QED
    BY <1>3, <2>3, <2>4, <2>5
<1>9. ASSUME NEW p \in Payments, InvoiceLearns(p) \/ EventLearns(p) PROVE AdviceInv'
  <2>. DEFINE learned == [payment[p] EXCEPT !.invoice = payment[p].circle]
              heard == [payment[p] EXCEPT !.event = payment[p].circle]
  <2>1. payment[p] \in PaymentRow
    BY DEF AdviceInv
  <2>2. PICK next \in {learned, heard} : payment' = [payment EXCEPT ![p] = next] /\ today' = today
    BY <1>9, ZenonT(30) DEF InvoiceLearns, EventLearns, AdviceInv
  <2>3. next \in PaymentRow /\ next.circle = payment[p].circle
        /\ next.invoice \in {payment[p].invoice, payment[p].circle}
        /\ next.state = payment[p].state /\ next.settled = payment[p].settled
        /\ next.paid = payment[p].paid
    BY <2>1 DEF PaymentRow
  <2>4. /\ payment[p].state \in {"bound", "paid"} => payment[p].settled <= today
        /\ payment[p].state = "paid" =>
             payment[p].settled <= payment[p].paid /\ payment[p].paid <= today
        /\ payment[p].state \in {"bound", "paid", "refunded"} =>
             payment[p].circle # "none" /\ payment[p].invoice # "none"
        /\ payment[p].circle = "received" => payment[p].invoice = "received"
        /\ payment[p].circle = "completed" => payment[p].invoice \in {"received", "completed"}
        /\ payment[p].circle = "none" => payment[p].invoice = "none"
    BY DEF AdviceInv
  <2>. HIDE DEF learned, heard
  <2>. QED
    BY <1>3, <2>2, <2>3, <2>4
<1>. QED
  BY <1>1, <1>2, <1>4, <1>5, <1>6, <1>7, <1>8, <1>9 DEF AdviceNext

(* AdviceIsSound (evaluate_spending, spending_policy.py): whichever of the   *)
(* two copies of a payment learned what, a purchase that is allowed keeps    *)
(* what left the wallet in the day, the week and the month within the caps,  *)
(* while the queries return the whole ledger; for any payments, amounts and  *)
(* calendar.  A payment whose invoice is older than its settlement counts    *)
(* from its verdict on.                                                      *)
THEOREM AdviceStands == AdviceSpec => []AdviceIsSound
<1>1. AdviceInit => AdviceInv
  <2>. SUFFICES ASSUME AdviceInit PROVE AdviceInv
    OBVIOUS
  <2>1. Min(Days) \in Days
    <3>1. \E d \in Days : \A e \in Days : ~(<<e, d>> \in OpToRel(<, Nat))
      BY AdviceAssumption, NatLessThanWellFounded, WFMin
    <3>2. PICK d \in Days : \A e \in Days : ~(<<e, d>> \in OpToRel(<, Nat))
      BY <3>1
    <3>3. \A e \in Days : d =< e
      <4>. SUFFICES ASSUME NEW e \in Days PROVE ~(e < d)
        BY AdviceAssumption
      <4>1. <<e, d>> \in Nat \X Nat /\ ~(<<e, d>> \in {ss \in Nat \X Nat : ss[1] < ss[2]})
        BY <3>2, AdviceAssumption DEF OpToRel
      <4>. QED
        BY <4>1
    <3>. QED
      BY <3>3 DEF Min
  <2>2. today \in Nat
    BY <2>1, AdviceAssumption DEF AdviceInit
  <2>. QED
    BY <2>2 DEF AdviceInit, AdviceInv, AdviceTypes, InvoiceLags, DaysInOrder, Unbilled, PaymentRow,
                PaymentStates, GatewayStates
<1>2. AdviceInv /\ [AdviceNext]_adviceVars => AdviceInv'
  BY AdviceStep
<1>3. AdviceInv => AdviceIsSound
  BY AllowedFits
<1>. QED
  BY <1>1, <1>2, <1>3, PTL DEF AdviceSpec

-----------------------------------------------------------------------------
(***************************************************************************)
(* Session wallets: a deletion goes on only with another binding of the    *)
(* wallet that stays, and creations one by one register one wallet.        *)
(***************************************************************************)
CreatePhases == {"idle", "listed", "chosen", "registered"}
DeletePhases == {"idle", "loaded", "others", "funds", "delete"}

Creation == [phase: CreatePhases, listed: SUBSET AgentWallets, wallet: FewWallets]
Deletion == [phase: DeletePhases, id: SUBSET SessionIds, sawEmpty: BOOLEAN]

(* What rows, calls and notes are; a row, and the session of a deletion, has *)
(* its wallet.                                                               *)
BindingTypes ==
  /\ bound \in [SessionIds -> FewWallets] /\ rowIds \subseteq SessionIds
  /\ registry \in FewWallets
  /\ creating \in [Creators -> Creation] /\ deleting \in [Deleters -> Deletion]
  /\ doubtful \in BOOLEAN /\ replaced \in BOOLEAN
  /\ \A c \in Creators :
       creating[c].phase \in {"chosen", "registered"} => creating[c].wallet # {}
  /\ \A s \in rowIds : bound[s] # {}
  /\ \A d \in Deleters : \A s \in deleting[d].id : bound[s] # {}

(* Who is past the registry check holds the lock.                            *)
OneDeletes ==
  \A d \in Deleters : deleting[d].phase \in {"others", "funds", "delete"} => opsLock = {d}

(* What a deletion relies on stays while it holds the lock.                  *)
Relied ==
  \A d \in Deleters : deleting[d].phase = "delete" =>
    \/ deleting[d].sawEmpty \/ replaced
    \/ WalletOf(d) \subseteq registry
    \/ WalletOf(d) \subseteq BoundByRows(rowIds \ deleting[d].id)

(* Creations one by one choose the wallet that is registered.                *)
OneRegistered ==
  /\ replaced => doubtful
  /\ ~doubtful =>
       /\ \A c, o \in Creators :
            creating[c].phase # "idle" /\ creating[o].phase # "idle" => c = o
       /\ \A c \in Creators :
            creating[c].phase = "chosen" /\ registry # {} => creating[c].wallet = registry

BindingInv == BindingTypes /\ OneDeletes /\ Relied /\ OneRegistered

(* Nothing a deletion relies on goes while wallets, rows and the registry    *)
(* only grow and the deletions stay.                                         *)
LEMMA GrowingKeeps ==
  ASSUME BindingInv, BindingTypes', OneRegistered', deleting' = deleting, opsLock' = opsLock,
         rowIds \subseteq rowIds', \A s \in SessionIds : bound[s] # {} => bound'[s] = bound[s],
         replaced => replaced', registry \subseteq registry' \/ replaced'
  PROVE  BindingInv'
<1>1. OneDeletes'
  BY DEF BindingInv, OneDeletes
<1>2. Relied'
  <2>. SUFFICES ASSUME NEW d \in Deleters, deleting[d].phase = "delete",
                       ~deleting[d].sawEmpty, ~replaced'
                PROVE  \/ WalletOf(d)' \subseteq registry'
                       \/ WalletOf(d)' \subseteq BoundByRows(rowIds \ deleting[d].id)'
    BY DEF Relied
  <2>1. deleting[d].id \subseteq SessionIds /\ \A s \in deleting[d].id : bound[s] # {}
    BY DEF BindingInv, BindingTypes, Deletion
  <2>2. WalletOf(d)' = WalletOf(d)
    BY <2>1 DEF WalletOf
  <2>3. CASE WalletOf(d) \subseteq registry
    BY <2>2, <2>3
  <2>4. CASE WalletOf(d) \subseteq BoundByRows(rowIds \ deleting[d].id)
    <3>. SUFFICES ASSUME NEW w \in WalletOf(d) PROVE w \in BoundByRows(rowIds \ deleting[d].id)'
      BY <2>2
    <3>1. PICK s \in rowIds \ deleting[d].id : w \in bound[s]
      BY <2>4 DEF BoundByRows
    <3>2. s \in SessionIds /\ bound[s] # {}
      BY <3>1 DEF BindingInv, BindingTypes
    <3>3. s \in rowIds' \ deleting'[d].id /\ w \in bound'[s]
      BY <3>1, <3>2
    <3>. QED
      BY <3>3 DEF BoundByRows
  <2>. QED
    BY <2>3, <2>4 DEF BindingInv, Relied
<1>. QED
  BY <1>1, <1>2 DEF BindingInv

(* A creation that moves without a row.                                      *)
LEMMA CreatingKeeps ==
  ASSUME BindingInv, NEW c \in Creators,
         \/ ListSessions(c) \/ ChooseWallet(c) \/ RegisterWallet(c) \/ CreateFails(c)
  PROVE  BindingInv'
<1>1. /\ bound' = bound /\ rowIds' = rowIds /\ deleting' = deleting /\ opsLock' = opsLock
      /\ replaced => replaced'
  <2>1. UNCHANGED <<bound, rowIds, deleting, opsLock>>
    BY DEF ListSessions, ChooseWallet, RegisterWallet, CreateFails
  <2>2. replaced => replaced'
    <3>1. CASE ListSessions(c)
      BY <3>1 DEF ListSessions
    <3>2. CASE ChooseWallet(c)
      BY <3>2 DEF ChooseWallet
    <3>3. CASE RegisterWallet(c)
      <4>1. replaced' = (replaced \/ registry \notin {{}, registry'})
        BY <3>3 DEF RegisterWallet
      <4>. QED
        BY <4>1
    <3>4. CASE CreateFails(c)
      BY <3>4 DEF CreateFails, notes
    <3>. QED
      BY <3>1, <3>2, <3>3, <3>4
  <2>. QED
    BY <2>1, <2>2
<1>2. /\ creating \in [Creators -> Creation] /\ creating[c] \in Creation
      /\ registry \in FewWallets /\ replaced \in BOOLEAN /\ doubtful \in BOOLEAN
  BY DEF BindingInv, BindingTypes
<1>3. CASE ListSessions(c)
  <2>1. PICK found \in {BoundByRows(rowIds), {}} :
          creating' = [creating EXCEPT ![c] = [phase |-> "listed", listed |-> found, wallet |-> {}]]
    BY <1>3 DEF ListSessions
  <2>2. /\ registry' = registry /\ replaced' = replaced
        /\ doubtful' = (doubtful \/ \E o \in Creators : creating[o].phase # "idle")
    BY <1>3 DEF ListSessions
  <2>. DEFINE call == [phase |-> "listed", listed |-> found, wallet |-> {}]
  <2>3. call \in Creation /\ call.phase = "listed"
    <3>1. BoundByRows(rowIds) \subseteq AgentWallets
      BY DEF BoundByRows, BindingInv, BindingTypes, FewWallets
    <3>. QED
      BY <3>1 DEF Creation, CreatePhases, FewWallets
  <2>. HIDE DEF call
  <2>4. \A o \in Creators : creating'[o] = IF o = c THEN call ELSE creating[o]
    BY <1>2, <2>1 DEF call
  <2>5. BindingTypes'
    <3>1. creating' \in [Creators -> Creation]
      BY <1>2, <2>1, <2>3 DEF call
    <3>2. doubtful' \in BOOLEAN
      BY <2>2
    <3>3. \A o \in Creators :
            creating'[o].phase \in {"chosen", "registered"} => creating'[o].wallet # {}
      BY <2>3, <2>4 DEF BindingInv, BindingTypes
    <3>. QED
      BY <1>1, <2>2, <3>1, <3>2, <3>3 DEF BindingInv, BindingTypes
  <2>6. OneRegistered'
    BY <2>2, <2>3, <2>4 DEF BindingInv, OneRegistered
  <2>. QED
    BY <1>1, <2>2, <2>5, <2>6, GrowingKeeps
<1>4. CASE ChooseWallet(c)
  <2>1. PICK found \in {registry, {}} :
          /\ doubtful' = (doubtful \/ found # registry)
          /\ \E w \in IF found # {} THEN found ELSE IF creating[c].listed # {} THEN creating[c].listed
                      ELSE AgentWallets \ Provisioned :
               creating' = [creating EXCEPT ![c].phase = "chosen", ![c].wallet = {w}]
    BY <1>4 DEF ChooseWallet
  <2>2. PICK w : /\ w \in AgentWallets
                 /\ creating' = [creating EXCEPT ![c].phase = "chosen", ![c].wallet = {w}]
                 /\ found # {} => w \in found
    <3>1. found \subseteq AgentWallets /\ creating[c].listed \subseteq AgentWallets
      BY <1>2, <2>1 DEF FewWallets, Creation
    <3>. QED
      BY <2>1, <3>1
  <2>3. registry' = registry /\ replaced' = replaced /\ creating[c].phase = "listed"
    BY <1>4 DEF ChooseWallet
  <2>. DEFINE call == [creating[c] EXCEPT !.phase = "chosen", !.wallet = {w}]
  <2>4. call \in Creation /\ call.phase = "chosen" /\ call.wallet = {w}
    BY <1>2, <2>2 DEF Creation, CreatePhases, FewWallets
  <2>5. creating' = [creating EXCEPT ![c] = call]
    BY <1>2, <2>2, ZenonT(30)
  <2>. HIDE DEF call
  <2>6. \A o \in Creators : creating'[o] = IF o = c THEN call ELSE creating[o]
    BY <1>2, <2>5
  <2>7. BindingTypes'
    <3>1. creating' \in [Creators -> Creation]
      BY <1>2, <2>4, <2>5
    <3>2. doubtful' \in BOOLEAN
      BY <2>1
    <3>3. \A o \in Creators :
            creating'[o].phase \in {"chosen", "registered"} => creating'[o].wallet # {}
      BY <2>4, <2>6 DEF BindingInv, BindingTypes
    <3>. QED
      BY <1>1, <2>3, <3>1, <3>2, <3>3 DEF BindingInv, BindingTypes
  <2>8. ~doubtful' /\ registry # {} => {w} = registry
    <3>1. SUFFICES ASSUME ~doubtful', registry # {} PROVE {w} = registry
      OBVIOUS
    <3>2. found = registry /\ w \in registry
      BY <2>1, <2>2, <3>1
    <3>. QED
      BY <1>2, <3>2 DEF FewWallets
  <2>9. doubtful => doubtful'
    BY <2>1
  <2>10. OneRegistered'
    BY <2>3, <2>4, <2>6, <2>8, <2>9 DEF BindingInv, OneRegistered
  <2>. QED
    BY <1>1, <2>3, <2>7, <2>10, GrowingKeeps
<1>5. CASE RegisterWallet(c)
  <2>1. /\ creating[c].phase = "chosen" /\ registry' \in {registry, creating[c].wallet}
        /\ creating' = [creating EXCEPT ![c].phase = "registered"]
        /\ replaced' = (replaced \/ registry \notin {{}, registry'})
        /\ doubtful' = doubtful
    BY <1>5 DEF RegisterWallet
  <2>. DEFINE call == [creating[c] EXCEPT !.phase = "registered"]
  <2>2. call \in Creation /\ call.phase = "registered" /\ call.wallet = creating[c].wallet
    BY <1>2 DEF Creation, CreatePhases
  <2>3. creating' = [creating EXCEPT ![c] = call]
    BY <1>2, <2>1, ZenonT(30)
  <2>. HIDE DEF call
  <2>4. \A o \in Creators : creating'[o] = IF o = c THEN call ELSE creating[o]
    BY <1>2, <2>3
  <2>5. registry' \in FewWallets /\ creating[c].wallet # {}
    BY <1>2, <2>1 DEF Creation, BindingInv, BindingTypes
  <2>6. BindingTypes'
    <3>1. creating' \in [Creators -> Creation]
      BY <1>2, <2>2, <2>3
    <3>2. replaced' \in BOOLEAN
      BY <2>1
    <3>3. \A o \in Creators :
            creating'[o].phase \in {"chosen", "registered"} => creating'[o].wallet # {}
      BY <2>2, <2>4, <2>5 DEF BindingInv, BindingTypes
    <3>. QED
      BY <1>1, <1>2, <2>1, <2>5, <3>1, <3>2, <3>3 DEF BindingInv, BindingTypes
  <2>7. registry \subseteq registry' \/ replaced'
    BY <2>1
  <2>8. ~doubtful => (registry # {} => registry' = registry) /\ ~replaced'
    <3>1. SUFFICES ASSUME ~doubtful PROVE (registry # {} => registry' = registry) /\ ~replaced'
      OBVIOUS
    <3>2. ~replaced /\ (registry # {} => creating[c].wallet = registry)
      BY <2>1, <3>1 DEF BindingInv, OneRegistered
    <3>. QED
      BY <2>1, <3>2
  <2>9. OneRegistered'
    <3>1. ~doubtful => \A o \in Creators : creating'[o].phase # "chosen"
      BY <2>1, <2>2, <2>4 DEF BindingInv, OneRegistered
    <3>2. ~doubtful => \A o, e \in Creators :
            creating'[o].phase # "idle" /\ creating'[e].phase # "idle" => o = e
      BY <2>1, <2>4 DEF BindingInv, OneRegistered
    <3>. QED
      BY <2>1, <2>8, <3>1, <3>2 DEF OneRegistered
  <2>. QED
    BY <1>1, <2>6, <2>7, <2>9, GrowingKeeps
<1>6. CASE CreateFails(c)
  <2>. DEFINE call == [phase |-> "idle", listed |-> {}, wallet |-> {}]
  <2>1. creating' = [creating EXCEPT ![c] = call] /\ registry' = registry
        /\ replaced' = replaced /\ doubtful' = doubtful
    BY <1>6 DEF CreateFails, notes
  <2>2. call \in Creation /\ call.phase = "idle"
    BY DEF Creation, CreatePhases, FewWallets
  <2>. HIDE DEF call
  <2>3. \A o \in Creators : creating'[o] = IF o = c THEN call ELSE creating[o]
    BY <1>2, <2>1
  <2>4. BindingTypes'
    <3>1. creating' \in [Creators -> Creation]
      BY <1>2, <2>1, <2>2
    <3>. QED
      BY <1>1, <2>1, <2>2, <2>3, <3>1 DEF BindingInv, BindingTypes
  <2>5. OneRegistered'
    BY <2>1, <2>2, <2>3 DEF BindingInv, OneRegistered
  <2>. QED
    BY <1>1, <2>1, <2>4, <2>5, GrowingKeeps
<1>. QED
  BY <1>3, <1>4, <1>5, <1>6

(* A session gets its row.                                                   *)
LEMMA InsertingKeeps ==
  ASSUME BindingInv, NEW c \in Creators, InsertSession(c)
  PROVE  /\ BindingInv' /\ rowIds \subseteq rowIds'
         /\ \A s \in SessionIds : bound[s] # {} => bound'[s] = bound[s]
<1>. DEFINE call == [phase |-> "idle", listed |-> {}, wallet |-> {}]
<1>1. PICK s \in SessionIds :
        /\ bound[s] = {}
        /\ \/ rowIds' = rowIds \union {s} /\ bound' = [bound EXCEPT ![s] = creating[c].wallet]
           \/ rowIds' = rowIds /\ bound' = bound
  BY DEF InsertSession
<1>2. /\ creating' = [creating EXCEPT ![c] = call] /\ creating[c].phase = "registered"
      /\ registry' = registry /\ deleting' = deleting /\ opsLock' = opsLock
      /\ replaced' = replaced /\ doubtful' = doubtful
  BY DEF InsertSession, notes
<1>3. /\ creating \in [Creators -> Creation] /\ bound \in [SessionIds -> FewWallets]
      /\ creating[c].wallet \in FewWallets /\ creating[c].wallet # {}
  BY <1>2 DEF BindingInv, BindingTypes, Creation
<1>4. call \in Creation /\ call.phase = "idle"
  BY DEF Creation, CreatePhases, FewWallets
<1>. HIDE DEF call
<1>5. \A o \in Creators : creating'[o] = IF o = c THEN call ELSE creating[o]
  BY <1>2, <1>3
<1>6. /\ rowIds \subseteq rowIds' /\ rowIds' \subseteq rowIds \union {s}
      /\ bound' \in [SessionIds -> FewWallets]
      /\ \A t \in SessionIds : bound[t] # {} => bound'[t] = bound[t]
      /\ s \in rowIds' => bound'[s] # {} \/ s \in rowIds
  BY <1>1, <1>3
<1>7. BindingTypes'
  <2>1. creating' \in [Creators -> Creation]
    BY <1>2, <1>3, <1>4
  <2>2. \A t \in rowIds' : t \in SessionIds /\ bound'[t] # {}
    BY <1>6 DEF BindingInv, BindingTypes
  <2>3. \A d \in Deleters : \A t \in deleting'[d].id : bound'[t] # {}
    <3>. SUFFICES ASSUME NEW d \in Deleters, NEW t \in deleting[d].id PROVE bound'[t] # {}
      BY <1>2
    <3>1. t \in SessionIds /\ bound[t] # {}
      BY DEF BindingInv, BindingTypes, Deletion
    <3>. QED
      BY <1>6, <3>1
  <2>4. \A o \in Creators :
          creating'[o].phase \in {"chosen", "registered"} => creating'[o].wallet # {}
    BY <1>4, <1>5 DEF BindingInv, BindingTypes
  <2>5. rowIds' \subseteq SessionIds
    BY <2>2
  <2>. QED
    BY <1>2, <1>6, <2>1, <2>2, <2>3, <2>4, <2>5 DEF BindingInv, BindingTypes
<1>8. OneRegistered'
  BY <1>2, <1>4, <1>5 DEF BindingInv, OneRegistered
<1>9. BindingInv'
  BY <1>2, <1>6, <1>7, <1>8, GrowingKeeps
<1>. QED
  BY <1>6, <1>9

(* A deletion moves; nothing is created meanwhile.                           *)
LEMMA DeletingKeeps ==
  ASSUME BindingInv, NEW d \in Deleters, NEW went \in Deletion,
         deleting' = [deleting EXCEPT ![d] = went],
         UNCHANGED <<bound, registry, creating, notes>>,
         rowIds' = rowIds \/ (opsLock = {d} /\ rowIds' = rowIds \ deleting[d].id),
         \A s \in went.id : bound[s] # {},
         \/ opsLock' = {d} /\ opsLock \in {{}, {d}}
         \/ opsLock' = {} /\ opsLock = {d} /\ went.phase = "idle"
         \/ opsLock' = opsLock /\ went.phase \in {"idle", "loaded"},
         went.phase = "delete" =>
           /\ rowIds' = rowIds
           /\ \/ went.sawEmpty \/ UNION {bound[s] : s \in went.id} \subseteq registry
              \/ UNION {bound[s] : s \in went.id} \subseteq BoundByRows(rowIds \ went.id)
  PROVE  BindingInv'
<1>1. deleting \in [Deleters -> Deletion]
  BY DEF BindingInv, BindingTypes
<1>2. \A e \in Deleters : deleting'[e] = IF e = d THEN went ELSE deleting[e]
  BY <1>1
<1>3. /\ bound' = bound /\ registry' = registry /\ creating' = creating
      /\ doubtful' = doubtful /\ replaced' = replaced /\ rowIds' \subseteq rowIds
  BY DEF notes
<1>4. BindingTypes'
  <2>1. deleting' \in [Deleters -> Deletion]
    BY <1>1
  <2>2. \A e \in Deleters : \A s \in deleting'[e].id : bound[s] # {}
    BY <1>2 DEF BindingInv, BindingTypes
  <2>. QED
    BY <1>3, <2>1, <2>2 DEF BindingInv, BindingTypes
<1>5. OneRegistered'
  BY <1>3 DEF BindingInv, OneRegistered
<1>6. ASSUME NEW e \in Deleters, e # d, deleting[e].phase \in {"others", "funds", "delete"}
      PROVE  opsLock = {e} /\ opsLock' = {e} /\ rowIds' = rowIds
  <2>1. opsLock = {e} /\ opsLock # {d} /\ opsLock # {}
    BY <1>6 DEF BindingInv, OneDeletes
  <2>. QED
    BY <2>1
<1>7. OneDeletes'
  <2>. SUFFICES ASSUME NEW e \in Deleters, deleting'[e].phase \in {"others", "funds", "delete"}
                PROVE  opsLock' = {e}
    BY DEF OneDeletes
  <2>1. CASE e = d
    BY <1>2, <2>1
  <2>2. CASE e # d
    BY <1>2, <1>6, <2>2
  <2>. QED
    BY <2>1, <2>2
<1>8. Relied'
  <2>. SUFFICES ASSUME NEW e \in Deleters, deleting'[e].phase = "delete",
                       ~deleting'[e].sawEmpty, ~replaced
                PROVE  \/ WalletOf(e)' \subseteq registry
                       \/ WalletOf(e)' \subseteq BoundByRows(rowIds \ deleting[e].id)'
    BY <1>2, <1>3 DEF Relied, WalletOf, BoundByRows
  <2>1. CASE e = d
    <3>1. WalletOf(e)' = UNION {bound[s] : s \in went.id} /\ deleting'[e] = went
      BY <1>2, <1>3, <2>1 DEF WalletOf
    <3>. QED
      BY <1>3, <2>1, <3>1 DEF BoundByRows
  <2>2. CASE e # d
    <3>1. deleting'[e] = deleting[e] /\ WalletOf(e)' = WalletOf(e) /\ rowIds' = rowIds
      BY <1>2, <1>3, <1>6, <2>2 DEF WalletOf
    <3>. QED
      BY <1>3, <3>1 DEF BindingInv, Relied, BoundByRows
  <2>. QED
    BY <2>1, <2>2
<1>. QED
  BY <1>4, <1>5, <1>7, <1>8 DEF BindingInv

(* Every step of a deletion.                                                 *)
LEMMA DeletionKeeps ==
  ASSUME BindingInv, NEW d \in Deleters,
         \/ LoadSession(d) \/ CheckRegistry(d) \/ CheckOthers(d) \/ CheckFunds(d) \/ DeleteRow(d)
  PROVE  BindingInv'
<1>. DEFINE call == deleting[d]
            idle == [phase |-> "idle", id |-> {}, sawEmpty |-> FALSE]
<1>1. /\ deleting \in [Deleters -> Deletion] /\ call \in Deletion
      /\ \A s \in call.id : bound[s] # {}
      /\ rowIds \subseteq SessionIds /\ \A s \in rowIds : bound[s] # {}
      /\ call.phase \in {"others", "funds", "delete"} => opsLock = {d}
  BY DEF BindingInv, BindingTypes, OneDeletes
<1>2. ASSUME NEW phase \in DeletePhases, At(d, phase)
      PROVE  \E went \in Deletion :
               /\ deleting' = [deleting EXCEPT ![d] = went]
               /\ went.phase = phase /\ went.id = call.id /\ went.sawEmpty = call.sawEmpty
  <2>. DEFINE went == [call EXCEPT !.phase = phase]
  <2>1. /\ went \in Deletion /\ went.phase = phase /\ went.id = call.id
        /\ went.sawEmpty = call.sawEmpty
    BY <1>1 DEF Deletion
  <2>2. deleting' = [deleting EXCEPT ![d] = went]
    BY <1>1, <1>2, ZenonT(30) DEF At
  <2>. QED
    BY <2>1, <2>2
<1>3. idle \in Deletion /\ idle.phase = "idle" /\ idle.id = {}
  BY DEF Deletion, DeletePhases
<1>4. CASE LoadSession(d)
  <2>1. PICK s \in rowIds :
          deleting' = [deleting EXCEPT ![d] = [phase |-> "loaded", id |-> {s}, sawEmpty |-> FALSE]]
    BY <1>4 DEF LoadSession
  <2>. DEFINE went == [phase |-> "loaded", id |-> {s}, sawEmpty |-> FALSE]
  <2>2. went \in Deletion /\ went.phase = "loaded" /\ went.id = {s}
    BY <1>1 DEF Deletion, DeletePhases
  <2>3. deleting' = [deleting EXCEPT ![d] = went]
    BY <2>1
  <2>4. UNCHANGED <<bound, registry, creating, notes>> /\ rowIds' = rowIds /\ opsLock' = opsLock
    BY <1>4 DEF LoadSession
  <2>. HIDE DEF went
  <2>. QED
    BY <1>1, <2>2, <2>3, <2>4, DeletingKeeps
<1>5. CASE CheckRegistry(d)
  <2>1. /\ UNCHANGED <<bound, registry, creating, notes>> /\ rowIds' = rowIds
        /\ opsLock = {} /\ opsLock' = {d}
    BY <1>5 DEF CheckRegistry
  <2>2. PICK phase \in {"delete", "others"} :
          At(d, phase) /\ (phase = "delete" => WalletOf(d) \subseteq registry)
    BY <1>5 DEF CheckRegistry
  <2>3. PICK went \in Deletion :
          /\ deleting' = [deleting EXCEPT ![d] = went]
          /\ went.phase = phase /\ went.id = call.id /\ went.sawEmpty = call.sawEmpty
    BY <1>2, <2>2 DEF DeletePhases
  <2>4. went.phase = "delete" => UNION {bound[s] : s \in went.id} \subseteq registry
    BY <2>2, <2>3 DEF WalletOf
  <2>. QED
    BY <1>1, <2>1, <2>3, <2>4, DeletingKeeps
<1>6. CASE CheckOthers(d)
  <2>1. /\ UNCHANGED <<bound, registry, creating, notes>> /\ rowIds' = rowIds
        /\ opsLock = {d} /\ opsLock' = {d}
    BY <1>1, <1>6 DEF CheckOthers
  <2>2. PICK phase \in {"delete", "funds"} :
          /\ At(d, phase)
          /\ phase = "delete" => WalletOf(d) \subseteq BoundByRows(rowIds \ call.id)
    BY <1>6 DEF CheckOthers
  <2>3. PICK went \in Deletion :
          /\ deleting' = [deleting EXCEPT ![d] = went]
          /\ went.phase = phase /\ went.id = call.id /\ went.sawEmpty = call.sawEmpty
    BY <1>2, <2>2 DEF DeletePhases
  <2>4. went.phase = "delete" =>
          UNION {bound[s] : s \in went.id} \subseteq BoundByRows(rowIds \ went.id)
    BY <2>2, <2>3 DEF WalletOf
  <2>. QED
    BY <1>1, <2>1, <2>3, <2>4, DeletingKeeps
<1>7. CASE CheckFunds(d)
  <2>1. /\ UNCHANGED <<bound, registry, creating, notes>> /\ rowIds' = rowIds
        /\ opsLock = {d}
    BY <1>1, <1>7 DEF CheckFunds
  <2>2. CASE /\ deleting' = [deleting EXCEPT ![d].phase = "delete", ![d].sawEmpty = TRUE]
             /\ UNCHANGED opsLock
    <3>. DEFINE went == [call EXCEPT !.phase = "delete", !.sawEmpty = TRUE]
    <3>1. went \in Deletion /\ went.sawEmpty /\ went.id = call.id
      BY <1>1 DEF Deletion, DeletePhases
    <3>2. deleting' = [deleting EXCEPT ![d] = went]
      BY <1>1, <2>2, ZenonT(30)
    <3>. HIDE DEF went
    <3>3. \A s \in went.id : bound[s] # {}
      BY <1>1, <3>1
    <3>4. opsLock' = {d} /\ opsLock \in {{}, {d}}
      BY <2>1, <2>2
    <3>. QED
      BY <2>1, <3>1, <3>2, <3>3, <3>4, DeletingKeeps
  <2>3. CASE Leave(d)
    <3>1. deleting' = [deleting EXCEPT ![d] = idle] /\ opsLock' = {}
      BY <2>3 DEF Leave
    <3>. HIDE DEF idle
    <3>. QED
      BY <1>1, <1>3, <2>1, <3>1, DeletingKeeps
  <2>. QED
    BY <1>7, <2>2, <2>3 DEF CheckFunds
<1>8. CASE DeleteRow(d)
  <2>1. /\ UNCHANGED <<bound, registry, creating, notes>> /\ opsLock = {d}
        /\ rowIds' = rowIds \/ rowIds' = rowIds \ call.id
    BY <1>1, <1>8 DEF DeleteRow
  <2>2. deleting' = [deleting EXCEPT ![d] = idle] /\ opsLock' = {}
    BY <1>8 DEF DeleteRow, Leave
  <2>. HIDE DEF idle
  <2>. QED
    BY <1>1, <1>3, <2>1, <2>2, DeletingKeeps
<1>. QED
  BY <1>4, <1>5, <1>6, <1>7, <1>8

(* A restart leaves rows, registry and wallets.                              *)
LEMMA RestartKeeps ==
  ASSUME BindingInv, BindingRestart
  PROVE  BindingInv'
<1>. DEFINE call == [phase |-> "idle", listed |-> {}, wallet |-> {}]
            went == [phase |-> "idle", id |-> {}, sawEmpty |-> FALSE]
<1>1. /\ creating' = [c \in Creators |-> call] /\ deleting' = [d \in Deleters |-> went]
      /\ bound' = bound /\ rowIds' = rowIds /\ registry' = registry
      /\ doubtful' = doubtful /\ replaced' = replaced
  BY DEF BindingRestart, notes
<1>2. call \in Creation /\ call.phase = "idle" /\ went \in Deletion /\ went.phase = "idle"
      /\ went.id = {}
  BY DEF Creation, CreatePhases, FewWallets, Deletion, DeletePhases
<1>. HIDE DEF call, went
<1>3. /\ \A c \in Creators : creating'[c].phase = "idle"
      /\ \A d \in Deleters : deleting'[d].phase = "idle" /\ deleting'[d].id = {}
  BY <1>1, <1>2
<1>4. BindingTypes'
  <2>1. creating' \in [Creators -> Creation] /\ deleting' \in [Deleters -> Deletion]
    BY <1>1, <1>2
  <2>. QED
    BY <1>1, <1>3, <2>1 DEF BindingInv, BindingTypes
<1>5. OneDeletes' /\ Relied' /\ OneRegistered'
  BY <1>1, <1>3 DEF BindingInv, OneDeletes, Relied, OneRegistered
<1>. QED
  BY <1>4, <1>5 DEF BindingInv

LEMMA BindingStep == BindingInv /\ [BindingNext]_bindingVars => BindingInv'
<1>. SUFFICES ASSUME BindingInv, [BindingNext]_bindingVars PROVE BindingInv'
  OBVIOUS
<1>1. ASSUME NEW c \in Creators,
             \/ ListSessions(c) \/ ChooseWallet(c) \/ RegisterWallet(c)
             \/ InsertSession(c) \/ CreateFails(c)
      PROVE  BindingInv'
  BY <1>1, CreatingKeeps, InsertingKeeps
<1>2. ASSUME NEW d \in Deleters,
             \/ LoadSession(d) \/ CheckRegistry(d) \/ CheckOthers(d)
             \/ CheckFunds(d) \/ DeleteRow(d)
      PROVE  BindingInv'
  BY <1>2, DeletionKeeps
<1>3. CASE FundWallet \/ EmptyWallet \/ UNCHANGED bindingVars
  <2>1. UNCHANGED <<bound, rowIds, registry, creating, deleting, opsLock, doubtful, replaced>>
    BY <1>3 DEF FundWallet, EmptyWallet, bindingVars, notes
  <2>2. BindingTypes' /\ OneRegistered'
    BY <2>1 DEF BindingInv, BindingTypes, OneRegistered
  <2>. QED
    BY <2>1, <2>2, GrowingKeeps
<1>4. CASE BindingRestart
  BY <1>4, RestartKeeps
<1>. QED
  BY <1>1, <1>2, <1>3, <1>4 DEF BindingNext

(* Only a registration drops a wallet from the registry, and only a deletion *)
(* from the rows.                                                            *)
LEMMA LostBy ==
  ASSUME BindingInv, [BindingNext]_bindingVars, NEW w, Bound(w), ~Bound(w)'
  PROVE  \/ replaced'
         \/ \E d \in Deleters : deleting[d].sawEmpty /\ w \in WalletOf(d)
<1>1. ASSUME UNCHANGED registry, rowIds \subseteq rowIds',
             \A s \in SessionIds : bound[s] # {} => bound'[s] = bound[s]
      PROVE  FALSE
  <2>1. w \notin registry
    BY <1>1 DEF Bound
  <2>2. PICK s \in rowIds : w \in bound[s]
    BY <2>1 DEF Bound, BoundByRows
  <2>3. s \in SessionIds /\ s \in rowIds' /\ w \in bound'[s]
    BY <1>1, <2>2 DEF BindingInv, BindingTypes
  <2>. QED
    BY <2>3 DEF Bound, BoundByRows
<1>2. ASSUME UNCHANGED <<registry, rowIds, bound>>
      PROVE  FALSE
  BY <1>2 DEF Bound, BoundByRows
<1>3. ASSUME NEW c \in Creators, ListSessions(c) \/ ChooseWallet(c) \/ CreateFails(c)
      PROVE  FALSE
  BY <1>2, <1>3 DEF ListSessions, ChooseWallet, CreateFails
<1>4. ASSUME NEW c \in Creators, InsertSession(c)
      PROVE  FALSE
  <2>1. UNCHANGED registry
    BY <1>4 DEF InsertSession
  <2>. QED
    BY <1>1, <1>4, <2>1, InsertingKeeps
<1>5. ASSUME NEW c \in Creators, RegisterWallet(c)
      PROVE  replaced'
  <2>1. /\ UNCHANGED <<bound, rowIds>> /\ registry \in FewWallets
        /\ replaced' = (replaced \/ registry \notin {{}, registry'})
    BY <1>5 DEF RegisterWallet, BindingInv, BindingTypes
  <2>2. registry # registry' /\ registry # {}
    BY <2>1 DEF Bound, BoundByRows
  <2>. QED
    BY <2>1, <2>2
<1>6. ASSUME NEW d \in Deleters, LoadSession(d) \/ CheckRegistry(d) \/ CheckOthers(d) \/ CheckFunds(d)
      PROVE  FALSE
  BY <1>2, <1>6 DEF LoadSession, CheckRegistry, CheckOthers, CheckFunds
<1>7. ASSUME NEW d \in Deleters, DeleteRow(d)
      PROVE  replaced' \/ (deleting[d].sawEmpty /\ w \in WalletOf(d))
  <2>1. /\ UNCHANGED <<bound, registry>> /\ replaced' = replaced
        /\ deleting[d].phase = "delete" /\ rowIds \ deleting[d].id \subseteq rowIds'
    BY <1>7 DEF DeleteRow, notes
  <2>2. \A s \in rowIds' : w \notin bound[s]
    BY <2>1 DEF Bound, BoundByRows
  <2>3. w \notin registry
    BY <2>1 DEF Bound
  <2>4. PICK s \in rowIds : w \in bound[s]
    BY <2>3 DEF Bound, BoundByRows
  <2>5. s \in deleting[d].id /\ w \in WalletOf(d)
    BY <2>1, <2>2, <2>4 DEF WalletOf
  <2>6. w \notin BoundByRows(rowIds \ deleting[d].id)
    BY <2>1, <2>2 DEF BoundByRows
  <2>. QED
    BY <2>1, <2>3, <2>5, <2>6 DEF BindingInv, Relied
<1>8. CASE FundWallet \/ EmptyWallet \/ BindingRestart \/ UNCHANGED bindingVars
  BY <1>2, <1>8 DEF FundWallet, EmptyWallet, BindingRestart, bindingVars
<1>. QED
  BY <1>3, <1>4, <1>5, <1>6, <1>7, <1>8 DEF BindingNext

(* Unless another wallet was registered over it, a wallet that holds USDC    *)
(* loses its last binding only to a deletion that found it empty before; and *)
(* one is registered over another only if two creations ran at once or one   *)
(* failed to read the registry (create_session and delete_session of         *)
(* sessions.py).                                                             *)
THEOREM BoundWhileFunded == BindingSpec => FundsStayBound
<1>1. BindingInit => BindingInv
  <2>. SUFFICES ASSUME BindingInit PROVE BindingInv
    OBVIOUS
  <2>1. [phase |-> "idle", listed |-> {}, wallet |-> {}] \in Creation
    BY DEF Creation, CreatePhases, FewWallets
  <2>2. [phase |-> "idle", id |-> {}, sawEmpty |-> FALSE] \in Deletion
    BY DEF Deletion, DeletePhases
  <2>3. BindingTypes
    BY <2>1, <2>2 DEF BindingInit, BindingTypes, FewWallets
  <2>. QED
    BY <2>3 DEF BindingInv, BindingInit, OneDeletes, Relied, OneRegistered
<1>2. ASSUME BindingInv, BindingInv', [BindingNext]_bindingVars
      PROVE  /\ ~replaced' => \A w \in funded : Bound(w) =>
                  \/ Bound(w)'
                  \/ \E d \in Deleters : deleting[d].sawEmpty /\ w \in WalletOf(d)
             /\ replaced' => doubtful'
  BY <1>2, LostBy DEF BindingInv, OneRegistered
<1>. QED
  BY <1>1, <1>2, BindingStep, PTL DEF BindingSpec, FundsStayBound
=============================================================================
