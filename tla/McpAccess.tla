----------------------------- MODULE McpAccess -----------------------------
(* One MCP connection: a registered client that a wallet approves, the codes *)
(* and tokens it is given, its revocation, and the purchases its tools make  *)
(* within the caps of the connection (services/mcp_oauth.py,                 *)
(* endpoints/oauth.py, mcp_server/server.py).  The OAuth endpoints run in    *)
(* threads, so their requests to the database interleave; the tools run on   *)
(* the event loop and give way only where they await.                        *)
EXTENDS Naturals, Sequences, FiniteSets, Functions

CONSTANTS Approvals,  \* requests to approve the client, each with its code
          Purchases,  \* calls of qma_query_market_memory, all of one symbol
          Prices,     \* the max_price_usdc a call may name, 0 for none
          MaxPrice,   \* caps.max_price_usdc, 0 for none
          Budget      \* caps.budget_usdc

ASSUME McpAssumption ==
  /\ IsFiniteSet(Approvals) /\ IsFiniteSet(Purchases)
  /\ Prices \subseteq Nat /\ MaxPrice \in Nat /\ Budget \in Nat

VARIABLES connection, \* status of the row in mcp_connections
          approval,   \* where each approval stands
          code,       \* the row of each approval in mcp_auth_codes
          issued,     \* codes exchanged for an access token
          revoke,     \* where the revocation stands
          raced,      \* an approval was under way when the row was revoked
          purchase,   \* each purchase: its place, session budget and price paid
          newest,     \* purchases in the order their entitlements were granted
          spendLedger, \* mcp_spend_ledger: amount by entitlement
          uncounted   \* a purchase was admitted while another was not counted

grantVars == <<connection, approval, code, issued, revoke, raced>>
buyVars == <<purchase, newest, spendLedger, uncounted>>
mcpVars == <<grantVars, buyVars>>

McpTypeOK ==
  /\ connection \in {"active", "revoked"}
  /\ approval \in [Approvals -> {"idle", "loaded", "bound", "done"}]
  /\ code \in [Approvals -> {"none", "open", "used", "deleted"}]
  /\ issued \subseteq Approvals
  /\ revoke \in {"idle", "found", "patched", "answered"}
  /\ raced \in BOOLEAN /\ uncounted \in BOOLEAN
  /\ purchase \in [Purchases -> [at: {"idle", "checked", "running", "bought", "over"},
                                 budget: Nat, paid: Nat]]
  /\ DOMAIN newest = 1..Len(newest) /\ \A i \in DOMAIN newest: newest[i] \in Purchases
  /\ spendLedger \in [Purchases -> Nat]

McpInit ==
  /\ connection = "active" /\ approval = [a \in Approvals |-> "idle"]
  /\ code = [a \in Approvals |-> "none"] /\ issued = {}
  /\ revoke = "idle" /\ raced = FALSE
  /\ purchase = [p \in Purchases |-> [at |-> "idle", budget |-> 0, paid |-> 0]]
  /\ newest = <<>> /\ spendLedger = [p \in Purchases |-> 0] /\ uncounted = FALSE

----------------------------------------------------------------------------
(* Approval, exchange and revocation.                                        *)

(* Mutant: a revoked client is approved.                                     *)
LoadClientAny(a) ==
  /\ approval[a] = "idle"
  /\ approval' = [approval EXCEPT ![a] = "loaded"]
  /\ UNCHANGED <<connection, code, issued, revoke, raced, buyVars>>

(* oauth_approve loads the client twice; the second load decides.            *)
LoadClient(a) ==
  /\ approval[a] = "idle" /\ connection = "active"
  /\ approval' = [approval EXCEPT ![a] = "loaded"]
  /\ UNCHANGED <<connection, code, issued, revoke, raced, buyVars>>

BindConnection(a) ==
  /\ approval[a] = "loaded"
  /\ connection' = "active"
  /\ approval' = [approval EXCEPT ![a] = "bound"]
  /\ UNCHANGED <<code, issued, revoke, raced, buyVars>>

CreateCode(a) ==
  /\ approval[a] = "bound"
  /\ code' = [code EXCEPT ![a] = "open"]
  /\ approval' = [approval EXCEPT ![a] = "done"]
  /\ UNCHANGED <<connection, issued, revoke, raced, buyVars>>

(* oauth_token: the access token, unless the verifier or the grant is bad.   *)
Exchanged(a) == {issued, issued \union {a}}

(* The conditional PATCH uses the code up before its verifier is checked.    *)
RedeemCode(a) ==
  /\ code[a] = "open"
  /\ code' = [code EXCEPT ![a] = "used"]
  /\ issued' \in Exchanged(a)
  /\ UNCHANGED <<connection, approval, revoke, raced, buyVars>>

(* The connection belongs to the wallet of an approval that bound it.        *)
FindConnection ==
  /\ revoke = "idle" /\ \E a \in Approvals: approval[a] \in {"bound", "done"}
  /\ revoke' = "found"
  /\ UNCHANGED <<connection, approval, code, issued, raced, buyVars>>

RevokeConnection ==
  /\ revoke = "found"
  /\ connection' = "revoked" /\ revoke' = "patched"
  /\ raced' = \E a \in Approvals: approval[a] \in {"loaded", "bound"}
  /\ UNCHANGED <<approval, code, issued, buyVars>>

DeleteCodes ==
  /\ revoke = "patched"
  /\ code' = [a \in Approvals |-> IF code[a] = "none" THEN "none" ELSE "deleted"]
  /\ revoke' = "answered"
  /\ UNCHANGED <<connection, approval, issued, raced, buyVars>>

----------------------------------------------------------------------------
(* Purchases.                                                                *)

SpentOn(spent) == FoldFunction(+, 0, spent)

PriceCap(requested) ==
  IF requested # 0 /\ MaxPrice # 0 /\ MaxPrice < requested THEN MaxPrice
  ELSE IF requested # 0 THEN requested ELSE MaxPrice

(* The bearer token verifies, and require_connection finds the row active.   *)
Authorised == issued # {} /\ connection = "active"

(* Mutant: only what was spent is compared with the budget.                  *)
AdmittedSpent(cap, spent) == cap # 0 /\ spent < Budget

(* spent_for_connection and the check of the caps.                           *)
Admitted(cap, spent) == /\ cap # 0 /\ spent < Budget /\ cap + spent <= Budget

(* A purchase that still may pay, or paid more than the ledger counts.       *)
Uncounted(p) ==
  \/ purchase[p].at \in {"checked", "running"}
  \/ spendLedger[p] < purchase[p].paid

CheckBudget(p, requested) ==
  /\ purchase[p].at = "idle" /\ Authorised
  /\ Admitted(PriceCap(requested), SpentOn(spendLedger))
  /\ purchase' = [purchase EXCEPT ![p].at = "checked", ![p].budget = PriceCap(requested)]
  /\ uncounted' = (uncounted \/ \E q \in Purchases: Uncounted(q))
  /\ UNCHANGED <<grantVars, newest, spendLedger>>

StartPurchase(p) ==
  /\ purchase[p].at = "checked"
  /\ purchase' = [purchase EXCEPT ![p].at = "running"]
  /\ UNCHANGED <<grantVars, newest, spendLedger, uncounted>>

(* The worker of the session: one payment within the session's budget.       *)
SessionBuys(p) ==
  /\ purchase[p].at = "running"
  /\ \E price \in 1..purchase[p].budget:
       purchase' = [purchase EXCEPT ![p].at = "bought", ![p].paid = price]
  /\ newest' = <<p>> \o newest
  /\ UNCHANGED <<grantVars, spendLedger, uncounted>>

SessionFails(p) ==
  /\ purchase[p].at = "running"
  /\ purchase' = [purchase EXCEPT ![p].at = "over"]
  /\ UNCHANGED <<grantVars, newest, spendLedger, uncounted>>

(* _await_session: the newest entitlement of the symbol is taken for the     *)
(* session's, and counted once, with the price of this session.              *)
Recorded(p) ==
  spendLedger' = IF spendLedger[newest[1]] # 0 THEN spendLedger
                 ELSE [spendLedger EXCEPT ![newest[1]] = purchase[p].paid]

(* The buying tool finds the session completed within its 40 seconds.        *)
CollectPurchase(p) ==
  /\ purchase[p].at = "bought" /\ Recorded(p)
  /\ purchase' = [purchase EXCEPT ![p].at = "over"]
  /\ UNCHANGED <<grantVars, newest, uncounted>>

(* qma_get_purchase, as often as it is called.                               *)
GetPurchase(p) ==
  /\ Authorised /\ purchase[p].paid # 0 /\ Recorded(p)
  /\ purchase' = [purchase EXCEPT ![p].at = "over"]
  /\ UNCHANGED <<grantVars, newest, uncounted>>

McpNext ==
  \/ \E a \in Approvals: \/ LoadClient(a) \/ BindConnection(a)
                         \/ CreateCode(a) \/ RedeemCode(a)
  \/ FindConnection \/ RevokeConnection \/ DeleteCodes
  \/ \E p \in Purchases: \/ \E r \in Prices: CheckBudget(p, r)
                         \/ StartPurchase(p) \/ SessionBuys(p) \/ SessionFails(p)
                         \/ CollectPurchase(p) \/ GetPurchase(p)

McpSpec == McpInit /\ [][McpNext]_mcpVars

----------------------------------------------------------------------------
(* Once a revocation is answered the connection stays revoked and no code is *)
(* left to redeem, unless an approval had loaded the client before the row   *)
(* was revoked: that approval makes the connection active again, or leaves   *)
(* an open code (oauth.py, oauth_revoke and oauth_approve).                  *)
RevocationHolds ==
  revoke = "answered" /\ ~raced =>
    connection = "revoked" /\ \A a \in Approvals: code[a] # "open"

(* The purchases of a connection stay within its budget as long as each one  *)
(* was counted in full before the next was admitted: the caps are compared   *)
(* with the ledger only, which is written when a report is collected         *)
(* (server.py, qma_query_market_memory and _await_session).                  *)
CapsHoldWhenCounted ==
  ~uncounted => SpentOn([p \in Purchases |-> purchase[p].paid]) <= Budget
=============================================================================
