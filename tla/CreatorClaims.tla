--------------------------- MODULE CreatorClaims ---------------------------
(***************************************************************************)
(* A creator's claims on the earnings of the providers the creator owns:   *)
(* create_creator_claim of the back end, the claim ledger it debits, and   *)
(* the payout route of the sidecar, which makes the transfer.              *)
(*                                                                         *)
(* The part that checks and debits runs under creator_claim_lock and the   *)
(* cross-process lock, so it is one action; the payout is a request made   *)
(* after both are let go.  The request may be answered, refused, time out  *)
(* or lose its answer, and the sidecar may still carry it out after the    *)
(* back end gave up on it.  Sales whose creator share is paid              *)
(* automatically by the verdict settlement are not claimable.              *)
(***************************************************************************)
EXTENDS Integers, FiniteSets, FiniteSetsExt

CONSTANTS
  Claims,          \* claim ids, random: one per accepted request
  ClaimNonces,     \* nonces a creator signs
  Providers,       \* the creator's providers, in the order they are debited
  Sales,           \* settled sales
  SaleOf,          \* the provider and the creator's share of each sale
  Automatic,       \* sales with an automatic payout
  SeenLimit,       \* size at which the replay cache is cleared (10000)
  ReadLimit,       \* claims a read of the ledger returns (500)
  LedgerReadFails  \* the read of the claim ledger may fail

ASSUME ClaimsAssumption ==
  /\ Claims \subseteq Nat /\ IsFiniteSet(Claims)
  /\ Providers \subseteq Nat /\ IsFiniteSet(Providers)
  /\ SaleOf \in [Sales -> [provider: Providers, share: Nat]] /\ IsFiniteSet(Sales)
  /\ Automatic \subseteq Sales

VARIABLES
  claim,     \* qma_creator_claims: status, nonce and allocations of each claim
  seen,      \* seen_claim_nonces, in process memory
  calling,   \* claims whose payout request the back end waits for
  posted,    \* payout requests the sidecar has not dealt with
  sent,      \* claims whose USDC the treasury wallet has sent
  final,     \* sales whose settlement is final
  paidOut    \* sales whose automatic payout was made

claimVars == <<claim, seen, calling, posted, sent, final, paidOut>>

NoClaim == [status |-> "none", nonce |-> "none", alloc |-> [p \in Providers |-> 0]]

ClaimInit ==
  /\ claim = [c \in Claims |-> NoClaim]
  /\ seen = {}
  /\ calling = {} /\ posted = {} /\ sent = {}
  /\ final = {} /\ paidOut = {}

\* Mutant: an unknown payout is given back.
ReservedKnown(c) == claim[c].status \in {"requested", "paid"}

\* CLAIM_RESERVED_STATUSES: an unknown payout keeps its debit.
Reserved(c) == claim[c].status \in {"requested", "paid", "unknown"}

\* What a read of the ledger returns: the claims with the least ids, and none
\* of them when the query fails.
LedgerReads ==
  LET ledger == {c \in Claims : claim[c].status # "none"}
  IN {{c \in ledger : Cardinality({d \in ledger : d < c}) < ReadLimit}}
       \cup (IF LedgerReadFails THEN {{}} ELSE {})

ShareOf(p, sales) ==
  MapThenSumSet(LAMBDA s : SaleOf[s].share, {s \in sales : SaleOf[s].provider = p})
DebitOf(p, claims) == MapThenSumSet(LAMBDA c : claim[c].alloc[p], claims)

\* build_provider_stats: final earnings without those an automatic payout
\* reserves, less the debits of the records read.
Claimable(p, read) ==
  Max({0, ShareOf(p, final \ Automatic) - DebitOf(p, {c \in read : Reserved(c)})})

\* allocate_creator_claim: the providers are debited in order.
Allocation(amount, read) ==
  [p \in Providers |->
    LET before == MapThenSumSet(LAMBDA q : Claimable(q, read), {q \in Providers : q < p})
    IN Max({0, Min({Claimable(p, read), amount - before})})]

Accepted(c, n, amount, read) ==
  /\ amount <= MapThenSumSet(LAMBDA p : Claimable(p, read), Providers)
  /\ \A d \in Claims : claim[d].nonce # n          \* idx_creator_claims_wallet_nonce
  /\ claim' = [claim EXCEPT ![c] =
       [status |-> "requested", nonce |-> n, alloc |-> Allocation(amount, read)]]
  /\ calling' = calling \cup {c}

\* create_creator_claim up to the payout request.  The nonce is spent before
\* anything else is looked at; a claim that cannot be covered or saved, or whose
\* nonce the ledger has, is refused and leaves the ledger alone.
CreateClaim(c, n, amount) ==
  /\ claim[c].status = "none"
  /\ n \notin seen
  /\ seen' = {n} \cup (IF Cardinality(seen) > SeenLimit THEN {} ELSE seen)
  /\ \/ \E read \in LedgerReads : Accepted(c, n, amount, read)
     \/ UNCHANGED <<claim, calling>>
  /\ UNCHANGED <<posted, sent, final, paidOut>>

\* requests.post to the sidecar.
PostPayout(c) ==
  /\ c \in calling /\ c \notin posted \cup sent
  /\ posted' = posted \cup {c}
  /\ UNCHANGED <<claim, seen, calling, sent, final, paidOut>>

\* The sidecar's route: a transfer with an idempotency key of its own.
ExecutePayout(c) ==
  /\ c \in posted
  /\ posted' = posted \ {c}
  /\ sent' = sent \cup {c}
  /\ UNCHANGED <<claim, seen, calling, final, paidOut>>

\* The back end's record of how the request ended; the save may fail, and then
\* the claim stays requested.
Closes(c, status) ==
  /\ calling' = calling \ {c}
  /\ claim' \in {claim, [claim EXCEPT ![c].status = status]}
  /\ UNCHANGED <<seen, sent, final, paidOut>>

AnswerPaid(c) ==
  /\ c \in calling \cap sent
  /\ \E status \in {"paid", "unknown"} : Closes(c, status)
  /\ UNCHANGED posted

\* A 4xx of the sidecar precedes the transfer.
AnswerRefused(c) ==
  /\ c \in calling \cap posted
  /\ posted' = posted \ {c}
  /\ Closes(c, "failed")

\* A 5xx, a time out, or an answer that was lost, before or after the transfer
\* and with the request possibly still under way.
AnswerUnknown(c) ==
  /\ c \in calling
  /\ posted' \in {posted, posted \ {c}}
  /\ Closes(c, "unknown")

Finalize(s) ==
  /\ s \notin final
  /\ final' = final \cup {s}
  /\ UNCHANGED <<claim, seen, calling, posted, sent, paidOut>>

\* The verdict settlement of InvoiceSettlement, from the other module's side.
PayAutomatically(s) ==
  /\ s \in (Automatic \cap final) \ paidOut
  /\ paidOut' = paidOut \cup {s}
  /\ UNCHANGED <<claim, seen, calling, posted, sent, final>>

\* The back end restarts: the replay cache and the waiting calls are gone.
ClaimRestart ==
  /\ seen # {} \/ calling # {}
  /\ seen' = {} /\ calling' = {}
  /\ UNCHANGED <<claim, posted, sent, final, paidOut>>

ClaimNext ==
  \/ \E c \in Claims :
       \/ \E n \in ClaimNonces, amount \in 1..MapThenSumSet(LAMBDA s : SaleOf[s].share, Sales) :
            CreateClaim(c, n, amount)
       \/ PostPayout(c) \/ ExecutePayout(c)
       \/ AnswerPaid(c) \/ AnswerRefused(c) \/ AnswerUnknown(c)
  \/ \E s \in Sales : Finalize(s) \/ PayAutomatically(s)
  \/ ClaimRestart

ClaimSpec == ClaimInit /\ [][ClaimNext]_claimVars

ClaimTypeOK ==
  /\ claim \in [Claims -> [status: {"none", "requested", "paid", "failed", "unknown"},
                           nonce: ClaimNonces \cup {"none"}, alloc: [Providers -> Nat]]]
  /\ seen \subseteq ClaimNonces
  /\ calling \subseteq Claims /\ posted \subseteq Claims /\ sent \subseteq Claims
  /\ final \subseteq Sales /\ paidOut \subseteq Automatic

\* The treasury never pays a creator more than the settled sales earned, over
\* claims and automatic payouts together, whatever becomes of payout requests:
\* the debit of create_creator_claim outlives every answer that does not prove
\* that no money moved.  And a signed claim is paid at most once: the replay
\* cache and, when it was cleared or lost, the ledger's index stop a second
\* claim with its nonce.
PaidWithinEarnings ==
  /\ \A p \in Providers : ShareOf(p, paidOut) + DebitOf(p, sent) <= ShareOf(p, final)
  /\ \A c, d \in sent : claim[c].nonce = claim[d].nonce => c = d
============================================================================
