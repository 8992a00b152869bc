-------------------------- MODULE MCMarketplace --------------------------
(***************************************************************************)
(* Small instances, in one run, of the parts of the marketplace that share *)
(* no state: a behaviour is about one of them, chosen at its start, and    *)
(* the others stay as they began.                                          *)
(***************************************************************************)
EXTENDS CreatorClaims, SplitPayment, ReportAccess, SettlementClaim, PaymentViews,
        AgentDecision, WalletBinding, McpAccess, SpendAdvice,
        TLC

VARIABLE part   \* the component a behaviour is about

Parts == {"claims", "split", "access", "settlement", "views", "decisions", "wallets",
          "connection", "advice"}

\* Three sales, two of them of one provider; the last is paid out automatically.
MCSaleOf == [s \in Sales |-> IF s = "s2" THEN [provider |-> 2, share |-> 2]
                             ELSE [provider |-> 1, share |-> 1]]
\* Requests, polls and visits are about one invoice.
MCInvoiceOf == [r \in Readers |-> 1]
\* One settlement that could pay either bill, and one that could pay the second.
MCCovers == {<<"a", "s1">>, <<"b", "s1">>, <<"b", "s2">>}

Offer(s, p, u, c, a, b) ==
  [symbol |-> s, provider |-> p, suggested |-> u, score |-> c,
   price |-> [preview |-> a, full |-> b]]
MCOffers == {Offer("BTC", "funding", "preview", 2, 1, 3), Offer("ETH", "oi", "full", 3, 1, 2)}
MCAsks ==
  {[buys |-> b, refuses |-> r, inquires |-> c, best |-> best, symbol |-> sym, tier |-> t,
    tiers |-> ts, provider |-> "any", providers |-> ps, budget |-> 2, maxPrice |-> m,
    minScore |-> 1] :
     b, r, c, best \in BOOLEAN, sym \in {"BTC", "none"}, t \in {"any", "full"},
     ts \in {{}, {"preview"}}, ps \in {{}, {"oi"}}, m \in {1, 2}}
AnAsk == CHOOSE a \in MCAsks : TRUE

Caps(t, d, w, m) == [tx |-> t, daily |-> d, weekly |-> w, monthly |-> m]
\* Each cap in turn is the one that binds; one request asks for caps out of order.
MCLimits == {Caps(1, 1, 1, 1), Caps(1, 1, 1, 2), Caps(1, 1, 2, 2), Caps(1, 2, 2, 3),
             Caps(2, 2, 1, 3)}

\* Agent wallets are interchangeable.
Symmetry == Permutations(AgentWallets)

-----------------------------------------------------------------------------
MCInit ==
  /\ part \in Parts
  /\ ClaimInit /\ AccessInit /\ SettlementInit /\ BindingInit /\ McpInit
  /\ AdviceInit
  /\ SplitInit /\ (part = "split" \/ (~needsVerdict /\ \A r \in Requests : req[r].leg = "creator"))
  /\ ViewInit /\ (part = "views" \/ ledgerKind = [store |-> "json", split |-> {}])
  /\ DecisionInit /\ (part = "decisions" \/ (ask = AnAsk /\ owned = {}))

ClaimStep ==
  /\ part = "claims" /\ ClaimNext
  /\ UNCHANGED <<part, splitVars, accessVars, claimedVars, viewVars, decisionVars,
                 bindingVars, mcpVars, adviceVars>>

SplitStep ==
  /\ part = "split" /\ SplitNext
  /\ UNCHANGED <<part, claimVars, accessVars, claimedVars, viewVars, decisionVars,
                 bindingVars, mcpVars, adviceVars>>

AccessStep ==
  /\ part = "access" /\ AccessNext
  /\ UNCHANGED <<part, claimVars, splitVars, claimedVars, viewVars, decisionVars,
                 bindingVars, mcpVars, adviceVars>>

SettlementStep ==
  /\ part = "settlement" /\ SettlementNext
  /\ UNCHANGED <<part, claimVars, splitVars, accessVars, viewVars, decisionVars,
                 bindingVars, mcpVars, adviceVars>>

ViewStep ==
  /\ part = "views" /\ ViewNext
  /\ UNCHANGED <<part, claimVars, splitVars, accessVars, claimedVars, decisionVars,
                 bindingVars, mcpVars, adviceVars>>

DecisionStep ==
  /\ part = "decisions" /\ DecisionNext
  /\ UNCHANGED <<part, claimVars, splitVars, accessVars, claimedVars, viewVars,
                 bindingVars, mcpVars, adviceVars>>

BindingStep ==
  /\ part = "wallets" /\ BindingNext
  /\ UNCHANGED <<part, claimVars, splitVars, accessVars, claimedVars, viewVars,
                 decisionVars, mcpVars, adviceVars>>

McpStep ==
  /\ part = "connection" /\ McpNext
  /\ UNCHANGED <<part, claimVars, splitVars, accessVars, claimedVars, viewVars,
                 decisionVars, bindingVars, adviceVars>>

AdviceStep ==
  /\ part = "advice" /\ AdviceNext
  /\ UNCHANGED <<part, claimVars, splitVars, accessVars, claimedVars, viewVars,
                 decisionVars, bindingVars, mcpVars>>

MCNext ==
  \/ ClaimStep
  \/ SplitStep
  \/ AccessStep
  \/ SettlementStep
  \/ ViewStep
  \/ DecisionStep
  \/ BindingStep
  \/ McpStep
  \/ AdviceStep

MCSpec == MCInit /\ [][MCNext]_<<part, claimVars, splitVars, accessVars, claimedVars,
                                 viewVars, decisionVars, bindingVars, mcpVars, adviceVars>>
==========================================================================
