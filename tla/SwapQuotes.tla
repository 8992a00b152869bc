---------------------------- MODULE SwapQuotes -----------------------------
(* The swap router (services/swap_router.py), its quote store, and the plan  *)
(* build_fund_gateway_plan (services/swap_executor.py) hands to a buyer who  *)
(* signs its steps one by one while prices move.  Amounts are those of one   *)
(* trade of AmountIn units.                                                  *)
EXTENDS Integers, Sequences, FiniteSets

CONSTANTS Venues,      \* [venue -> the pairs it serves]
          Executable,  \* venues with an execution ABI
          Anchored,    \* pairs with an oracle rate
          AmountIn, MaxOut,
          Slippage,    \* what min_out leaves to slippage
          Tolerance,   \* divergence from the anchor an execution accepts
          QuoteTtl, MaxTime, MaxQuotes, \* bounds of the run: the clock, the store
          Allowances   \* USDC the buyer may have approved for the gateway

Pairs == UNION {Venues[v]: v \in DOMAIN Venues}

ASSUME RouteAssumption ==
  /\ Executable \subseteq DOMAIN Venues \cap {"uniswap_v2", "usyc_nav"} /\ Anchored \subseteq Pairs
  /\ {AmountIn, MaxOut, Slippage, Tolerance, QuoteTtl, MaxTime, MaxQuotes} \subseteq Nat /\ Allowances \subseteq Nat

VARIABLES outs,    \* venue -> what it pays now, 0: no route
          anchor,  \* the oracle's expected output
          asking,  \* a request: the pair, the venues asked and what they answered
          quotes,  \* _QUOTE_STORE
          plan,    \* the steps of the buyer's plan that are not signed yet
          purse,   \* what the buyer allowed, got from the swap, deposited
          clock

routeVars == <<outs, anchor, asking, quotes, plan, purse, clock>>

Idle == [pair |-> "none", plans |-> FALSE, answers |-> <<>>]

RouteInit ==
  /\ outs \in [DOMAIN Venues -> {MaxOut}] /\ anchor = MaxOut
  /\ asking = Idle /\ quotes = {} /\ plan = <<>>
  /\ \E a \in Allowances: purse = [allowed |-> a, gateway |-> 0, proceeds |-> 0]
  /\ clock = 0

----------------------------------------------------------------------------
(* SwapRouter.quote.                                                         *)

(* The adapters are asked at the same time; a crash or a timeout is no route.*)
AskVenues(pair, plans) ==
  /\ asking = Idle /\ plan = <<>> /\ Cardinality(quotes) < MaxQuotes
  /\ \E lost \in SUBSET DOMAIN Venues:
       asking' = [pair |-> pair, plans |-> plans,
                  answers |-> [v \in {w \in DOMAIN Venues: pair \in Venues[w] /\ (plans => w \in Executable)} |->
                                 IF v \in lost THEN 0 ELSE outs[v]]]
  /\ UNCHANGED <<outs, anchor, quotes, plan, purse, clock>>

Available == {v \in DOMAIN asking.answers: asking.answers[v] > 0}
BestVenues == {v \in Available: \A w \in Available: asking.answers[w] <= asking.answers[v]}
MinOut(out) == IF out > Slippage THEN out - Slippage ELSE 0
Diverges(out) == asking.pair \in Anchored /\ (out - anchor > Tolerance \/ anchor - out > Tolerance)

QuoteOf(v) == [pair |-> asking.pair, venue |-> v, out |-> asking.answers[v],
               min |-> MinOut(asking.answers[v]), exceeded |-> Diverges(asking.answers[v]),
               expires |-> clock + QuoteTtl]

(* _store_put drops the expired quotes.                                      *)
Stored(q) == {r \in quotes \union {q}: r.expires >= clock}

----------------------------------------------------------------------------
(* The calldata, as ABI words: token and account addresses are large words.  *)
Address(name) == CASE name = "EURC" -> 101 [] name = "USYC" -> 102 [] name = "USDC" -> 103
                   [] name = "wallet" -> 104
SoldIn(pair) == IF pair = "EURC-USDC" THEN "EURC" ELSE "USYC"

(* _build_uniswap_calldata: the array follows its offset, in the head.       *)
SwapWords(q) ==
  <<AmountIn, q.min, 6, 2, Address(SoldIn(q.pair)), Address("USDC"), Address("wallet"), clock + 1>>
RedeemWords(q) == <<AmountIn, Address("wallet"), Address("wallet")>>

(* What the router contract reads: the array is where the third word says,   *)
(* the receiver and the deadline are the fourth and the fifth word.          *)
Decodes(words) ==
  LET at == words[3] + 1 IN
  at + words[at] <= Len(words) /\ words[4] = Address("wallet")

(* build_fund_gateway_plan: the steps for the venue, then the deposit.       *)
Swapping(q) ==
  IF q.venue = "uniswap_v2"
  THEN <<[action |-> "approve", words |-> <<>>], [action |-> "swap", words |-> SwapWords(q)]>>
  ELSE <<[action |-> "redeem", words |-> RedeemWords(q)]>>

(* Mutant: the deposit is signed first, out of what the swap is to pay.      *)
StepsOfEager(q) == <<[action |-> "deposit", words |-> <<Address("USDC"), q.min>>]>> \o Swapping(q)

StepsOf(q) == Swapping(q) \o <<[action |-> "deposit", words |-> <<Address("USDC"), q.min>>]>>

(* The anchor is read after the venues, then the quote is kept; a plan is    *)
(* refused when its route diverges.                                          *)
AnswerQuote ==
  /\ asking # Idle
  /\ \/ Available = {} /\ UNCHANGED <<quotes, plan, purse>>
     \/ \E v \in BestVenues:
          /\ quotes' = Stored(QuoteOf(v))
          /\ IF asking.plans /\ ~QuoteOf(v).exceeded
             THEN plan' = StepsOf(QuoteOf(v)) /\ purse' = [purse EXCEPT !.proceeds = 0, !.gateway = 0]
             ELSE UNCHANGED <<plan, purse>>
  /\ asking' = Idle
  /\ UNCHANGED <<outs, anchor, clock>>

(* _store_consume: a quote serves one execution (SwapExecution), if any.     *)
ConsumeQuote(q) ==
  /\ q \in quotes /\ quotes' = quotes \ {q}
  /\ UNCHANGED <<outs, anchor, asking, plan, purse, clock>>

----------------------------------------------------------------------------
(* The buyer signs the steps in order and stops at one that reverts.         *)
SwapPays(step) ==
  LET paid == outs["uniswap_v2"] IN
  IF Decodes(step.words) /\ paid > 0 /\ paid >= step.words[2] THEN paid ELSE 0
Pays(step) == IF step.action = "swap" THEN SwapPays(step) ELSE outs["usyc_nav"]

SignStep ==
  /\ plan # <<>>
  /\ LET step == Head(plan) IN
     CASE step.action = "approve" -> plan' = Tail(plan) /\ UNCHANGED purse
       [] step.action = "deposit" ->
            /\ plan' = <<>>
            /\ purse' = IF step.words[2] > purse.allowed THEN purse
                        ELSE [purse EXCEPT !.gateway = step.words[2], !.allowed = @ - step.words[2]]
       [] OTHER ->
            /\ plan' = IF Pays(step) = 0 THEN <<>> ELSE Tail(plan)
            /\ purse' = [purse EXCEPT !.proceeds = Pays(step)]
  /\ UNCHANGED <<outs, anchor, asking, quotes, clock>>

AbandonPlan ==
  /\ plan # <<>> /\ plan' = <<>>
  /\ UNCHANGED <<outs, anchor, asking, quotes, purse, clock>>

----------------------------------------------------------------------------
(* The pools and the oracle move; the NAV of the vault never falls           *)
(* (UsycVault.SharePriceNeverFalls).                                         *)
VenueMoves(v) ==
  /\ outs' \in {[outs EXCEPT ![v] = o]: o \in 0..MaxOut + 1}
  /\ v = "usyc_nav" => outs'[v] >= outs[v]
  /\ UNCHANGED <<anchor, asking, quotes, plan, purse, clock>>

AnchorMoves ==
  /\ anchor' \in 1..MaxOut
  /\ UNCHANGED <<outs, asking, quotes, plan, purse, clock>>

RouteTick ==
  /\ clock < MaxTime /\ clock' = clock + 1
  /\ UNCHANGED <<outs, anchor, asking, quotes, plan, purse>>

RouteRestart ==
  /\ quotes' = {} /\ asking' = Idle
  /\ UNCHANGED <<outs, anchor, plan, purse, clock>>

RouteNext ==
  \/ \E pair \in Pairs: \E plans \in BOOLEAN: AskVenues(pair, plans)
  \/ AnswerQuote \/ SignStep \/ AbandonPlan \/ AnchorMoves \/ RouteTick \/ RouteRestart
  \/ \E q \in quotes: ConsumeQuote(q)
  \/ \E v \in DOMAIN Venues: VenueMoves(v)

RouteSpec == RouteInit /\ [][RouteNext]_routeVars

----------------------------------------------------------------------------
(* swap_executor.py:294: the deposit is the "guaranteed floor; swap surplus  *)
(* stays in the wallet".  However prices move between the quote and the      *)
(* signatures, the deposit of a plan never takes more than its swap paid.    *)
DepositIsCovered == purse.gateway <= purse.proceeds
=============================================================================
