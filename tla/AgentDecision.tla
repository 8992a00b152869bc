--------------------------- MODULE AgentDecision ---------------------------
(* make_agent_decision (services/agent_decision.py): which report, if any, a *)
(* prompt makes the buyer agent purchase.  A regular expression, a local     *)
(* model (services/laya_decision.py), a remote model and a ranking are asked *)
(* in this order; what a model answers is checked, never trusted.            *)
EXTENDS Naturals

CONSTANTS Offers,   \* recommendations: [symbol, provider, suggested, score, price]
          Asks,     \* requests: a prompt and its limits
          MaxBudget \* AGENT_MAX_DECISION_BUDGET_USDC

AskTiers == {"preview", "full"}

ASSUME DecisionAssumption ==
  /\ MaxBudget \in Nat
  /\ \A o \in Offers: /\ o.suggested \in AskTiers /\ o.score \in Nat
                      /\ o.price \in [AskTiers -> Nat]
  /\ \A q \in Asks: /\ {q.budget, q.maxPrice, q.minScore} \subseteq Nat
                    /\ q.tiers \subseteq AskTiers /\ q.tier \in AskTiers \union {"any"}
                    /\ {q.buys, q.refuses, q.inquires, q.best} \subseteq BOOLEAN

VARIABLES ask,      \* the request
          owned,    \* entitlements of the wallet: pairs of offer and tier
          known,    \* the entitlements the request has read
          decision  \* what it came to

decisionVars == <<ask, owned, known, decision>>

Undecided == [action |-> "none", source |-> "none"]
NothingFrom(source) == [action |-> "skip", source |-> source]

DecisionInit ==
  /\ ask \in Asks /\ owned \in SUBSET (Offers \X AskTiers)
  /\ known = {} /\ decision = [action |-> "reading", source |-> "none"]

----------------------------------------------------------------------------
(* _prompt_policy, _prepare_candidates.                                      *)

Least(a, b) == IF a < b THEN a ELSE b
AskBudget == Least(ask.budget, MaxBudget)
AskMaxPrice == Least(ask.maxPrice, AskBudget)

TierAsked(o) == IF ask.tier # "any" THEN ask.tier
                ELSE IF (ask.tiers = {} \/ o.suggested \in ask.tiers) THEN o.suggested
                ELSE CHOOSE t \in ask.tiers: TRUE

Considered == {o \in Offers: /\ ask.provider \in {"any", o.provider}
                             /\ ask.providers = {} \/ o.provider \in ask.providers
                             /\ ask.tiers = {} \/ TierAsked(o) \in ask.tiers}

(* A preview the wallet owns is offered as its full report.                  *)
Upgraded(o) == /\ ask.tier = "any" /\ TierAsked(o) = "preview"
               /\ <<o, "preview">> \in known /\ <<o, "full">> \notin known
               /\ o.score >= ask.minScore
CandidateTier(o) == IF Upgraded(o) THEN "full" ELSE TierAsked(o)
CandidatePrice(o) == o.price[CandidateTier(o)]

Eligible(o) ==
  /\ o.score >= ask.minScore
  /\ <<o, "full">> \notin known /\ <<o, CandidateTier(o)>> \notin known
  /\ CandidatePrice(o) \in 1..Least(AskBudget, AskMaxPrice)
EligibleOffers == {o \in Considered: Eligible(o)}

(* The orders of the sorts: upgrades, then the score or the score per price. *)
Denser(o, p) == o.score * CandidatePrice(p) > p.score * CandidatePrice(o)
Outranks(o, p, best) ==
  \/ Upgraded(o) /\ ~Upgraded(p)
  \/ /\ Upgraded(o) = Upgraded(p)
     /\ \/ IF best THEN o.score > p.score ELSE Denser(o, p)
        \/ ~best /\ ~Denser(o, p) /\ ~Denser(p, o) /\ o.score > p.score
Foremost(offers, best) == {o \in offers: \A p \in offers: ~Outranks(p, o, best)}

----------------------------------------------------------------------------
(* The plans of the first three tiers.                                       *)

PlanFor(o, tier) == [action |-> "purchase", offer |-> {o}, tier |-> tier, within |-> TRUE]
PlanTo(action) == [action |-> action, offer |-> {}, tier |-> "auto", within |-> TRUE]
OwnTier == IF ask.tier = "any" THEN "auto" ELSE ask.tier

NamedIn(offers) == {o \in offers: o.symbol = ask.symbol}

(* _fast_parse_decision: a plain command to buy that names a candidate.      *)
FastPlans ==
  IF ~ask.buys THEN {}
  ELSE IF NamedIn(Considered) = {} \/ NamedIn(EligibleOffers) = {} THEN {PlanTo("skip")}
  ELSE {PlanFor(o, OwnTier): o \in Foremost(NamedIn(EligibleOffers), ask.best)}

(* predict_laya_plan: the model reads an intent and an objective.            *)
LayaPlans ==
  LET matched == IF NamedIn(Considered) = {} THEN EligibleOffers ELSE NamedIn(EligibleOffers) IN
  {PlanTo("skip"), PlanTo("clarify")}
    \union {PlanFor(o, OwnTier): o \in UNION {Foremost(matched, best): best \in BOOLEAN}}

(* _llm_decision, _normalize_model_plan: any plan of the schema.             *)
ModelPlans ==
  {PlanTo("skip"), PlanTo("clarify")}
    \union [action: {"purchase"}, offer: {{o}: o \in Offers}, tier: AskTiers \union {"auto"},
            within: BOOLEAN]

(* _validate_llm_plan: the decision a plan leads to, none if it is refused.  *)
PlannedOffers(plan) ==
  LET named == plan.offer \cap Considered
      strongest == {o \in EligibleOffers: \A p \in EligibleOffers: p.score <= o.score} IN
  IF ask.best /\ EligibleOffers # {} THEN strongest ELSE named

(* Mutant: the offer of a plan is taken as it is.                            *)
ValidatedAny(plan, source) ==
  IF plan.action # "purchase" THEN {[action |-> plan.action, source |-> source]}
  ELSE {[action |-> "purchase", source |-> source, offer |-> o, tier |-> CandidateTier(o)]:
          o \in {p \in PlannedOffers(plan): plan.tier \in {"auto", CandidateTier(p)}}}

Validated(plan, source) ==
  IF plan.action # "purchase" THEN {[action |-> plan.action, source |-> source]}
  ELSE {[action |-> "purchase", source |-> source, offer |-> o, tier |-> CandidateTier(o)]:
          o \in {p \in PlannedOffers(plan): /\ Eligible(p) /\ plan.within
                                            /\ plan.tier \in {"auto", CandidateTier(p)}}}

(* _fallback_decision.                                                       *)
Fallback ==
  IF ask.refuses \/ ask.inquires \/ EligibleOffers = {} THEN {NothingFrom("deterministic_policy")}
  ELSE {[action |-> "purchase", source |-> "deterministic_policy", offer |-> o,
         tier |-> CandidateTier(o)]: o \in Foremost(EligibleOffers, ask.best)}

DecidedBy(plans, source) == UNION {Validated(plan, source): plan \in plans}

(* A tier is passed when it has no plan or its plan is refused; the models   *)
(* may be off or fail.                                                       *)
Cascade ==
  LET fast == DecidedBy(FastPlans, "fast_parser") IN
  IF fast # {} THEN fast
  ELSE DecidedBy(LayaPlans, "laya_system_one") \union DecidedBy(ModelPlans, "llm") \union Fallback

----------------------------------------------------------------------------
ReadEntitlements ==
  /\ decision.action = "reading"
  /\ known' = owned /\ decision' = Undecided
  /\ UNCHANGED <<ask, owned>>

(* _guard_check: SpendLimitGuard.can_spend may turn a purchase into a skip.  *)
DecideAsk ==
  /\ decision = Undecided
  /\ \E d \in Cascade:
       decision' \in {d} \union IF d.action = "purchase" THEN {NothingFrom("spend_guard")} ELSE {}
  /\ UNCHANGED <<ask, owned, known>>

(* The client buys what was decided, or another session of the owner buys.   *)
BuyReport(o, t) ==
  /\ <<o, t>> \notin owned
  /\ owned' = owned \union {<<o, t>>}
  /\ UNCHANGED <<ask, known, decision>>

DecisionNext == ReadEntitlements \/ DecideAsk \/ \E o \in Offers: \E t \in AskTiers: BuyReport(o, t)

DecisionSpec == DecisionInit /\ [][DecisionNext]_decisionVars

----------------------------------------------------------------------------
BuysReport == decision.action = "purchase"

(* agent_decision.py:3: "The model produces a small plan only", the rest is  *)
(* "resolved deterministically": whatever a model plans, and whichever tier  *)
(* decides, a purchase is within the budget and the price limit, of an       *)
(* allowed provider, at the minimum score, and not of a report the request   *)
(* saw as owned.                                                             *)
PurchaseIsWithinPolicy ==
  BuysReport =>
    LET o == decision.offer
        price == o.price[decision.tier] IN
    /\ 0 < price /\ price <= ask.budget /\ price <= ask.maxPrice /\ price <= MaxBudget
    /\ ask.providers = {} \/ o.provider \in ask.providers
    /\ o.score >= ask.minScore
    /\ <<o, decision.tier>> \notin known /\ <<o, "full">> \notin known
=============================================================================
