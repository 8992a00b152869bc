----------------------------- MODULE MCDesks -----------------------------
(***************************************************************************)
(* Small instances, in one run, of the desks and books of the operator:    *)
(* they share no state, a behaviour is about one of them, chosen at its    *)
(* start, and the others stay as they began.                               *)
(***************************************************************************)
EXTENDS MarketEpoch, StableFxDesk, TreasuryDesk, EarnLedger, UsycVault, EuthynaChain,
        EmergencyHalt, SwapQuotes, RecordStores, RequestLimits, TLC

VARIABLE part   \* the component a behaviour is about

Parts == {"epochs", "exchange", "treasury", "earn", "vault", "trail", "halt", "quotes",
          "records", "requests", "relays"}

\* Two venues that can be executed, one of them for both pairs, and one that
\* cannot.
MCVenues ==
  [v \in {"uniswap_v2", "usyc_nav", "xylo_stable"} |->
     CASE v = "uniswap_v2" -> {"EURC-USDC", "USYC-USDC"}
       [] v = "usyc_nav" -> {"USYC-USDC"}
       [] OTHER -> {"EURC-USDC"}]

\* Two scopes with a limit and one without.
MCScopeOf == [p \in Paths |-> CASE p = "/healthz" -> "health"
                                [] p = "/payment/verify" -> "payment_verify"
                                [] OTHER -> "api_default"]
MCPerWindow == [s \in {"health", "payment_verify", "api_default"} |->
                  CASE s = "health" -> 0 [] s = "payment_verify" -> 1 [] OTHER -> 2]

\* Purchases of an epoch are interchangeable.
Symmetry == Permutations(Purchases)

\* So are the administrators, and the threads of the record stores; each of
\* them begins once.  That they begin in a fixed order is cheaper than symmetry.
AdminsInOrder == SetToSeq(Admins)
SaversInOrder == SetToSeq(Savers)
InTurn ==
  /\ \A i \in 2..Len(AdminsInOrder) :
       desk[AdminsInOrder[i]].at # "idle" => desk[AdminsInOrder[i - 1]].at # "idle"
  /\ \A i \in 2..Len(SaversInOrder) :
       saver[SaversInOrder[i]].at # "idle" => saver[SaversInOrder[i - 1]].at # "idle"

-----------------------------------------------------------------------------
MCInit ==
  /\ part \in Parts
  /\ EpochInit /\ VaultInit /\ HaltInit /\ LimitInit
  /\ FxInit /\ (part = "exchange" \/ (feed = {BaseRate} /\ table = "json"))
  /\ DeskInit /\ (part = "treasury" \/ rail = "EARN")
  /\ EarnInit /\ (part = "earn" \/ earnStore = "json")
  /\ ChainInit /\ (part = "trail" \/ place = "nowhere")
  /\ RouteInit /\ (part = "quotes" \/ purse.allowed = 0)
  /\ RecInit /\ (part = "records" \/ engine = [backend |-> "json", table |-> "invoices"])

EpochStep ==
  /\ part = "epochs" /\ EpochNext
  /\ UNCHANGED <<part, fxVars, deskVars, earnVars, vaultVars, chainStateVars, haltVars,
                 routeVars, recVars, limitVars>>

FxStep ==
  /\ part = "exchange" /\ FxNext
  /\ UNCHANGED <<part, epochVars, deskVars, earnVars, vaultVars, chainStateVars,
                 haltVars, routeVars, recVars, limitVars>>

DeskStep ==
  /\ part = "treasury" /\ DeskNext
  /\ UNCHANGED <<part, epochVars, fxVars, earnVars, vaultVars, chainStateVars, haltVars,
                 routeVars, recVars, limitVars>>

EarnStep ==
  /\ part = "earn" /\ EarnNext
  /\ UNCHANGED <<part, epochVars, fxVars, deskVars, vaultVars, chainStateVars, haltVars,
                 routeVars, recVars, limitVars>>

VaultStep ==
  /\ part = "vault" /\ VaultNext
  /\ UNCHANGED <<part, epochVars, fxVars, deskVars, earnVars, chainStateVars, haltVars,
                 routeVars, recVars, limitVars>>

ChainStep ==
  /\ part = "trail" /\ ChainNext
  /\ UNCHANGED <<part, epochVars, fxVars, deskVars, earnVars, vaultVars, haltVars,
                 routeVars, recVars, limitVars>>

HaltStep ==
  /\ part = "halt" /\ HaltNext
  /\ UNCHANGED <<part, epochVars, fxVars, deskVars, earnVars, vaultVars, chainStateVars,
                 routeVars, recVars, limitVars>>

RouteStep ==
  /\ part = "quotes" /\ RouteNext
  /\ UNCHANGED <<part, epochVars, fxVars, deskVars, earnVars, vaultVars, chainStateVars,
                 haltVars, recVars, limitVars>>

RecStep ==
  /\ part = "records" /\ RecNext
  /\ UNCHANGED <<part, epochVars, fxVars, deskVars, earnVars, vaultVars, chainStateVars,
                 haltVars, routeVars, limitVars>>

RequestStep ==
  /\ part = "requests" /\ AskNext
  /\ UNCHANGED <<part, epochVars, fxVars, deskVars, earnVars, vaultVars, chainStateVars,
                 haltVars, routeVars, recVars>>

RelayStep ==
  /\ part = "relays" /\ RelayNext
  /\ UNCHANGED <<part, epochVars, fxVars, deskVars, earnVars, vaultVars, chainStateVars,
                 haltVars, routeVars, recVars>>

MCNext ==
  \/ EpochStep
  \/ FxStep
  \/ DeskStep
  \/ EarnStep
  \/ VaultStep
  \/ ChainStep
  \/ HaltStep
  \/ RouteStep
  \/ RecStep
  \/ RequestStep
  \/ RelayStep

MCSpec == MCInit /\ [][MCNext]_<<part, epochVars, fxVars, deskVars, earnVars, vaultVars,
                                 chainStateVars, haltVars, routeVars, recVars, limitVars>>
==========================================================================
