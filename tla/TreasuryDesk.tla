--------------------------- MODULE TreasuryDesk ----------------------------
(* The autonomous CFO: runs that decide between cash and the yield rail, the *)
(* administrator's sweeps and redemptions, and the transactions they send    *)
(* (services/usyc_treasury.py, endpoints/treasury.py; the Earn rail is       *)
(* services/earn_kit.py).  Every call runs in a thread of its own, and names *)
(* the account it is about.  That account is read and checked; the account   *)
(* that pays is always the one of the configured private key.                *)
EXTENDS Integers

CONSTANTS Runs,      \* calls of evaluate_cfo_decision that may execute
          Admins,    \* calls of the sweep and redemption endpoints
          Rails,     \* values of policy.yield_rail: "USYC", "EARN"
          Reserve,   \* policy.min_operating_reserve_usdc
          MaxMove,   \* policy.max_sweep_per_epoch_usdc and max_jit_redeem_per_epoch_usdc
          MinSweep,  \* policy.min_sweep_threshold_usdc
          Ratio,     \* policy.target_safety_buffer_ratio
          Funds,     \* cash of the paying account at the start
          Elsewhere, \* what another account may hold, in cash or in the vault
          OpenClaims, \* what the creators' open claims may come to
          OpsBills,  \* treasury.opsBillsUsdc
          MaxSpent   \* bound on the payments from the treasury

ASSUME DeskAssumption ==
  /\ Rails \subseteq {"USYC", "EARN"} /\ {Reserve, MinSweep, Funds, OpsBills, MaxSpent} \subseteq Nat
  /\ MaxMove \in Nat \ {0} /\ Ratio \in Nat \ {0} /\ OpenClaims \subseteq Nat
  /\ Elsewhere \subseteq Nat

VARIABLES rail,     \* the rail of the policy
          cash,     \* USDC of the account of the key, on the chain
          vault,    \* what its vault shares are worth, on the chain
          ledger,   \* the principal of its Earn position
          position, \* the cached reading of vault, or nothing
          cooling,  \* policy.rebalance_cooldown_seconds since _last_rebalance_at
          desk,     \* where each call stands, the account it names, what it
                    \* moves and what left the account since it was checked
          spent     \* paid from the account

deskVars == <<rail, cash, vault, ledger, position, cooling, desk, spent>>

DeskCalls == Runs \union Admins
AtRest == [at |-> "idle", account |-> "own", move |-> "none", amount |-> 0, left |-> 0]

(* The account that a call names: PLATFORM_TREASURY_ADDRESS or one that the  *)
(* request names, which is the account of the key or is not.                 *)
Accounts == {"own", "other"}

DeskTypeOK ==
  /\ rail \in Rails /\ cash \in Nat /\ vault \in Nat /\ ledger \in Nat /\ spent \in 0..MaxSpent
  /\ position \in SUBSET Nat /\ cooling \in BOOLEAN
  /\ desk \in [DeskCalls -> [at: {"idle", "decided", "checked", "sent", "mined", "given up", "over"},
                         account: Accounts, move: {"none", "sweep", "redeem"}, amount: Nat,
                         left: Nat]]

DeskInit ==
  /\ rail \in Rails /\ cash = Funds /\ vault = 0 /\ ledger = 0 /\ position = {}
  /\ cooling = FALSE /\ desk = [c \in DeskCalls |-> AtRest] /\ spent = 0

----------------------------------------------------------------------------
(* evaluate_cfo_decision.                                                    *)

Lesser(a, b) == IF a < b THEN a ELSE b
Greater(a, b) == IF a < b THEN b ELSE a

(* query_onchain_position: the cached reading while it is fresh.             *)
PositionReadings(account) ==
  IF account = "other" THEN Elsewhere ELSE IF position # {} THEN position ELSE {vault}

(* The assets on the rail, as the run reads them.                            *)
Readings(account) == IF rail = "EARN" /\ account = "own" THEN {ledger}
                     ELSE PositionReadings(account)

(* The cash as it is read: zero when the node cannot be asked.               *)
CashReadings(account) == IF account = "other" THEN Elsewhere ELSE {cash, 0}

(* The open claims as they are read: none when their store cannot be.        *)
ClaimReadings == OpenClaims \union {0}

Obligations(open) == open + OpsBills

RequiredReserve(bills) == Greater(Reserve, bills * Ratio)
Surplus(bills, liquid) == Greater(0, liquid - RequiredReserve(bills))

(* The ladder of solvency, liquidity, the model's proposal (which may be     *)
(* anything) and the heuristic: the moves it may come to.                    *)
Decisions(bills, liquid, assets) ==
  IF liquid + assets < bills THEN {}
  ELSE IF liquid < bills
  THEN {[move |-> "redeem", amount |-> a]: a \in 1..MaxMove}
  ELSE {[move |-> "redeem", amount |-> a]: a \in 1..Lesser(assets, MaxMove)}
         \union IF Surplus(bills, liquid) < MinSweep THEN {}
                ELSE LET most == Lesser(Surplus(bills, liquid), MaxMove) IN
                     {[move |-> "sweep", amount |-> a]:
                        a \in {n \in 1..most: n >= MinSweep \/ n = most}}

(* What the Earn rail does without a private key, which no run hands it: the *)
(* position changes and nothing is sent (deposit and withdraw).              *)
Simulate(c, account, d) ==
  /\ \/ /\ account = "own" /\ (d.move = "redeem" => ledger >= d.amount)
        /\ ledger' = IF d.move = "sweep" THEN ledger + d.amount ELSE ledger - d.amount
     \/ account = "other" /\ UNCHANGED ledger
  /\ cooling' = TRUE
  /\ desk' = [desk EXCEPT ![c].at = "over"]
  /\ UNCHANGED position

PrepareMove(c, account, d) ==
  /\ desk' = [desk EXCEPT ![c] = [at |-> "decided", account |-> account, move |-> d.move,
                                  amount |-> d.amount, left |-> 0]]
  /\ UNCHANGED <<ledger, cooling>>

(* A run without a move, within the cooldown, or refused by the rail only    *)
(* reports.                                                                  *)
Decide(c) ==
  /\ desk[c].at = "idle"
  /\ \E open \in ClaimReadings, account \in Accounts:
     \E liquid \in CashReadings(account), assets \in Readings(account):
       /\ \/ /\ desk' = [desk EXCEPT ![c].at = "over"]
             /\ UNCHANGED <<ledger, cooling>>
          \/ /\ ~cooling
             /\ \E d \in Decisions(Obligations(open), liquid, assets):
                  IF rail = "EARN" THEN Simulate(c, account, d) ELSE PrepareMove(c, account, d)
       /\ position' = IF account = "other" THEN position ELSE IF rail = "EARN" THEN {} ELSE {assets}
  /\ UNCHANGED <<rail, cash, vault, spent>>

(* sweep_idle_cash and jit_redeem_usyc with execute_onchain.                 *)
OrderSweep(c) ==
  /\ desk[c].at = "idle"
  /\ \E account \in Accounts: \E liquid \in CashReadings(account), assets \in PositionReadings(account):
       /\ \E a \in 1..Lesser(liquid, MaxMove): PrepareMove(c, account, [move |-> "sweep", amount |-> a])
       /\ position' = IF account = "other" THEN position ELSE {assets}
  /\ UNCHANGED <<rail, cash, vault, spent>>

OrderRedeem(c) ==
  /\ desk[c].at = "idle"
  /\ \E account \in Accounts: \E assets \in PositionReadings(account):
       /\ \E a \in 1..Lesser(assets, MaxMove): PrepareMove(c, account, [move |-> "redeem", amount |-> a])
       /\ position' = IF account = "other" THEN position ELSE {assets}
  /\ UNCHANGED <<rail, cash, vault, spent>>

----------------------------------------------------------------------------
(* execute_deposit and execute_redeem.                                       *)

(* Mutant: the reserve is left out.                                          *)
WithinRailsEmpty(c, liquid) ==
  /\ c \in Admins => ~cooling
  /\ desk[c].amount <= MaxMove
  /\ desk[c].move = "sweep" => liquid >= desk[c].amount

(* _enforce_safety_rails, on what the account that the call names holds: a   *)
(* run looked at the cooldown when it decided.                               *)
WithinRails(c, liquid) ==
  /\ c \in Admins => ~cooling
  /\ desk[c].amount <= MaxMove
  /\ desk[c].move = "sweep" => liquid - desk[c].amount >= Reserve

CheckRails(c) ==
  /\ desk[c].at = "decided"
  /\ \E liquid \in CashReadings(desk[c].account):
       desk' = IF WithinRails(c, liquid) THEN [desk EXCEPT ![c].at = "checked"]
               ELSE [desk EXCEPT ![c].at = "over"]
  /\ UNCHANGED <<rail, cash, vault, ledger, position, cooling, spent>>

(* The allowance is raised first when it does not cover the amount; that     *)
(* transaction, or any call of the node, may fail before the deposit is sent.*)
SendDeposit(c) ==
  /\ desk[c].at = "checked" /\ desk[c].move = "sweep"
  /\ \E at \in {"sent", "over"}: desk' = [desk EXCEPT ![c].at = at]
  /\ UNCHANGED <<rail, cash, vault, ledger, position, cooling, spent>>

(* The shares are what the vault says the amount is worth.                   *)
SendRedeem(c) ==
  /\ desk[c].at = "checked" /\ desk[c].move = "redeem"
  /\ \E at \in {"sent", "over"}: desk' = [desk EXCEPT ![c].at = at]
  /\ UNCHANGED <<rail, cash, vault, ledger, position, cooling, spent>>

(* Of a sweep that was checked on the account that pays, what else leaves    *)
(* that account before it is mined.                                          *)
Watched(o) ==
  desk[o].at \in {"checked", "sent", "given up"} /\ desk[o].move = "sweep" /\ desk[o].account = "own"
Noted(o, a) == IF Watched(o) THEN [desk[o] EXCEPT !.left = @ + a] ELSE desk[o]

AfterMining(c) == IF desk[c].at = "given up" THEN "over" ELSE "mined"

(* The transaction is mined, within the wait or after it was given up.  A    *)
(* deposit is paid by the account of the key, and its shares go to the       *)
(* account that the call names; ...                                          *)
MineDeposit(c) ==
  /\ desk[c].at \in {"sent", "given up"} /\ desk[c].move = "sweep"
  /\ LET a == desk[c].amount IN
       /\ a <= cash /\ cash' = cash - a
       /\ vault' = IF desk[c].account = "own" THEN vault + a ELSE vault
       /\ desk' = [o \in DeskCalls |-> IF o = c THEN [desk[o] EXCEPT !.at = AfterMining(c), !.left = 0]
                                     ELSE Noted(o, a)]
  /\ UNCHANGED <<rail, ledger, position, cooling, spent>>

(* ... what is redeemed from its own shares goes to any account.             *)
MineRedemption(c) ==
  /\ desk[c].at \in {"sent", "given up"} /\ desk[c].move = "redeem" /\ desk[c].account = "own"
  /\ LET a == desk[c].amount IN
       /\ a <= vault /\ vault' = vault - a
       /\ cash' \in {cash, cash + a}
  /\ desk' = [desk EXCEPT ![c].at = AfterMining(c)]
  /\ UNCHANGED <<rail, ledger, position, cooling, spent>>

(* It reverts when the cash or the shares are not there; nothing lets the key*)
(* redeem the shares of another account.                                     *)
RevertMove(c) ==
  /\ desk[c].at \in {"sent", "given up"}
  /\ IF desk[c].move = "sweep" THEN desk[c].amount > cash
     ELSE desk[c].account = "other" \/ desk[c].amount > vault
  /\ desk' = [desk EXCEPT ![c].at = "over", ![c].left = 0]
  /\ UNCHANGED <<rail, cash, vault, ledger, position, cooling, spent>>

GetReceipt(c) ==
  /\ desk[c].at = "mined"
  /\ cooling' = TRUE /\ position' = {}
  /\ desk' = [desk EXCEPT ![c].at = "over"]
  /\ UNCHANGED <<rail, cash, vault, ledger, spent>>

(* No receipt in 20 seconds: neither the cooldown nor the cache learn of it. *)
GiveUpWait(c) ==
  /\ desk[c].at = "sent"
  /\ desk' = [desk EXCEPT ![c].at = "given up"]
  /\ UNCHANGED <<rail, cash, vault, ledger, position, cooling, spent>>

PayFromTreasury ==
  /\ cash > 0 /\ spent < MaxSpent
  /\ cash' = cash - 1 /\ spent' = spent + 1
  /\ desk' = [o \in DeskCalls |-> Noted(o, 1)]
  /\ UNCHANGED <<rail, vault, ledger, position, cooling>>

CooldownEnds ==
  /\ cooling /\ cooling' = FALSE
  /\ UNCHANGED <<rail, cash, vault, ledger, position, desk, spent>>

PositionLapses ==
  /\ position # {} /\ position' = {}
  /\ UNCHANGED <<rail, cash, vault, ledger, cooling, desk, spent>>

DeskNext ==
  \/ \E c \in Runs: Decide(c)
  \/ \E c \in Admins: OrderSweep(c) \/ OrderRedeem(c)
  \/ \E c \in DeskCalls: \/ CheckRails(c) \/ SendDeposit(c) \/ SendRedeem(c)
                         \/ MineDeposit(c) \/ MineRedemption(c) \/ RevertMove(c) \/ GetReceipt(c) \/ GiveUpWait(c)
  \/ PayFromTreasury \/ CooldownEnds \/ PositionLapses

DeskSpec == DeskInit /\ [][DeskNext]_deskVars

----------------------------------------------------------------------------
(* However many calls move money at once: when a sweep that was checked on   *)
(* the account that pays is mined, that account falls short of the operating *)
(* reserve by no more than what else left it since the check, sweeps that    *)
(* were checked on other accounts among it (usyc_treasury.py,                *)
(* _enforce_safety_rails, execute_deposit).                                  *)
SweepsKeepReserve ==
  [][\A c \in DeskCalls:
       MineDeposit(c) /\ desk[c].account = "own" => cash' + desk[c].left >= Reserve]_deskVars
=============================================================================
