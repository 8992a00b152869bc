----------------------------- MODULE UsycVault -----------------------------
(* contracts/USYCVault_fixed.sol: an ERC-4626 vault whose share price comes  *)
(* from an internal ledger of managed assets and virtual shares.  The        *)
(* contract is nonReentrant, so every call is one step.                      *)
EXTENDS Integers

CONSTANTS Holders,       \* accounts that hold shares
          VirtualShares, \* VIRTUAL_SHARES, 10 ** DECIMALS_OFFSET
          VaultSums,     \* bound: amounts of assets and shares in calls
          MaxAssets,     \* bound on the tokens in the contract
          Caps           \* values of depositCap, 0 for none

VirtualAssets == 1

ASSUME VaultAssumption ==
  /\ VirtualShares \in Nat \ {0} /\ VaultSums \subseteq Nat \ {0}
  /\ MaxAssets \in Nat /\ Caps \subseteq Nat

VARIABLES managed,    \* _totalManagedAssets
          balance,    \* UNDERLYING_ASSET.balanceOf(address(this))
          supply,     \* totalSupply()
          shares,     \* balanceOf
          depositCap, \* depositCap
          paused      \* paused()

vaultVars == <<managed, balance, supply, shares, depositCap, paused>>

VaultTypeOK ==
  /\ managed \in Nat /\ balance \in Nat /\ supply \in Nat
  /\ shares \in [Holders -> Nat] /\ depositCap \in Nat /\ paused \in BOOLEAN

VaultInit ==
  /\ managed = 0 /\ balance = 0 /\ supply = 0 /\ shares = [h \in Holders |-> 0]
  /\ depositCap = 0 /\ paused = FALSE

----------------------------------------------------------------------------
(* Math.mulDiv(x, y, d), rounded down and rounded up.                        *)
Down(x, y, d) == (x * y) \div d
Up(x, y, d) == (x * y + d - 1) \div d

(* Mutant: a deposit is rounded in favour of its holder.                     *)
SharesRounded(assets) == Up(assets, supply + VirtualShares, managed + VirtualAssets)

SharesDown(assets) == Down(assets, supply + VirtualShares, managed + VirtualAssets)
SharesUp(assets) == Up(assets, supply + VirtualShares, managed + VirtualAssets)
AssetsDown(n) == Down(n, managed + VirtualAssets, supply + VirtualShares)
AssetsUp(n) == Up(n, managed + VirtualAssets, supply + VirtualShares)

(* safeTransferFrom, _totalManagedAssets += assets and _mint.                *)
TakeIn(h, assets, minted) ==
  /\ ~paused /\ assets > 0 /\ minted > 0
  /\ depositCap > 0 => managed + assets <= depositCap
  /\ balance + assets <= MaxAssets
  /\ managed' = managed + assets /\ balance' = balance + assets
  /\ supply' = supply + minted /\ shares' = [shares EXCEPT ![h] = @ + minted]
  /\ UNCHANGED <<depositCap, paused>>

DepositAssets(h, assets) == TakeIn(h, assets, SharesDown(assets))
MintShares(h, n) == TakeIn(h, AssetsUp(n), n)

(* _burn reverts without the shares, the subtraction below zero and the      *)
(* transfer without the tokens; a pause does not matter.                     *)
PayOut(h, assets, burnt) ==
  /\ assets > 0 /\ burnt > 0
  /\ burnt <= shares[h] /\ assets <= managed /\ assets <= balance
  /\ managed' = managed - assets /\ balance' = balance - assets
  /\ supply' = supply - burnt /\ shares' = [shares EXCEPT ![h] = @ - burnt]
  /\ UNCHANGED <<depositCap, paused>>

WithdrawAssets(h, assets) == PayOut(h, assets, SharesUp(assets))
RedeemShares(h, n) == PayOut(h, AssetsDown(n), n)

FundYield(assets) ==
  /\ assets > 0 /\ balance + assets <= MaxAssets
  /\ managed' = managed + assets /\ balance' = balance + assets
  /\ UNCHANGED <<supply, shares, depositCap, paused>>

(* Tokens sent to the contract without a call to it.                         *)
Donate(assets) ==
  /\ balance + assets <= MaxAssets
  /\ balance' = balance + assets
  /\ UNCHANGED <<managed, supply, shares, depositCap, paused>>

SweepSurplus ==
  /\ balance > managed
  /\ balance' = managed
  /\ UNCHANGED <<managed, supply, shares, depositCap, paused>>

SetDepositCap(cap) ==
  /\ depositCap' = cap
  /\ UNCHANGED <<managed, balance, supply, shares, paused>>

SetPaused(p) ==
  /\ paused = ~p /\ paused' = p
  /\ UNCHANGED <<managed, balance, supply, shares, depositCap>>

VaultNext ==
  \/ \E h \in Holders: \E n \in VaultSums:
       \/ DepositAssets(h, n) \/ MintShares(h, n)
       \/ WithdrawAssets(h, n) \/ RedeemShares(h, n)
  \/ \E n \in VaultSums: FundYield(n) \/ Donate(n)
  \/ SweepSurplus
  \/ \E cap \in Caps: SetDepositCap(cap)
  \/ \E p \in BOOLEAN: SetPaused(p)

VaultSpec == VaultInit /\ [][VaultNext]_vaultVars

----------------------------------------------------------------------------
(* Whatever is deposited, minted, withdrawn, redeemed, funded, donated and   *)
(* swept, the price of a share never falls: what rounding loses is left in   *)
(* the vault (_convertToShares, _convertToAssets).  The price is the ratio   *)
(* of managed + VirtualAssets to supply + VirtualShares.                     *)
SharePriceNeverFalls ==
  [][(managed' + VirtualAssets) * (supply + VirtualShares)
       >= (managed + VirtualAssets) * (supply' + VirtualShares)]_vaultVars

(* "Cannot touch any assets backing user shares" (sweepSurplus) and          *)
(* depositors "retain unconditional exit liquidity" (withdraw, redeem):      *)
(* whatever rounding and sweeps did, the ledger covers all shares at their   *)
(* price, and the contract holds what the ledger says.                       *)
SharesAreCovered == AssetsDown(supply) <= managed /\ managed <= balance
=============================================================================
