------------------------------- MODULE SgUSD --------------------------------
(***************************************************************************)
(* sgUSD.sol, the ERC-4626 vault over gUSD, and RevenueLedger.sol, which   *)
(* feeds it, composed with the token.  ERC4626's own steps (convert,        *)
(* preview, deposit, mint, withdraw, redeem) are OpenZeppelin's, as the     *)
(* contract's overrides use them, with one virtual share and asset; a       *)
(* holder is caller and receiver.  The perp engine is its calls on the      *)
(* vault, with amounts from small sets (PerpEngine models where they come   *)
(* from).                                                                   *)
(***************************************************************************)
EXTENDS GUSD

CONSTANTS
  Splits,         \* sgUSDBps values the ledger's owner may submit
  Reservations,   \* perpReserved values the engine may push
  Caps,           \* per-block caps the owner may set
  MaxShares       \* bound on the share supply, which payouts let grow

ASSUME SplitConstants == Splits \subseteq Nat

ASSUME VaultConstants ==
  Reservations \subseteq Nat /\ Caps \subseteq Nat /\ MaxShares \in Nat

VARIABLES
  vault, treasury, sgUSDBps, totalToVault, totalToTreasury,   \* the ledger's
  seeded,
  shares,         \* sgUSD balances; the seed's shares belong to the vault
  shareSupply,
  perpEngine,     \* set after the deployment, one engine or none yet
  perpReserved,
  engineMaxWithdrawPerBlock,
  engineWithdrawn \* paid to the engine's claims in this block

ledgerVars == <<vault, treasury, sgUSDBps, totalToVault, totalToTreasury>>

vaultVars == <<seeded, shares, shareSupply, perpEngine, perpReserved,
               engineMaxWithdrawPerBlock, engineWithdrawn>>

vars == <<gusdVars, ledgerVars, vaultVars>>

gusdRest == <<reserve, stray, outside, mintFeeBps, redeemFeeBps, revenueSink, paused>>
engineVars == <<perpEngine, perpReserved, engineMaxWithdrawPerBlock, engineWithdrawn>>

totalAssets == bal["vault"]

-----------------------------------------------------------------------------
(* RevenueLedger splits the gUSD it holds between the vault and the         *)
(* treasury.  The recipients are the deployed ones, or not set yet; sweep,  *)
(* which moves tokens other than gUSD, has nothing to move here.            *)
toVaultShare(amount) == MulDivFloor(amount, sgUSDBps, BPS)

setVault ==
  /\ vault' = "vault"
  /\ UNCHANGED <<treasury, sgUSDBps, totalToVault, totalToTreasury, gusdVars>>

setTreasury ==
  /\ treasury' = "treasury"
  /\ UNCHANGED <<vault, sgUSDBps, totalToVault, totalToTreasury, gusdVars>>

setSplit(bps) ==
  /\ bps <= BPS
  /\ sgUSDBps' = bps
  /\ UNCHANGED <<vault, treasury, totalToVault, totalToTreasury, gusdVars>>

(* A transfer to a recipient that is not set reverts.                       *)
distribute ==
  LET amt == bal["ledger"]
      toVault == toVaultShare(amt)
      toTreasury == amt - toVault
  IN  /\ amt # 0
      /\ vault # None /\ treasury # None
      /\ totalToVault' = totalToVault + toVault
      /\ totalToTreasury' = totalToTreasury + toTreasury
      /\ bal' = moved(moved(bal, "ledger", vault, toVault), "ledger", treasury, toTreasury)
      /\ UNCHANGED <<vault, treasury, sgUSDBps, reserve, stray, outside,
                     mintFeeBps, redeemFeeBps, revenueSink, paused>>

LedgerInit ==
  /\ vault = None /\ treasury = None
  /\ sgUSDBps = BPS \div 2
  /\ totalToVault = 0 /\ totalToTreasury = 0

LedgerStep ==
  \/ setVault
  \/ setTreasury
  \/ \E b \in Splits : setSplit(b)
  \/ distribute

-----------------------------------------------------------------------------
(* Mutants                                                                 *)

(* maxWithdraw that ignores the reservation.                               *)
ownersValue(u) == MulDivFloor(shares[u], totalAssets + 1, shareSupply + 1)

-----------------------------------------------------------------------------
(* ERC4626 conversions: one virtual share and one virtual asset.           *)
sharesDown(assets) == MulDivFloor(assets, shareSupply + 1, totalAssets + 1)
sharesUp(assets) == MulDivCeil(assets, shareSupply + 1, totalAssets + 1)
assetsDown(s) == MulDivFloor(s, totalAssets + 1, shareSupply + 1)
assetsUp(s) == MulDivCeil(s, totalAssets + 1, shareSupply + 1)

availableForRedemption == PosPart(totalAssets - perpReserved)

maxWithdraw(u) == Lesser(assetsDown(shares[u]), availableForRedemption)

maxRedeem(u) == sharesDown(maxWithdraw(u))

(* super._deposit: pay, then mint.                                         *)
Enter(u, holder, assets, s) ==
  /\ assets <= bal[u]
  /\ shareSupply + s <= MaxShares
  /\ bal' = moved(bal, u, "vault", assets)
  /\ shares' = credit(shares, holder, s)
  /\ shareSupply' = shareSupply + s
  /\ UNCHANGED <<gusdRest, ledgerVars, engineVars>>

(* seed: the owner's gUSD at 1:1, the shares locked in the vault.          *)
seed(owner, assets) ==
  /\ ~seeded
  /\ assets # 0
  /\ seeded' = TRUE
  /\ Enter(owner, "vault", assets, assets)

deposit(u, assets) ==
  /\ seeded
  /\ Enter(u, u, assets, sharesDown(assets))
  /\ UNCHANGED seeded

mintShares(u, s) ==
  /\ seeded
  /\ Enter(u, u, assetsUp(s), s)
  /\ UNCHANGED seeded

(* _withdraw: perp claims take precedence over redemptions.                *)
Leave(u, assets, s) ==
  /\ assets <= availableForRedemption
  /\ s <= shares[u]
  /\ bal' = moved(bal, "vault", u, assets)
  /\ shares' = debit(shares, u, s)
  /\ shareSupply' = shareSupply - s
  /\ UNCHANGED <<seeded, gusdRest, ledgerVars, engineVars>>

withdraw(u, assets) == assets <= maxWithdraw(u) /\ Leave(u, assets, sharesUp(assets))

(* Mutant: a redemption that pays rounded up.                              *)
redeemUp(u, s) == s <= maxRedeem(u) /\ Leave(u, assetsUp(s), s)

redeemShares(u, s) == s <= maxRedeem(u) /\ Leave(u, assetsDown(s), s)

(* ERC20's transfer of shares, to the vault's own address too.             *)
transferShares(u, to, s) ==
  /\ s <= shares[u]
  /\ shares' = moved(shares, u, to, s)
  /\ UNCHANGED <<gusdVars, ledgerVars, engineVars, seeded, shareSupply>>

setPerpEngine ==
  /\ perpEngine' = "engine"
  /\ UNCHANGED <<gusdVars, ledgerVars, seeded, shares, shareSupply, perpReserved,
                 engineMaxWithdrawPerBlock, engineWithdrawn>>

setPerpReserved(x) ==
  /\ perpEngine # None
  /\ perpReserved' = x
  /\ UNCHANGED <<gusdVars, ledgerVars, seeded, shares, shareSupply, perpEngine,
                 engineMaxWithdrawPerBlock, engineWithdrawn>>

setEngineMaxWithdrawPerBlock(cap) ==
  /\ engineMaxWithdrawPerBlock' = cap
  /\ UNCHANGED <<gusdVars, ledgerVars, seeded, shares, shareSupply, perpEngine, perpReserved,
                 engineWithdrawn>>

perpWithdraw(to, amount) ==
  LET room == PosPart(engineMaxWithdrawPerBlock - engineWithdrawn)
      paid == Lesser(Lesser(amount, totalAssets), room)
  IN  /\ perpEngine # None
      /\ bal' = moved(bal, "vault", to, paid)
      /\ engineWithdrawn' = engineWithdrawn + paid
      /\ UNCHANGED <<gusdRest, ledgerVars, seeded, shares, shareSupply, perpEngine,
                     perpReserved, engineMaxWithdrawPerBlock>>

NextBlock ==
  /\ engineWithdrawn' = 0
  /\ UNCHANGED <<gusdVars, ledgerVars, seeded, shares, shareSupply, perpEngine, perpReserved,
                 engineMaxWithdrawPerBlock>>

-----------------------------------------------------------------------------
Init ==
  /\ GusdInit
  /\ LedgerInit
  /\ seeded = FALSE
  /\ shares = [h \in Users \cup {"vault"} |-> 0]
  /\ shareSupply = 0
  /\ perpEngine = None
  /\ perpReserved = 0
  /\ engineMaxWithdrawPerBlock = 0
  /\ engineWithdrawn = 0

StakerStep ==
  \E u \in Users, x \in Amounts :
    \/ seed(u, x) \/ deposit(u, x) \/ mintShares(u, x) \/ withdraw(u, x) \/ redeemShares(u, x)
    \/ \E to \in (Users \cup {"vault"}) \ {u} : transferShares(u, to, x)

EngineStep ==
  \/ setPerpEngine
  \/ \E x \in Reservations : setPerpReserved(x)
  \/ \E c \in Caps : setEngineMaxWithdrawPerBlock(c)
  \/ \E u \in Users, x \in Amounts : perpWithdraw(u, x)
  \/ NextBlock

Next ==
  \/ GusdStep /\ UNCHANGED <<ledgerVars, vaultVars>>
  \/ LedgerStep /\ UNCHANGED vaultVars
  \/ StakerStep
  \/ EngineStep

Spec == Init /\ [][Next]_vars

-----------------------------------------------------------------------------
(* Properties                                                              *)

(* Every amount stays natural: no transfer, burn or payout underflows.     *)
TypeOK ==
  /\ bal \in [Holders -> Nat]
  /\ {reserve, stray, outside, totalToVault, totalToTreasury} \subseteq Nat
  /\ {mintFeeBps, redeemFeeBps} \subseteq 0..MaxFeeBps
  /\ revenueSink \in {None, "ledger"} /\ vault \in {None, "vault"}
  /\ treasury \in {None, "treasury"}
  /\ sgUSDBps \in 0..BPS
  /\ paused \in BOOLEAN /\ seeded \in BOOLEAN
  /\ perpEngine \in {None, "engine"}
  /\ shares \in [Users \cup {"vault"} -> Nat]
  /\ {shareSupply, perpReserved, engineMaxWithdrawPerBlock, engineWithdrawn} \subseteq Nat

(* No staker is diluted: a share is worth at least what it was before,     *)
(* through the rounding of every deposit, mint, withdrawal and redemption, *)
(* through revenue and stray transfers; only an engine payout lowers it.   *)
SharePriceNeverFalls ==
  [][\/ ~seeded
     \/ (totalAssets' + 1) * (shareSupply + 1) >= (totalAssets + 1) * (shareSupply' + 1)
     \/ engineWithdrawn' > engineWithdrawn]_vars

(* sgUSD: "a withdrawal that execution would revert is never displayed as  *)
(* available": what maxWithdraw and maxRedeem show can be executed, within *)
(* the owner's shares and the unreserved balance.                          *)
HonestPreviews ==
  \A u \in Users :
    /\ sharesUp(maxWithdraw(u)) <= shares[u]
    /\ maxWithdraw(u) <= availableForRedemption
    /\ maxRedeem(u) <= shares[u]
    /\ assetsDown(maxRedeem(u)) <= availableForRedemption

(* Genesis gate: no shares before the seed, and never none after it, since *)
(* the seed's shares are the vault's own.                                  *)
SeedGate ==
  /\ ~seeded => shareSupply = 0
  /\ seeded => shares["vault"] > 0
  /\ shareSupply = SumOf(shares)
=============================================================================
