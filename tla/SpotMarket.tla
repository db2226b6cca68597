----------------------------- MODULE SpotMarket -----------------------------
(***************************************************************************)
(* The spot market of a GPU: GPUIssuance (the primary sale), the vault of  *)
(* the protocol's own inventory (GPUMarketLiquidity), and GPUHook, which   *)
(* composes both with the native book inside one swap, reached through     *)
(* GpuRouter or from the pool manager directly.  A transaction is a step.  *)
(*                                                                         *)
(* The native book of the pool is external: how much of a swap it fills up *)
(* to the edge, and whether it goes on beyond, is chosen, within what the  *)
(* pool manager holds; it trades at the report's price, rounded against    *)
(* the taker.  A price is what the oracle has bound for the epoch          *)
(* (GpuOracle).  A swap whose ledger does not close reverts.  Payment is   *)
(* in gUSD; the mint and the redemption around a trade are GUSD's.         *)
(***************************************************************************)
EXTENDS Amounts

CONSTANTS
  BPS,              \* 10_000
  CD,               \* compositionDivisor, 10^16: GPU units times price per gUSD
  GusdDust,         \* GUSD_DUST
  GpuDust,          \* GPU_DUST
  MaxUint,          \* type(uint256).max, the demand of a buy that has none
  GpuIds,
  Prices,           \* prices the oracle may bind
  FeeChoices,       \* issuance and hook fees the owner may submit
  MaxIssuanceFee,   \* MAX_ISSUANCE_FEE_BPS
  MaxSpread,        \* MAX_SPREAD_BPS
  MaxHookFee,       \* MAX_HOOK_FEE_BPS
  PolChoices,       \* PolParams the owner may submit
  DefaultPol,       \* PolParams of a market that has none
  CapChoices,       \* pairs (per swap, per block) the owner may submit
  GusdAmounts,      \* gUSD of one call
  GpuAmounts,       \* GPU of one call
  LpAmounts,        \* pairs (gUSD, GPU) an LP adds or removes
  InitialGusd,      \* what the traders start with
  MaxIssued         \* bound on the GPU issued

ASSUME HookMathConstants ==
  /\ {BPS, CD} \subseteq Nat \ {0}
  /\ {GusdDust, GpuDust, MaxUint} \subseteq Nat

ASSUME SpotConstants ==
  /\ IsFiniteSet(GpuIds)
  /\ Prices \subseteq Nat \ {0}
  /\ FeeChoices \subseteq Nat
  /\ {MaxIssuanceFee, MaxHookFee} \subseteq 0..(BPS - 1)
  /\ MaxSpread \in 0..(BPS - 1)
  /\ PolChoices \cup {DefaultPol} \subseteq [askBps : Nat, bidBps : Nat, polFeeBps : Nat]
  /\ {DefaultPol.askBps, DefaultPol.bidBps, DefaultPol.polFeeBps} \subseteq 0..MaxSpread
  /\ CapChoices \cup LpAmounts \subseteq Nat \X Nat
  /\ GusdAmounts \cup GpuAmounts \subseteq Nat \ {0}
  /\ {InitialGusd, MaxIssued} \subseteq Nat

(* A call's gUSD, in units of GPU at the least price, is far below the     *)
(* demand of a buy that has none (2^256 - 1 against 10^16 per unit).       *)
ASSUME DemandUnbounded == \A x \in GusdAmounts : 2 * (x * CD) < MaxUint

-----------------------------------------------------------------------------
(* The arithmetic of GPUHook.sol: what the protocol's own liquidity (POL)  *)
(* and the issuance backstop do with the part of a swap that reaches past  *)
(* the report-anchored edge.  A market record s holds what the hook reads: *)
(*                                                                         *)
(*   price                       the report's price                        *)
(*   askBps, bidBps, polFeeBps   PolParams                                 *)
(*   polPaused, hookFeeBps       the hook's settings                       *)
(*   issueFeeBps, open           the issuance's fee and enabled flag       *)
(*   bid, ask                    the vault's inventories                   *)
(*   capLeft                     _polCapLeft()                             *)
(*                                                                         *)
(* A plan is what beforeSwap commits to, a fill what afterSwap settles.    *)
(* 1e20: the divisor of an amount of GPU times a price in basis points.    *)
Unit == CD * BPS

-----------------------------------------------------------------------------
(* GPUIssuance: the price of amount, as quoted and as executed.            *)
quoteIssue(s, amount) ==
  LET base == MulDivCeil(amount, s.price, CD)
      fee == MulDivCeil(base, s.issueFeeBps, BPS)
  IN  [base |-> base, fee |-> fee, total |-> base + fee]

(* The POL's ask is capped at the primary price and has no spread at all   *)
(* while it is paused.                                                     *)
effAskBps(s) == Lesser(IF s.polPaused THEN 0 ELSE s.askBps, s.issueFeeBps)

denomAsk(s) == s.price * (BPS + effAskBps(s))

bidDenom(s) == s.price * (BPS - s.bidBps)

(* GPU worth no more than an amount of gUSD.                               *)
gpuFor(amount, denom) == MulDivFloor(amount, Unit, denom)

(* Mutants: the backstop without its headroom; the reserve given back       *)
(* although the fee fits.                                                   *)
noHeadroom(s, leftover) == MulDivCeil(leftover, Unit, s.price * (BPS + s.issueFeeBps))

alwaysReserve(s, pmGusd) == PosPart(MulDivCeil(pmGusd, BPS, BPS + s.hookFeeBps) - 1)

polSpend(s, polGpu) == MulDivCeil(polGpu, denomAsk(s), Unit)

polFee(s, notional) == MulDivCeil(notional, s.polFeeBps, BPS)

hookFee(s, amount) == MulDivCeil(amount, s.hookFeeBps, BPS)

(* GPU the POL would deliver to a buyer, were it affordable.               *)
polAsk(s, demand) == Lesser(Lesser(demand, s.ask), gpuFor(s.capLeft, denomAsk(s)))

(* What the backstop may mint so that base + fee stays within leftover:    *)
(* two units are kept back for the two roundings.                          *)
issueBudget(s, leftover) ==
  MulDivFloor(PosPart(leftover - 2), Unit, s.price * (BPS + s.issueFeeBps))

(* All of want if its exact price fits.  A backstop that does not quote    *)
(* fills nothing.                                                          *)
backstopGpu(s, want, leftover) ==
  IF ~s.open THEN 0
  ELSE IF quoteIssue(s, want).total <= leftover THEN want
  ELSE Lesser(want, issueBudget(s, leftover))

(* The two rungs and their prices.                                         *)
rungs(s, polGpu, issueGpu) ==
  LET q == quoteIssue(s, issueGpu)
      spend == polSpend(s, polGpu)
  IN  [polGpu |-> polGpu, polSpend |-> spend, polFee |-> polFee(s, spend),
       issueGpu |-> issueGpu, base |-> q.base, fee |-> q.fee, total |-> q.total]

(* The buy ladder: POL inventory first, the backstop with what is left.    *)
ladderFrom(s, budget, demandCap, polGpu) ==
  rungs(s, polGpu, backstopGpu(s, demandCap - polGpu, budget - polSpend(s, polGpu)))

buyLadder(s, budget, demandCap) ==
  ladderFrom(s, budget, demandCap, Lesser(polAsk(s, demandCap), gpuFor(budget, denomAsk(s))))

(* gUSD a buyer's balance can be charged so that the hook fee on top of it *)
(* still fits.                                                             *)
spendCap(s, pmGusd) ==
  LET ceilCap == MulDivCeil(pmGusd, BPS, BPS + s.hookFeeBps)
  IN  IF ceilCap + hookFee(s, ceilCap) <= pmGusd THEN ceilCap ELSE PosPart(ceilCap - 1)

grossOf(s, supply) == supply + polFee(s, supply) + hookFee(s, supply)

(* One step of the loop that brings the gross draw within the budget.      *)
shrink(supply, s, budget) == PosPart(supply - PosPart(grossOf(s, supply) - budget))

supplyForGrossBudget(s, budget) ==
  LET s0 == MulDivFloor(budget, BPS, BPS + s.polFeeBps + s.hookFeeBps)
      s2 == shrink(shrink(s0, s, budget), s, budget)
  IN  shrink(shrink(s2, s, budget), s, budget)

-----------------------------------------------------------------------------
(* _plan: what beforeSwap commits for the part beyond the edge, given the  *)
(* pool manager's balance of the input; ok unless the residual has nowhere *)
(* to go.                                                                  *)
planBuyIn(s, beyond, pmGusd, lps) ==
  LET budget == Lesser(beyond, pmGusd)
      dust == beyond - budget <= GusdDust
  IN  [ok |-> dust \/ lps, commit |-> IF dust THEN beyond ELSE budget]

planSellIn(s, beyond, pmGpu, lps) ==
  LET polGpu == Lesser(Lesser(beyond, gpuFor(s.bid, bidDenom(s))),
                       Lesser(gpuFor(s.capLeft, bidDenom(s)), pmGpu))
      dust == beyond - polGpu <= GpuDust
  IN  [ok |-> dust \/ lps, commit |-> IF dust THEN beyond ELSE polGpu]

planCovered(beyond, lps, L) ==
  [ok |-> beyond - (L.polGpu + L.issueGpu) <= GpuDust \/ lps,
   commit |-> L.polGpu + L.issueGpu, charge |-> L.polSpend + L.total]

planBuyOut(s, beyond, pmGusd, lps) ==
  planCovered(beyond, lps, buyLadder(s, spendCap(s, pmGusd), beyond))

planSellOut(s, beyond, pmGpu, lps) ==
  LET budget == Lesser(Lesser(s.bid, s.capLeft), MulDivFloor(pmGpu, bidDenom(s), Unit))
      supply == Lesser(beyond, supplyForGrossBudget(s, budget))
  IN  [ok |-> beyond - supply <= GusdDust \/ lps, commit |-> supply,
       charge |-> MulDivCeil(grossOf(s, supply), Unit, bidDenom(s))]

-----------------------------------------------------------------------------
(* What afterSwap settles.  A fill says what the vault gives and gets      *)
(* (polGpu, bidIn, bidOut, gpuIn), what is minted (issueGpu for base and   *)
(* fee), and the fees of the ledger.                                       *)
buyFilled(L, hf, tail, charge, pays) ==
  [polGpu |-> L.polGpu, issueGpu |-> L.issueGpu, base |-> L.base, fee |-> L.fee,
   polFee |-> L.polFee, hookFee |-> hf, notional |-> L.polSpend, tail |-> tail,
   bidIn |-> PosPart(L.polSpend - L.polFee) + tail, charge |-> charge, pays |-> pays]

(* The whole of what is absorbed is charged: the tail rides to the vault.  *)
buyInFill(L, absorb, hf) ==
  buyFilled(L, hf, absorb - hf - (L.polSpend + L.total), absorb, absorb)

settleBuyIn(s, absorb) ==
  LET hf == Lesser(hookFee(s, absorb), absorb)
  IN  buyInFill(buyLadder(s, absorb - hf, MaxUint), absorb, hf)

buyOutFill(s, L) ==
  LET charge == L.polSpend + L.total
      hf == hookFee(s, charge)
  IN  buyFilled(L, hf, 0, charge, charge + hf)

settleBuyOut(s, supplied) ==
  LET polGpu == polAsk(s, supplied)
  IN  buyOutFill(s, rungs(s, polGpu, supplied - polGpu))

settleSellIn(s, absorb) ==
  LET polGpu == Lesser(Lesser(absorb, gpuFor(s.bid, bidDenom(s))),
                       gpuFor(s.capLeft, bidDenom(s)))
      gross == MulDivFloor(polGpu, bidDenom(s), Unit)
      net == gross - polFee(s, gross)
  IN  [gpuIn |-> absorb, bidOut |-> gross, polFee |-> polFee(s, gross),
       hookFee |-> hookFee(s, net), proceeds |-> net - hookFee(s, net)]

settleSellOut(s, supply) ==
  [gpuIn |-> MulDivCeil(grossOf(s, supply), Unit, bidDenom(s)), bidOut |-> grossOf(s, supply),
   polFee |-> polFee(s, supply), hookFee |-> hookFee(s, supply), proceeds |-> supply]

-----------------------------------------------------------------------------
VARIABLES
  price,            \* the bound report's price
  gpus,             \* GPUIssuance._gpus
  paused,           \* GPUIssuance
  bidInventoryGusd, askInventoryGpu, totalBidGusd,   \* the vault
  pools,            \* GPUs whose canonical pool is registered
  polParams, hookFeeBps, polPaused, polCaps,         \* the hook
  polVolume,        \* _polVolumeByBlock[block.number]
  gusd, gpu         \* balances

issuanceVars == <<gpus, paused>>
vaultVars == <<bidInventoryGusd, askInventoryGpu, totalBidGusd>>
settingVars == <<pools, polParams, hookFeeBps, polPaused, polCaps>>
vars == <<price, issuanceVars, vaultVars, settingVars, polVolume, gusd, gpu>>

GusdHolders == {"traders", "manager", "vault", "ledger", "hook"}
GpuHolders == {"traders", "manager", "vault"}

Created == {g \in GpuIds : gpus[g].created}

polCapLeft ==
  LET left == PosPart(polCaps[2] - polVolume)
  IN  IF polCaps[2] = 0 THEN polCaps[1] ELSE Lesser(polCaps[1], left)

paramsFor(g) ==
  IF polParams[g].askBps = 0 /\ polParams[g].bidBps = 0 THEN DefaultPol ELSE polParams[g]

market(g) ==
  [price |-> price[g], askBps |-> paramsFor(g).askBps, bidBps |-> paramsFor(g).bidBps,
   polFeeBps |-> paramsFor(g).polFeeBps, polPaused |-> polPaused, hookFeeBps |-> hookFeeBps,
   issueFeeBps |-> gpus[g].feeBps, open |-> gpus[g].enabled,
   bid |-> bidInventoryGusd[g], ask |-> askInventoryGpu[g], capLeft |-> polCapLeft]

-----------------------------------------------------------------------------
(* Mutants: a pull that leaves the vault's total, and a sale rounded down. *)
pulledOnce(total, amount) == total

issueFloor(g, amount) ==
  LET base == MulDivFloor(amount, price[g], CD)
  IN  /\ g \in Created
      /\ gpus[g].enabled /\ ~paused
      /\ gpus[g].totalIssued + amount <= MaxIssued
      /\ base <= gusd["traders"]
      /\ gpus' = [gpus EXCEPT ![g].totalIssued = @ + amount]
      /\ gusd' = [gusd EXCEPT !["traders"] = @ - base, !["vault"] = @ + base]
      /\ bidInventoryGusd' = [bidInventoryGusd EXCEPT ![g] = @ + base]
      /\ totalBidGusd' = totalBidGusd + base
      /\ gpu' = [gpu EXCEPT ![g]["traders"] = @ + amount]
      /\ UNCHANGED <<price, paused, askInventoryGpu, settingVars, polVolume>>

-----------------------------------------------------------------------------
(* The owner                                                               *)
createGpu(g, fee) ==
  /\ g \notin Created
  /\ fee <= MaxIssuanceFee
  /\ gpus' = [gpus EXCEPT ![g] = [created |-> TRUE, enabled |-> FALSE, feeBps |-> fee, totalIssued |-> 0]]
  /\ UNCHANGED <<price, paused, vaultVars, settingVars, polVolume, gusd, gpu>>

setIssuanceEnabled(g, enabled) ==
  /\ g \in Created
  /\ gpus' = [gpus EXCEPT ![g].enabled = enabled]
  /\ UNCHANGED <<price, paused, vaultVars, settingVars, polVolume, gusd, gpu>>

setIssuanceFee(g, fee) ==
  /\ g \in Created
  /\ fee <= MaxIssuanceFee
  /\ gpus' = [gpus EXCEPT ![g].feeBps = fee]
  /\ UNCHANGED <<price, paused, vaultVars, settingVars, polVolume, gusd, gpu>>

setPaused(p) ==
  /\ paused # p
  /\ paused' = p
  /\ UNCHANGED <<price, gpus, vaultVars, settingVars, polVolume, gusd, gpu>>

setPolParams(g, p) ==
  /\ {p.askBps, p.bidBps, p.polFeeBps} \subseteq 0..MaxSpread
  /\ p.polFeeBps <= p.askBps
  /\ polParams' = [polParams EXCEPT ![g] = p]
  /\ UNCHANGED <<price, issuanceVars, vaultVars, pools, hookFeeBps, polPaused, polCaps,
                 polVolume, gusd, gpu>>

setPolPaused(p) ==
  /\ polPaused' = p
  /\ UNCHANGED <<price, issuanceVars, vaultVars, pools, polParams, hookFeeBps, polCaps,
                 polVolume, gusd, gpu>>

setPolCaps(caps) ==
  /\ polCaps' = caps
  /\ UNCHANGED <<price, issuanceVars, vaultVars, pools, polParams, hookFeeBps, polPaused,
                 polVolume, gusd, gpu>>

setHookFeeBps(fee) ==
  /\ fee <= MaxHookFee
  /\ hookFeeBps' = fee
  /\ UNCHANGED <<price, issuanceVars, vaultVars, pools, polParams, polPaused, polCaps,
                 polVolume, gusd, gpu>>

(* The pool manager initialises the canonical pool of a created GPU.       *)
afterInitialize(g) ==
  /\ g \in Created \ pools
  /\ pools' = pools \cup {g}
  /\ UNCHANGED <<price, issuanceVars, vaultVars, polParams, hookFeeBps, polPaused, polCaps,
                 polVolume, gusd, gpu>>

-----------------------------------------------------------------------------
(* The primary sale                                                        *)
issued(g, amount) == [gpus EXCEPT ![g].totalIssued = @ + amount]

(* pullGusdToManager                                                       *)
pulled(total, amount) == total - amount

issue(g, amount) ==
  LET q == quoteIssue(market(g), amount)
  IN  /\ g \in Created
      /\ gpus[g].enabled /\ ~paused
      /\ gpus[g].totalIssued + amount <= MaxIssued
      /\ q.total <= gusd["traders"]
      /\ gpus' = issued(g, amount)
      /\ gusd' = [gusd EXCEPT !["traders"] = @ - q.total, !["ledger"] = @ + q.fee,
                              !["vault"] = @ + q.base]
      /\ bidInventoryGusd' = [bidInventoryGusd EXCEPT ![g] = @ + q.base]
      /\ totalBidGusd' = totalBidGusd + q.base
      /\ gpu' = [gpu EXCEPT ![g]["traders"] = @ + amount]
      /\ UNCHANGED <<price, paused, askInventoryGpu, settingVars, polVolume>>

-----------------------------------------------------------------------------
(* Swaps.  The native book fills w of the specified amount up to the edge; *)
(* lps: it goes on beyond, as far as n in all.                             *)

(* At the report's price, rounded against the taker.                       *)
nativeGpuOut(g, in) == MulDivFloor(in, CD, price[g])
nativeGusdIn(g, out) == MulDivCeil(out, price[g], CD)
nativeGusdOut(g, in) == MulDivFloor(in, price[g], CD)
nativeGpuIn(g, out) == MulDivCeil(out, CD, price[g])

NoPlan == [ok |-> TRUE, commit |-> 0, charge |-> 0]

(* A buy: n native gUSD for q native GPU, and the fill f.                  *)
buyFill(g, f, n, q) ==
  /\ n + f.pays <= gusd["traders"]
  /\ q <= gpu[g]["manager"]
  /\ f.issueGpu > 0 => ~paused /\ gpus[g].enabled
  /\ gpus[g].totalIssued + f.issueGpu <= MaxIssued
  /\ gpus' = issued(g, f.issueGpu)
  /\ gusd' = [gusd EXCEPT !["traders"] = @ - n - f.pays,
                          !["manager"] = @ + n,
                          !["ledger"] = @ + f.fee + f.polFee + f.hookFee,
                          !["vault"] = @ + f.base + f.bidIn,
                          !["hook"] = @ + f.pays - (f.base + f.bidIn + f.fee + f.polFee + f.hookFee)]
  /\ gpu' = [gpu EXCEPT ![g]["traders"] = @ + q + f.polGpu + f.issueGpu,
                        ![g]["manager"] = @ - q,
                        ![g]["vault"] = @ - f.polGpu]
  /\ bidInventoryGusd' = [bidInventoryGusd EXCEPT ![g] = @ + f.base + f.bidIn]
  /\ askInventoryGpu' = [askInventoryGpu EXCEPT ![g] = @ - f.polGpu]
  /\ totalBidGusd' = totalBidGusd + f.base + f.bidIn
  /\ polVolume' = polVolume + f.notional
  /\ UNCHANGED <<price, paused, settingVars>>

(* A sell: n native GPU for q native gUSD, and the fill f.                 *)
sellFill(g, f, n, q) ==
  /\ n + f.gpuIn <= gpu[g]["traders"]
  /\ q <= gusd["manager"]
  /\ f.bidOut <= bidInventoryGusd[g]
  /\ gusd' = [gusd EXCEPT !["traders"] = @ + q + f.proceeds,
                          !["manager"] = @ - q,
                          !["ledger"] = @ + f.polFee + f.hookFee,
                          !["vault"] = @ - f.bidOut]
  /\ gpu' = [gpu EXCEPT ![g]["traders"] = @ - n - f.gpuIn,
                        ![g]["manager"] = @ + n,
                        ![g]["vault"] = @ + f.gpuIn]
  /\ bidInventoryGusd' = [bidInventoryGusd EXCEPT ![g] = @ - f.bidOut]
  /\ askInventoryGpu' = [askInventoryGpu EXCEPT ![g] = @ + f.gpuIn]
  /\ totalBidGusd' = pulled(totalBidGusd, f.bidOut)
  /\ polVolume' = polVolume + f.bidOut
  /\ UNCHANGED <<price, issuanceVars, settingVars>>

(* Exact in: the caller has paid before the swap (the router) or pays      *)
(* after it.  What the native leg leaves, up to the manager's balance, is  *)
(* absorbed; it must be what was committed.                                *)
swapBuyIn(g, amount, prepaid, w, n, lps) ==
  LET pm == gusd["manager"] + (IF prepaid THEN amount ELSE 0)
      plan == IF w < amount THEN planBuyIn(market(g), amount - w, pm, lps) ELSE NoPlan
      absorb == Lesser(amount - n, pm)
  IN  /\ g \in pools
      /\ ~lps => n = w
      /\ n > 0 => gpu[g]["manager"] > 0
      /\ plan.ok
      /\ absorb = plan.commit
      /\ w <= n /\ n <= amount - plan.commit
      /\ buyFill(g, settleBuyIn(market(g), absorb), n, nativeGpuOut(g, n))

swapSellIn(g, amount, prepaid, w, n, lps) ==
  LET pm == gpu[g]["manager"] + (IF prepaid THEN amount ELSE 0)
      plan == IF w < amount THEN planSellIn(market(g), amount - w, pm, lps) ELSE NoPlan
      absorb == Lesser(amount - n, pm)
  IN  /\ g \in pools
      /\ ~lps => n = w
      /\ n > 0 => gusd["manager"] > 0
      /\ plan.ok
      /\ absorb = plan.commit
      /\ w <= n /\ n <= amount - plan.commit
      /\ sellFill(g, settleSellIn(market(g), absorb), n, nativeGusdOut(g, n))

(* Exact out: the native leg delivers what is not committed; a leg that    *)
(* dries up leaves the ledger open.  paid: what the caller has settled.    *)
settledBuyOut(g, demand, paid, w, lps, plan, f) ==
  LET n == demand - plan.commit
  IN  /\ g \in pools
      /\ w <= gpu[g]["manager"]
      /\ plan.ok
      /\ ~lps => n = w
      /\ f.charge = plan.charge
      /\ f.pays <= gusd["manager"] + paid
      /\ paid > 0 => nativeGusdIn(g, n) + f.pays <= paid
      /\ buyFill(g, f, nativeGusdIn(g, n), n)

swapBuyOut(g, demand, paid, w, lps) ==
  LET plan == IF w < demand
              THEN planBuyOut(market(g), demand - w, gusd["manager"] + paid, lps)
              ELSE NoPlan
  IN  settledBuyOut(g, demand, paid, w, lps, plan, settleBuyOut(market(g), plan.commit))

settledSellOut(g, demand, paid, w, lps, plan, f) ==
  LET n == demand - plan.commit
  IN  /\ g \in pools
      /\ w <= gusd["manager"]
      /\ plan.ok
      /\ ~lps => n = w
      /\ f.gpuIn = plan.charge
      /\ f.gpuIn <= gpu[g]["manager"] + paid
      /\ paid > 0 => nativeGpuIn(g, n) + f.gpuIn <= paid
      /\ sellFill(g, f, nativeGpuIn(g, n), n)

swapSellOut(g, demand, paid, w, lps) ==
  LET plan == IF w < demand
              THEN planSellOut(market(g), demand - w, gpu[g]["manager"] + paid, lps)
              ELSE NoPlan
  IN  settledSellOut(g, demand, paid, w, lps, plan, settleSellOut(market(g), plan.commit))

-----------------------------------------------------------------------------
(* GpuRouter: the only caller that pays first.  A GPU without a pool is    *)
(* bought from the issuance.                                               *)
buy(g, gpuOut, maxPaid, w, lps) ==
  /\ maxPaid <= gusd["traders"]
  /\ \/ /\ g \notin pools
        /\ quoteIssue(market(g), gpuOut).total <= maxPaid
        /\ issue(g, gpuOut)
     \/ swapBuyOut(g, gpuOut, maxPaid, w, lps)

(* LPs and the next block, whose reports may carry other prices.           *)
modifyLiquidity(g, in, x, y) ==
  LET from == IF in THEN "traders" ELSE "manager"
      to == IF in THEN "manager" ELSE "traders"
  IN  /\ g \in pools
      /\ x <= gusd[from] /\ y <= gpu[g][from]
      /\ gusd' = [gusd EXCEPT ![from] = @ - x, ![to] = @ + x]
      /\ gpu' = [gpu EXCEPT ![g][from] = @ - y, ![g][to] = @ + y]
      /\ UNCHANGED <<price, issuanceVars, vaultVars, settingVars, polVolume>>

NextBlock(p) ==
  /\ price' = p
  /\ polVolume' = 0
  /\ UNCHANGED <<issuanceVars, vaultVars, settingVars, gusd, gpu>>

Init ==
  /\ price \in [GpuIds -> Prices]
  /\ gpus = [g \in GpuIds |-> [created |-> FALSE, enabled |-> FALSE, feeBps |-> 0, totalIssued |-> 0]]
  /\ paused = FALSE
  /\ bidInventoryGusd = [g \in GpuIds |-> 0]
  /\ askInventoryGpu = [g \in GpuIds |-> 0]
  /\ totalBidGusd = 0
  /\ pools = {}
  /\ polParams = [g \in GpuIds |-> [askBps |-> 0, bidBps |-> 0, polFeeBps |-> 0]]
  /\ hookFeeBps = 0
  /\ polPaused = FALSE
  /\ polCaps \in CapChoices
  /\ polVolume = 0
  /\ gusd = [h \in GusdHolders |-> IF h = "traders" THEN InitialGusd ELSE 0]
  /\ gpu = [g \in GpuIds |-> [h \in GpuHolders |-> 0]]

OwnerStep ==
  \/ \E g \in GpuIds, fee \in FeeChoices : createGpu(g, fee) \/ setIssuanceFee(g, fee)
  \/ \E g \in GpuIds, b \in BOOLEAN : setIssuanceEnabled(g, b)
  \/ \E g \in GpuIds, p \in PolChoices : setPolParams(g, p)
  \/ \E b \in BOOLEAN : setPaused(b) \/ setPolPaused(b)
  \/ \E caps \in CapChoices : setPolCaps(caps)
  \/ \E fee \in FeeChoices : setHookFeeBps(fee)

TraderStep ==
  \E g \in GpuIds, lps \in BOOLEAN :
    \/ \E x \in GusdAmounts : \E w \in 0..x :
         \/ \E prepaid \in BOOLEAN, n \in w..x : swapBuyIn(g, x, prepaid, w, n, lps)
         \/ \E paid \in {0} \cup GpuAmounts : swapSellOut(g, x, paid, w, lps)
    \/ \E y \in GpuAmounts : \E w \in 0..y :
         \/ \E prepaid \in BOOLEAN, n \in w..y : swapSellIn(g, y, prepaid, w, n, lps)
         \/ \E maxPaid \in GusdAmounts : buy(g, y, maxPaid, w, lps)
         \/ swapBuyOut(g, y, 0, w, lps)

PublicStep ==
  \/ \E g \in GpuIds : afterInitialize(g)
  \/ \E g \in GpuIds, y \in GpuAmounts : issue(g, y)
  \/ \E g \in GpuIds, lp \in LpAmounts, in \in BOOLEAN : modifyLiquidity(g, in, lp[1], lp[2])
  \/ \E p \in [GpuIds -> Prices] : NextBlock(p)

Next == OwnerStep \/ TraderStep \/ PublicStep

Spec == Init /\ [][Next]_vars

-----------------------------------------------------------------------------
(* Properties                                                              *)

TypeOK ==
  /\ price \in [GpuIds -> Prices]
  /\ gpus \in [GpuIds -> [created : BOOLEAN, enabled : BOOLEAN, feeBps : 0..MaxIssuanceFee,
                          totalIssued : Nat]]
  /\ paused \in BOOLEAN /\ polPaused \in BOOLEAN
  /\ {bidInventoryGusd, askInventoryGpu} \subseteq [GpuIds -> Nat]
  /\ {totalBidGusd, polVolume} \subseteq Nat
  /\ pools \subseteq GpuIds
  /\ polParams \in [GpuIds -> [askBps : 0..MaxSpread, bidBps : 0..MaxSpread, polFeeBps : 0..MaxSpread]]
  /\ hookFeeBps \in 0..MaxHookFee
  /\ polCaps \in Nat \X Nat
  /\ gusd \in [GusdHolders -> Nat]
  /\ gpu \in [GpuIds -> [GpuHolders -> Nat]]

(* GPUMarketLiquidity: what the vault books for each GPU, through issues,  *)
(* backstop mints, ladder proceeds, tails and absorbed dust, is exactly    *)
(* what it holds, so no market's inventory is paid out of another's.       *)
InventoryBacked ==
  /\ gusd["vault"] = totalBidGusd
  /\ totalBidGusd = SumOf(bidInventoryGusd)
  /\ \A g \in GpuIds : gpu[g]["vault"] = askInventoryGpu[g]

(* GPUToken: every claim in circulation was paid for at the issuance.      *)
SupplyIsIssued ==
  \A g \in GpuIds : gpus[g].totalIssued = gpu[g]["traders"] + gpu[g]["manager"] + gpu[g]["vault"]

(* GPUHook: what a swap absorbs leaves the hook in the same transaction,   *)
(* to the last unit: the fees, the backstop's price, the vault's proceeds  *)
(* and the tail, each rounded on its own, add up to what the trader pays.  *)
HookHoldsNothing == gusd["hook"] = 0

(* The spot books: natural amounts, inventory, supply and the hook's       *)
(* ledger together.                                                        *)
BooksExact == TypeOK /\ InventoryBacked /\ SupplyIsIssued /\ HookHoldsNothing

(* The gUSD of the vault and the ledger, less the claims in circulation at *)
(* the report's price.                                                     *)
Worth ==
  (gusd["vault"] + gusd["ledger"]) * CD
    - SumOf([g \in GpuIds |-> price[g] * (gpu[g]["traders"] + gpu[g]["manager"])])

(* GPUHook, GPUIssuance: at the price of the report no trade, of any shape *)
(* and split over the native book, the POL and the backstop, and no issue  *)
(* costs the protocol anything: every rounding goes against the trader.    *)
(* And a swap never moves more POL notional than the per-swap cap and what *)
(* the block has left, although plan and settlement compute it separately  *)
(* (_polCapLeft).                                                          *)
NeverTradesAtALoss ==
  [][/\ price' = price => Worth' >= Worth
     /\ polVolume' > polVolume => polVolume' - polVolume <= polCapLeft]_vars

(* _buyLadder: while the issuance is open, what an exact-in buyer pays and *)
(* neither source spends (the tail that rides to the vault) is a rounding  *)
(* remainder: the headroom and less than one unit of GPU.                  *)
TailIsDust ==
  \A g \in pools, x \in GusdAmounts :
    gpus[g].enabled =>
      LET f == settleBuyIn(market(g), x)
      IN  0 <= f.tail /\ f.tail * CD <= 3 * CD + 2 * price[g]

(* GpuRouter.buyExactIn: "a market with no capacity for the tail reverts": *)
(* whatever the market's state, an exact-in buy that goes through leaves   *)
(* no more than dust behind.                                               *)
NoCapacityReverts ==
  \A g \in pools, x \in GusdAmounts :
    LET m == market(g)
        f == settleBuyIn(m, x)
    IN  planBuyIn(m, x, gusd["manager"] + x, FALSE).ok /\ ~paused
          => f.tail * CD <= 3 * CD + 2 * price[g]
=============================================================================
