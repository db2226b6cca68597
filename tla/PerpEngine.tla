----------------------------- MODULE PerpEngine -----------------------------
(***************************************************************************)
(* The gUSD-settled perpetual engine: GpuPerpEngine.sol with its deployed  *)
(* libraries PerpFunding and PerpLiquidation, and the surface of the sgUSD *)
(* vault the engine calls.  Every external call is one atomic transaction, *)
(* so every entry point is one action; a revert is a step that cannot be   *)
(* taken.  Solidity's checked subtractions are plain integer subtractions: *)
(* that TypeOK keeps every amount natural says that none of them reverts.  *)
(*                                                                         *)
(* Abstractions.  Addresses, GPU ids and the sides are model values; the   *)
(* two-hash mapping keys are the tuples they hash.  `gusd' holds the      *)
(* balances of the engine, the vault, the ledger and, as one pool, all     *)
(* wallets (traders, executors, LPs); `stray' is what the engine was sent  *)
(* by claims that name it as their payee, and never accounts for.  The     *)
(* oracle is reduced to what one consumer sees: every report consumed for  *)
(* a GPU within one epoch carries one price (GpuOracle models how).        *)
(* Ordinary vault deposits and redemptions are reduced to their assets     *)
(* (SgUSD models the shares).  openedAt and the events, which no later     *)
(* step reads, are left out.                                               *)
(***************************************************************************)
EXTENDS Amounts

CONSTANTS
  BPS,            \* 10_000: denominator of fees, margins and leverage
  SCALE,          \* FUNDING_SCALE, 1e18: denominator of per-unit cumulatives
  PPM,            \* 1e6: denominator of per-second rates
  MaxWindow,      \* 3600: longest time one accrual may charge for
  Accounts,       \* traders
  GpuIds,         \* market ids
  Prices,         \* prices a report can carry
  LimitPrices,    \* acceptable and trigger prices an order may carry
  ParamChoices,   \* MarketParams records the owner may submit
  Sizes,          \* sizeDeltaUsd values an order may carry (0: whole position)
  Collaterals,    \* collateralDeltaUsd values of an increase
  ExecFees,       \* execution fees a trader may offer
  MinExecutionFee,
  Delays,         \* minOrderDelay values the owner may set
  MaxOrderDelay,
  Caps,           \* engineMaxWithdrawPerBlock values the vault's owner may set
  LpAmounts,      \* assets of one ordinary vault deposit or redemption
  ClaimAmounts,   \* amounts a trader asks claim for
  Payees,         \* where a trader has a claim paid, named as in `gusd'
  BlockTimes,     \* seconds from one block to the next
  EpochLength,    \* seconds per oracle epoch
  MaxFeeBps, MaxRatePpm,
  InitialWallets, \* gUSD outside the protocol at the start
  InitialVault,   \* gUSD LPs hold in the vault at the start
  MaxOrders,      \* bound: orders ever created
  MaxTime         \* bound: last block timestamp

ASSUME DenominatorsPositive ==
  /\ BPS \in Nat \ {0}
  /\ SCALE \in Nat \ {0}
  /\ PPM \in Nat \ {0}
  /\ MaxWindow \in Nat \ {0}

ASSUME PerpConstants ==
  /\ IsFiniteSet(Accounts) /\ Accounts # {}
  /\ IsFiniteSet(GpuIds) /\ GpuIds # {}
  /\ Prices \subseteq Nat \ {0}
  /\ LimitPrices \subseteq Nat \ {0}
  /\ Sizes \subseteq Nat
  /\ Collaterals \subseteq Nat
  /\ ExecFees \subseteq Nat
  /\ Delays \subseteq Nat
  /\ Caps \subseteq Nat
  /\ LpAmounts \subseteq Nat \ {0}
  /\ ClaimAmounts \subseteq Nat
  /\ Payees \subseteq {"engine", "vault", "ledger", "wallets"}
  /\ BlockTimes \subseteq Nat
  /\ EpochLength \in Nat \ {0}
  /\ {MinExecutionFee, MaxOrderDelay, MaxFeeBps, MaxRatePpm} \subseteq Nat
  /\ {InitialWallets, InitialVault, MaxOrders, MaxTime} \subseteq Nat

VARIABLES
  now,             \* block.timestamp
  paused,
  minOrderDelay,
  market,          \* _markets and _marketExists
  orders,          \* _orders
  orderNonce,
  positions,       \* _positions; size 0 is the deleted record
  activeTrigger,   \* _activeTrigger; 0 is none
  claimableOf,
  totals,          \* Totals
  epochPrice,      \* per GPU: price bound for the current epoch, 0 when unbound
  perpReserved,    \* sgUSD.perpReserved
  withdrawCap,     \* sgUSD.engineMaxWithdrawPerBlock
  withdrawn,       \* paid to the engine's claims in the current block
  gusd             \* gUSD balances

engineVars == <<market, orders, orderNonce, positions, activeTrigger,
                claimableOf, totals>>
adminVars == <<paused, minOrderDelay>>
vaultVars == <<perpReserved, withdrawCap, withdrawn>>
vars == <<now, engineVars, adminVars, epochPrice, vaultVars, gusd>>

-----------------------------------------------------------------------------
(* PerpMath.sol: the pure fee, PnL and funding arithmetic, in the smallest *)
(* gUSD unit.  The contract's fixed denominators are constants, so that    *)
(* TLC can use small ones and the proofs hold for every one of them.       *)
feeBps(amount, bps) == MulDivCeil(amount, bps, BPS)

maintenance(sizeUsd, mmBps) == MulDivCeil(sizeUsd, mmBps, BPS)

(* Signed: a gain is rounded down, the size of a loss up.                  *)
pnl(sizeUsd, entry, isLong, price) ==
  LET move == IF isLong THEN price - entry ELSE entry - price
  IN  CASE sizeUsd = 0 \/ move = 0 -> 0
        [] sizeUsd # 0 /\ move > 0 -> MulDivFloor(sizeUsd, move, entry)
        [] sizeUsd # 0 /\ move < 0 -> -MulDivCeil(sizeUsd, -move, entry)

fundingOwed(sizeUsd, cum, checkpoint) ==
  IF cum <= checkpoint THEN 0 ELSE MulDivCeil(sizeUsd, cum - checkpoint, SCALE)

fundingEarned(sizeUsd, cum, checkpoint) ==
  IF cum <= checkpoint THEN 0 ELSE MulDivFloor(sizeUsd, cum - checkpoint, SCALE)

(* |long - short| over the total open interest, in SCALE.                  *)
skewFraction(longOi, shortOi) ==
  LET skew == IF longOi >= shortOi THEN longOi - shortOi ELSE shortOi - longOi
  IN  IF longOi + shortOi = 0 THEN 0
      ELSE MulDivFloor(skew, SCALE, longOi + shortOi)

fundingDrift(rate, window, skewFrac) == MulDivFloor(rate, window * skewFrac, PPM)

borrowDrift(rate, window) == MulDivCeil(rate, window * SCALE, PPM)

-----------------------------------------------------------------------------
TriggerKinds == {"StopLoss", "TakeProfit"}
OrderKinds == {"MarketIncrease", "MarketDecrease"} \cup TriggerKinds
OrderIds == 1..MaxOrders
PositionKeys == Accounts \X GpuIds \X BOOLEAN
TriggerKeys == PositionKeys \X TriggerKinds

MarketParams ==
  [maxLeverageBps: Nat, maintenanceMarginBps: Nat, openFeeBps: Nat,
   closeFeeBps: Nat, liquidationFeeBps: Nat, fundingRate: Nat,
   borrowRate: Nat, maxOiUsd: Nat, minCollateralUsd: Nat, maxPositionUsd: Nat]

ASSUME ParamChoicesTyped == ParamChoices \subseteq MarketParams

(* A market's record; chargeX and creditX are the per-unit cumulatives.    *)
Market ==
  [exists: BOOLEAN, enabled: BOOLEAN, params: MarketParams,
   openLong: Nat, openShort: Nat, chargeLong: Nat, chargeShort: Nat,
   creditLong: Nat, creditShort: Nat, borrow: Nat, updatedAt: Nat]

Position ==
  [size: Nat, collateral: Nat, entry: Nat, feeCkpt: Nat, creditCkpt: Nat,
   borrowCkpt: Nat, earnedFunding: Nat, reserveShare: Nat]

Order ==
  [account: Accounts, market: GpuIds, isLong: BOOLEAN, kind: OrderKinds,
   status: {"None", "Pending", "Executed", "Cancelled"}, size: Nat,
   collateral: Nat, acceptable: Nat, trigger: Nat, fee: Nat, createdAt: Nat]

NoPosition ==
  [size |-> 0, collateral |-> 0, entry |-> 0, feeCkpt |-> 0, creditCkpt |-> 0,
   borrowCkpt |-> 0, earnedFunding |-> 0, reserveShare |-> 0]

KeyOf(o) == <<o.account, o.market, o.isLong>>
TriggerKeyOf(o) == <<KeyOf(o), o.kind>>

(* _validateParams                                                         *)
ValidParams(p) ==
  /\ p.maxLeverageBps >= BPS
  /\ p.maintenanceMarginBps \in 1..(BPS - 1)
  /\ p.maintenanceMarginBps * p.maxLeverageBps < BPS * BPS
  /\ p.maxLeverageBps * p.openFeeBps < BPS * BPS
  /\ {p.openFeeBps, p.closeFeeBps, p.liquidationFeeBps} \subseteq 0..MaxFeeBps
  /\ {p.fundingRate, p.borrowRate} \subseteq 0..MaxRatePpm
  /\ 0 \notin {p.maxOiUsd, p.minCollateralUsd, p.maxPositionUsd}

-----------------------------------------------------------------------------
(* Mutants: what the definitions below would be with a plausible mistake.  *)

(* setMarketParams that does not accrue under the old rates first.         *)
setParamsOnly(g, p) ==
  /\ market[g].exists
  /\ ValidParams(p)
  /\ market' = [market EXCEPT ![g].params = p]
  /\ UNCHANGED <<now, orders, orderNonce, positions, activeTrigger, claimableOf,
                 totals, adminVars, epochPrice, vaultVars, gusd>>

(* A partial close that leaves the fresh checkpoints in place.             *)
noRewind(m, pos, isLong, remaining, before, owedRem, borrowRem) == pos

(* A cancellation that pays the refund and leaves the order pending.       *)
stillPending(os, id) == os

(* A trigger that stays indexed after its order is done.                   *)
staleTrigger(o) == activeTrigger

(* A decrease that trusts the size it checked when it was created.         *)
uncheckedSize(o, pos) == IF o.size = 0 THEN pos.size ELSE o.size

(* The average entry price rounded in the trader's favour.                 *)
generousEntry(pos, isLong, size, price) ==
  LET weighted == pos.size * pos.entry + size * price
  IN  IF pos.size = 0 THEN price
      ELSE IF isLong THEN MulDivFloor(weighted, 1, pos.size + size)
                     ELSE MulDivCeil(weighted, 1, pos.size + size)

(* Redemptions that may touch what is reserved for traders.                *)
wholeBalance == gusd.vault

-----------------------------------------------------------------------------
(* PerpFunding                                                             *)

(* accrue: the larger side is charged, the other side is credited pro rata *)
accrue(m, t) ==
  LET window == Lesser(t - m.updatedAt, MaxWindow)
      skewFrac == skewFraction(m.openLong, m.openShort)
      drift == IF skewFrac > 0
               THEN fundingDrift(Lesser(m.params.fundingRate, MaxRatePpm), window, skewFrac)
               ELSE 0
      longPays == m.openLong >= m.openShort
      credit(pay, receive) ==
        IF receive > 0 THEN MulDivFloor(drift, pay, receive) ELSE 0
  IN  IF t <= m.updatedAt THEN m
      ELSE [m EXCEPT
              !.chargeLong = @ + IF longPays THEN drift ELSE 0,
              !.creditShort = @ + IF longPays THEN credit(m.openLong, m.openShort) ELSE 0,
              !.chargeShort = @ + IF longPays THEN 0 ELSE drift,
              !.creditLong = @ + IF longPays THEN 0 ELSE credit(m.openShort, m.openLong),
              !.borrow = @ + borrowDrift(m.params.borrowRate, window),
              !.updatedAt = t]

chargeCum(m, isLong) == IF isLong THEN m.chargeLong ELSE m.chargeShort
creditCum(m, isLong) == IF isLong THEN m.creditLong ELSE m.creditShort

(* The checkpoints of a position brought to the market's cumulatives.      *)
snapshot(m, pos, isLong) ==
  [pos EXCEPT !.feeCkpt = chargeCum(m, isLong),
              !.creditCkpt = creditCum(m, isLong),
              !.borrowCkpt = m.borrow]

(* settle: what the position owes and has earned since its checkpoints.    *)
settle(m, pos, isLong) ==
  [owed |-> fundingOwed(pos.size, chargeCum(m, isLong), pos.feeCkpt),
   earned |-> fundingEarned(pos.size, creditCum(m, isLong), pos.creditCkpt),
   borrow |-> fundingOwed(pos.size, m.borrow, pos.borrowCkpt),
   pos |-> snapshot(m, pos, isLong)]

(* A checkpoint set back from cum so that `debt' is owed again on `size',  *)
(* never by more than the delta between cum and ckpt.                      *)
rewound(cum, ckpt, debt, size) ==
  cum - Lesser(MulDivFloor(debt, SCALE, size), cum - ckpt)

(* _chargeFunding: settle re-snapshots the checkpoints first, and the      *)
(* rewind of what collateral cannot cover is clamped by the delta that is  *)
(* left after it.                                                          *)
chargeFunding(m, pos, isLong) ==
  LET s == settle(m, pos, isLong)
      funding == Lesser(s.owed, pos.collateral)
      borrow == Lesser(s.borrow, pos.collateral - funding)
      settled == s.pos
  IN  [charged |-> funding + borrow,
       earned |-> s.earned,
       pos |-> [settled EXCEPT
                  !.feeCkpt = IF funding < s.owed
                              THEN rewound(chargeCum(m, isLong), settled.feeCkpt,
                                           s.owed - funding, pos.size)
                              ELSE @,
                  !.borrowCkpt = IF borrow < s.borrow
                                 THEN rewound(m.borrow, settled.borrowCkpt,
                                              s.borrow - borrow, pos.size)
                                 ELSE @]]

(* _rewindFunding: the part of the debt that a partial close did not       *)
(* settle goes back into the checkpoints, clamped by the pre-settle delta. *)
rewindFunding(m, pos, isLong, remaining, before, owedRem, borrowRem) ==
  [pos EXCEPT
     !.feeCkpt = rewound(chargeCum(m, isLong), before.feeCkpt, owedRem, remaining),
     !.borrowCkpt = rewound(m.borrow, before.borrowCkpt, borrowRem, remaining)]

-----------------------------------------------------------------------------
(* Pieces shared by the entry points                                       *)

addOpenInterest(m, isLong, delta) ==
  IF isLong THEN [m EXCEPT !.openLong = @ + delta]
            ELSE [m EXCEPT !.openShort = @ + delta]

(* A trader's order pays for its collateral and fee; what goes back.       *)
escrow(o) == o.fee + IF o.kind = "MarketIncrease" THEN o.collateral ELSE 0

(* _setReserveShare: the position's positive uPnL replaces its old share.  *)
setReserveShare(t, pos, uPnl) ==
  [t EXCEPT !.reservedPnl = @ - pos.reserveShare + PosPart(uPnl)]

(* _creditClaimable                                                        *)
creditClaimable(t, due) == [t EXCEPT !.totalClaimable = @ + due]

reservation(t) == t.totalClaimable + t.reservedPnl + t.totalEarnedFunding

(* The reservation pushed before the totals are written.                   *)
pushOldReservation == perpReserved' = reservation(totals)

(* _pushReservation: the vault learns the totals this transaction leaves.  *)
pushReservation == perpReserved' = reservation(totals')

(* oracle.consume, as its consumers see it: the first report consumed for  *)
(* a GPU in an epoch binds the price, later ones must carry the same.      *)
Consume(g, price) ==
  /\ epochPrice[g] \in {0, price}
  /\ epochPrice' = [epochPrice EXCEPT ![g] = price]

checkTrigger(kind, isLong, price, trigger) ==
  IF (kind = "TakeProfit") = isLong THEN price >= trigger ELSE price <= trigger

(* _cancelOrder, applied to the order table and the trigger index.         *)
cancelled(os, id) == [os EXCEPT ![id].status = "Cancelled"]

withoutTrigger(o) ==
  IF o.kind \in TriggerKinds
  THEN [activeTrigger EXCEPT ![TriggerKeyOf(o)] = 0]
  ELSE activeTrigger

-----------------------------------------------------------------------------
(* Owner                                                                   *)

createMarket(g, p) ==
  /\ ~market[g].exists
  /\ ValidParams(p)
  /\ market' = [market EXCEPT ![g].exists = TRUE, ![g].enabled = TRUE,
                              ![g].params = p, ![g].updatedAt = now]
  /\ UNCHANGED <<now, orders, orderNonce, positions, activeTrigger, claimableOf,
                 totals, adminVars, epochPrice, vaultVars, gusd>>

(* Accrues under the old rates before the new parameters apply.            *)
setMarketParams(g, p) ==
  /\ market[g].exists
  /\ ValidParams(p)
  /\ market' = [market EXCEPT ![g] = [accrue(@, now) EXCEPT !.params = p]]
  /\ UNCHANGED <<now, orders, orderNonce, positions, activeTrigger, claimableOf,
                 totals, adminVars, epochPrice, vaultVars, gusd>>

setMarketEnabled(g, enabled) ==
  /\ market[g].exists
  /\ market' = [market EXCEPT ![g].enabled = enabled]
  /\ UNCHANGED <<now, orders, orderNonce, positions, activeTrigger, claimableOf,
                 totals, adminVars, epochPrice, vaultVars, gusd>>

setMinOrderDelay(seconds) ==
  /\ seconds <= MaxOrderDelay
  /\ minOrderDelay' = seconds
  /\ UNCHANGED <<now, engineVars, paused, epochPrice, vaultVars, gusd>>

pause ==
  /\ ~paused
  /\ paused' = TRUE
  /\ UNCHANGED <<now, engineVars, minOrderDelay, epochPrice, vaultVars, gusd>>

unpause ==
  /\ paused
  /\ paused' = FALSE
  /\ UNCHANGED <<now, engineVars, minOrderDelay, epochPrice, vaultVars, gusd>>

-----------------------------------------------------------------------------
(* Traders                                                                 *)

(* What the three shapes of createOrder share: the pause, the fee floor,   *)
(* the escrow pulled from the trader and the new pending order.            *)
Enter(o, refund) ==
  /\ ~paused
  /\ market[o.market].exists
  /\ o.fee >= MinExecutionFee
  /\ orderNonce < MaxOrders
  /\ escrow(o) <= gusd.wallets
  /\ orderNonce' = orderNonce + 1
  /\ gusd' = [gusd EXCEPT !.wallets = @ - escrow(o) + refund,
                          !.engine = @ + escrow(o) - refund]
  /\ UNCHANGED <<now, market, positions, claimableOf, totals, adminVars,
                 epochPrice, vaultVars>>

NewOrder(a, g, isLong, kind, size, collateral, acceptable, trigger, fee) ==
  [account |-> a, market |-> g, isLong |-> isLong, kind |-> kind,
   status |-> "Pending", size |-> size, collateral |-> collateral,
   acceptable |-> acceptable, trigger |-> trigger, fee |-> fee, createdAt |-> now]

createIncrease(a, g, isLong, size, collateral, acceptable, fee) ==
  LET params == market[g].params
      o == NewOrder(a, g, isLong, "MarketIncrease", size, collateral, acceptable, 0, fee)
  IN  /\ Enter(o, 0)
      /\ market[g].enabled
      /\ size # 0 /\ collateral # 0
      /\ positions[<<a, g, isLong>>].collateral + collateral >= params.minCollateralUsd
      /\ MulDivCeil(size, BPS, collateral) <= params.maxLeverageBps
      /\ size <= params.maxPositionUsd
      /\ orders' = [orders EXCEPT ![orderNonce + 1] = o]
      /\ UNCHANGED activeTrigger

createDecrease(a, g, isLong, size, acceptable, fee) ==
  LET o == NewOrder(a, g, isLong, "MarketDecrease", size, 0, acceptable, 0, fee)
  IN  /\ Enter(o, 0)
      /\ size <= positions[<<a, g, isLong>>].size
      /\ orders' = [orders EXCEPT ![orderNonce + 1] = o]
      /\ UNCHANGED activeTrigger

(* A stop loss or take profit; the one it replaces is cancelled with its   *)
(* fee refunded.                                                           *)
createTrigger(a, g, isLong, kind, size, trigger, fee) ==
  LET o == NewOrder(a, g, isLong, kind, size, 0, 0, trigger, fee)
      old == activeTrigger[TriggerKeyOf(o)]
      kept == IF old # 0 THEN cancelled(orders, old) ELSE orders
  IN  /\ Enter(o, IF old # 0 THEN escrow(orders[old]) ELSE 0)
      /\ positions[<<a, g, isLong>>].size # 0
      /\ old # 0 => orders[old].status = "Pending" /\ orders[old].account = a
      /\ orders' = [kept EXCEPT ![orderNonce + 1] = o]
      /\ activeTrigger' = [activeTrigger EXCEPT ![TriggerKeyOf(o)] = orderNonce + 1]

(* cancelOrder by the order's account: neither paused nor delayed.         *)
cancelOrder(id) ==
  LET o == orders[id]
  IN  /\ o.status = "Pending"
      /\ orders' = cancelled(orders, id)
      /\ activeTrigger' = withoutTrigger(o)
      /\ gusd' = [gusd EXCEPT !.engine = @ - escrow(o), !.wallets = @ + escrow(o)]
      /\ UNCHANGED <<now, market, orderNonce, positions, claimableOf, totals,
                     adminVars, epochPrice, vaultVars>>

(* perpWithdraw's clamp: the request, the vault's balance, the block's cap *)
payable(want) == Lesser(Lesser(want, gusd.vault), PosPart(withdrawCap - withdrawn))

(* claim: the rest stays claimable.  Any address may be paid.              *)
claim(a, amount, to) ==
  LET want == Lesser(amount, claimableOf[a])
      paid == payable(want)
      received(holder) == IF to = holder THEN paid ELSE 0
  IN  /\ want # 0
      /\ withdrawn' = withdrawn + paid
      /\ gusd' = [gusd EXCEPT !.vault = @ - paid + received("vault"),
                              !.ledger = @ + received("ledger"),
                              !.wallets = @ + received("wallets"),
                              !.stray = @ + received("engine")]
      /\ claimableOf' = [claimableOf EXCEPT ![a] = @ - paid]
      /\ totals' = [totals EXCEPT !.totalClaimable = @ - paid]
      /\ pushReservation
      /\ UNCHANGED <<now, market, orders, orderNonce, positions, activeTrigger,
                     adminVars, epochPrice, withdrawCap>>

-----------------------------------------------------------------------------
(* Execution, by anyone who brings a report                                *)

(* executeOrder's own checks.                                              *)
Executable(id) ==
  /\ ~paused
  /\ orders[id].status = "Pending"
  /\ now >= orders[id].createdAt + minOrderDelay

(* The position after an increase: an existing one is charged and keeps    *)
(* what it earned, a fresh one starts at the current cumulatives.          *)
touched(m, pos, isLong) ==
  IF pos.size > 0
  THEN LET c == chargeFunding(m, pos, isLong)
       IN  [charged |-> c.charged, earned |-> c.earned,
            pos |-> [c.pos EXCEPT !.earnedFunding = @ + c.earned,
                                  !.collateral = @ - c.charged]]
  ELSE [charged |-> 0, earned |-> 0, pos |-> snapshot(m, pos, isLong)]

(* Size-weighted entry price, rounded against the trader.                  *)
newEntry(pos, isLong, size, price) ==
  LET weighted == pos.size * pos.entry + size * price
  IN  IF pos.size = 0 THEN price
      ELSE IF isLong THEN MulDivCeil(weighted, 1, pos.size + size)
                     ELSE MulDivFloor(weighted, 1, pos.size + size)

executeIncrease(id, price) ==
  LET o == orders[id]
      key == KeyOf(o)
      m == accrue(market[o.market], now)
      t == touched(m, positions[key], o.isLong)
      openFee == feeBps(o.size, m.params.openFeeBps)
      entry == newEntry(positions[key], o.isLong, o.size, price)
      newSize == positions[key].size + o.size
      uPnl == pnl(newSize, entry, o.isLong, price)
      collateral == t.pos.collateral + o.collateral - openFee
  IN  /\ o.kind = "MarketIncrease"
      /\ Executable(id)
      /\ m.enabled
      /\ Consume(o.market, price)
      /\ IF o.isLong THEN price <= o.acceptable ELSE price >= o.acceptable
      /\ (IF o.isLong THEN m.openLong ELSE m.openShort) + o.size <= m.params.maxOiUsd
      /\ newSize <= m.params.maxPositionUsd
      /\ collateral >= 0
      /\ gusd' = [gusd EXCEPT !.engine = @ - o.fee - openFee - t.charged,
                              !.vault = @ + t.charged,
                              !.ledger = @ + openFee,
                              !.wallets = @ + o.fee]
      /\ positions' = [positions EXCEPT
                         ![key] = [t.pos EXCEPT !.size = newSize,
                                                !.collateral = collateral,
                                                !.entry = entry,
                                                !.reserveShare = PosPart(uPnl)]]
      /\ totals' = setReserveShare([totals EXCEPT !.totalEarnedFunding = @ + t.earned],
                                   positions[key], uPnl)
      /\ market' = [market EXCEPT ![o.market] = addOpenInterest(m, o.isLong, o.size)]
      /\ orders' = [orders EXCEPT ![id].status = "Executed"]
      /\ pushReservation
      /\ UNCHANGED <<now, orderNonce, activeTrigger, claimableOf, adminVars,
                     withdrawCap, withdrawn>>

(* A decrease whose position has gone is cancelled, its fee refunded.      *)
executeDecreaseGone(id, price) ==
  LET o == orders[id]
  IN  /\ o.kind # "MarketIncrease"
      /\ Executable(id)
      /\ Consume(o.market, price)
      /\ positions[KeyOf(o)].size = 0
      /\ market' = [market EXCEPT ![o.market] = accrue(@, now)]
      /\ orders' = cancelled(orders, id)
      /\ activeTrigger' = withoutTrigger(o)
      /\ gusd' = [gusd EXCEPT !.engine = @ - escrow(o), !.wallets = @ + escrow(o)]
      /\ UNCHANGED <<now, orderNonce, positions, claimableOf, totals, adminVars,
                     vaultVars>>

(* The price condition of a market decrease or of a trigger order.         *)
DecreasePriceOk(o, price) ==
  IF o.kind = "MarketDecrease"
  THEN IF o.isLong THEN price >= o.acceptable ELSE price <= o.acceptable
  ELSE checkTrigger(o.kind, o.isLong, price, o.trigger)

(* What closing `delta' of a position settles: collateral released, the    *)
(* slice's debts and earnings, and what the trader is due.                 *)
closeSlice(m, pos, isLong, delta, price) ==
  LET s == settle(m, pos, isLong)
      balanceTotal == pos.earnedFunding + s.earned
      released == MulDivFloor(pos.collateral, delta, pos.size)
      closeFee == feeBps(delta, m.params.closeFeeBps)
      owed == fundingOwed(delta, chargeCum(m, isLong), pos.feeCkpt)
      borrow == fundingOwed(delta, m.borrow, pos.borrowCkpt)
      earned == MulDivFloor(balanceTotal, delta, pos.size)
      raw == released + pnl(delta, pos.entry, isLong, price) - closeFee
               - (owed + borrow) + earned
  IN  [released |-> released,
       due |-> PosPart(raw),
       paidLedger |-> Lesser(closeFee, released),
       carried |-> balanceTotal - earned,
       owedRem |-> s.owed - owed,
       borrowRem |-> s.borrow - borrow,
       pos |-> s.pos]

(* The position and the totals after the slice: deleted, or the remainder  *)
(* with its share of the debt back in its checkpoints.                     *)
remainder(m, pos, isLong, delta, price, c) ==
  LET left == pos.size - delta
  IN  IF left = 0 THEN NoPosition
      ELSE [rewindFunding(m, c.pos, isLong, left, pos, c.owedRem, c.borrowRem)
              EXCEPT !.size = left,
                     !.collateral = @ - c.released,
                     !.earnedFunding = c.carried,
                     !.reserveShare = PosPart(pnl(left, pos.entry, isLong, price))]

(* Totals exchange a position's old shares for its new ones.               *)
exchangeShares(t, old, new) ==
  [t EXCEPT !.reservedPnl = @ - old.reserveShare + new.reserveShare,
            !.totalEarnedFunding = @ - old.earnedFunding + new.earnedFunding]

(* The whole position, or as much of the order's size as is still open:    *)
(* the position may have shrunk since the order was created.               *)
closedSize(o, pos) == IF o.size = 0 THEN pos.size ELSE Lesser(o.size, pos.size)

executeDecrease(id, price) ==
  LET o == orders[id]
      key == KeyOf(o)
      pos == positions[key]
      m == accrue(market[o.market], now)
      delta == closedSize(o, pos)
      c == closeSlice(m, pos, o.isLong, delta, price)
      after == remainder(m, pos, o.isLong, delta, price, c)
  IN  /\ o.kind # "MarketIncrease"
      /\ Executable(id)
      /\ Consume(o.market, price)
      /\ pos.size > 0
      /\ DecreasePriceOk(o, price)
      /\ claimableOf' = [claimableOf EXCEPT ![o.account] = @ + c.due]
      /\ gusd' = [gusd EXCEPT !.engine = @ - c.released - o.fee,
                              !.vault = @ + c.released - c.paidLedger,
                              !.ledger = @ + c.paidLedger,
                              !.wallets = @ + o.fee]
      /\ orders' = [orders EXCEPT ![id].status = "Executed"]
      /\ activeTrigger' = withoutTrigger(o)
      /\ market' = [market EXCEPT ![o.market] = addOpenInterest(m, o.isLong, -delta)]
      /\ positions' = [positions EXCEPT ![key] = after]
      /\ totals' = exchangeShares(creditClaimable(totals, c.due), pos, after)
      /\ pushReservation
      /\ UNCHANGED <<now, orderNonce, adminVars, withdrawCap, withdrawn>>

(* PerpViews._equityOf, the figure the liquidation gate evaluates.         *)
equityOf(m, pos, isLong, price) ==
  LET s == settle(m, pos, isLong)
  IN  pos.collateral + pnl(pos.size, pos.entry, isLong, price)
        + pos.earnedFunding + s.earned - (s.owed + s.borrow)

liquidatableAt(m, pos, isLong, price) ==
  /\ pos.size > 0
  /\ equityOf(m, pos, isLong, price)
       < maintenance(pos.size, m.params.maintenanceMarginBps)

(* PerpLiquidation.liquidate: allowed while paused; pending orders of the  *)
(* account are left as they are.                                           *)
liquidate(a, g, isLong, price) ==
  LET key == <<a, g, isLong>>
      pos == positions[key]
      m == accrue(market[g], now)
      liqFee == Lesser(feeBps(pos.size, m.params.liquidationFeeBps), pos.collateral)
      due == PosPart(equityOf(m, pos, isLong, price) - liqFee)
  IN  /\ market[g].exists
      /\ Consume(g, price)
      /\ liquidatableAt(m, pos, isLong, price)
      /\ claimableOf' = [claimableOf EXCEPT ![a] = @ + due]
      /\ gusd' = [gusd EXCEPT !.engine = @ - pos.collateral,
                              !.vault = @ + pos.collateral - liqFee,
                              !.wallets = @ + liqFee]
      /\ market' = [market EXCEPT ![g] = addOpenInterest(m, isLong, -pos.size)]
      /\ positions' = [positions EXCEPT ![key] = NoPosition]
      /\ totals' = exchangeShares(creditClaimable(totals, due), pos, NoPosition)
      /\ pushReservation
      /\ UNCHANGED <<now, orders, orderNonce, activeTrigger, adminVars,
                     withdrawCap, withdrawn>>

-----------------------------------------------------------------------------
(* The vault's other users, and time                                       *)

setEngineMaxWithdrawPerBlock(cap) ==
  /\ withdrawCap' = cap
  /\ UNCHANGED <<now, engineVars, adminVars, epochPrice, perpReserved, withdrawn, gusd>>

VaultDeposit(assets) ==
  /\ assets <= gusd.wallets
  /\ gusd' = [gusd EXCEPT !.wallets = @ - assets, !.vault = @ + assets]
  /\ UNCHANGED <<now, engineVars, adminVars, epochPrice, vaultVars>>

(* _withdraw: an ordinary redemption may not touch what is reserved.       *)
availableForRedemption == PosPart(gusd.vault - perpReserved)

VaultRedeem(assets) ==
  /\ assets <= availableForRedemption
  /\ gusd' = [gusd EXCEPT !.vault = @ - assets, !.wallets = @ + assets]
  /\ UNCHANGED <<now, engineVars, adminVars, epochPrice, vaultVars>>

(* A new block: the vault's per-block counter starts over, and with a new  *)
(* epoch the oracle's prices are unbound.                                  *)
NextBlock(dt) ==
  /\ now + dt <= MaxTime
  /\ now' = now + dt
  /\ withdrawn' = 0
  /\ epochPrice' = IF now' \div EpochLength = now \div EpochLength
                   THEN epochPrice ELSE [g \in GpuIds |-> 0]
  /\ UNCHANGED <<engineVars, adminVars, perpReserved, withdrawCap, gusd>>

-----------------------------------------------------------------------------
NoMarket ==
  [exists |-> FALSE, enabled |-> FALSE,
   params |-> [maxLeverageBps |-> 0, maintenanceMarginBps |-> 0, openFeeBps |-> 0,
               closeFeeBps |-> 0, liquidationFeeBps |-> 0, fundingRate |-> 0,
               borrowRate |-> 0, maxOiUsd |-> 0, minCollateralUsd |-> 0,
               maxPositionUsd |-> 0],
   openLong |-> 0, openShort |-> 0, chargeLong |-> 0, chargeShort |-> 0,
   creditLong |-> 0, creditShort |-> 0, borrow |-> 0, updatedAt |-> 0]

NoOrder ==
  [status |-> "None", account |-> CHOOSE a \in Accounts : TRUE,
   market |-> CHOOSE g \in GpuIds : TRUE, isLong |-> FALSE,
   kind |-> "MarketDecrease", size |-> 0, collateral |-> 0, acceptable |-> 0,
   trigger |-> 0, fee |-> 0, createdAt |-> 0]

Init ==
  /\ now = 0
  /\ paused = FALSE
  /\ minOrderDelay \in Delays \cap 0..MaxOrderDelay
  /\ market = [g \in GpuIds |-> NoMarket]
  /\ orders = [id \in OrderIds |-> NoOrder]
  /\ orderNonce = 0
  /\ positions = [k \in PositionKeys |-> NoPosition]
  /\ activeTrigger = [k \in TriggerKeys |-> 0]
  /\ claimableOf = [a \in Accounts |-> 0]
  /\ totals = [totalClaimable |-> 0, reservedPnl |-> 0, totalEarnedFunding |-> 0]
  /\ epochPrice = [g \in GpuIds |-> 0]
  /\ perpReserved = 0
  /\ withdrawCap \in Caps
  /\ withdrawn = 0
  /\ gusd = [engine |-> 0, vault |-> InitialVault, ledger |-> 0,
             wallets |-> InitialWallets, stray |-> 0]

OwnerStep ==
  \/ \E g \in GpuIds, p \in ParamChoices : createMarket(g, p) \/ setMarketParams(g, p)
  \/ \E g \in GpuIds, b \in BOOLEAN : setMarketEnabled(g, b)
  \/ \E d \in Delays : setMinOrderDelay(d)
  \/ \E c \in Caps : setEngineMaxWithdrawPerBlock(c)
  \/ pause
  \/ unpause

TraderStep ==
  \/ \E a \in Accounts, g \in GpuIds, l \in BOOLEAN, s \in Sizes,
       p \in LimitPrices, f \in ExecFees :
       \/ \E c \in Collaterals : createIncrease(a, g, l, s, c, p, f)
       \/ createDecrease(a, g, l, s, p, f)
       \/ \E k \in TriggerKinds : createTrigger(a, g, l, k, s, p, f)
  \/ \E id \in OrderIds : cancelOrder(id)
  \/ \E a \in Accounts, x \in ClaimAmounts, to \in Payees : claim(a, x, to)

KeeperStep ==
  \E p \in Prices :
    \/ \E id \in OrderIds : \/ executeIncrease(id, p)
                            \/ executeDecreaseGone(id, p)
                            \/ executeDecrease(id, p)
    \/ \E a \in Accounts, g \in GpuIds, l \in BOOLEAN : liquidate(a, g, l, p)

EnvironmentStep ==
  \/ \E x \in LpAmounts : VaultDeposit(x) \/ VaultRedeem(x)
  \/ \E dt \in BlockTimes : NextBlock(dt)

Next == OwnerStep \/ TraderStep \/ KeeperStep \/ EnvironmentStep

Spec == Init /\ [][Next]_vars

-----------------------------------------------------------------------------
(* Properties                                                              *)

(* Every record keeps its shape and every amount stays natural: no checked *)
(* subtraction on a settlement path can underflow and revert.              *)
TypeOK ==
  /\ now \in Nat
  /\ paused \in BOOLEAN
  /\ minOrderDelay \in 0..MaxOrderDelay
  /\ market \in [GpuIds -> Market]
  /\ orders \in [OrderIds -> Order]
  /\ orderNonce \in 0..MaxOrders
  /\ positions \in [PositionKeys -> Position]
  /\ activeTrigger \in [TriggerKeys -> 0..MaxOrders]
  /\ claimableOf \in [Accounts -> Nat]
  /\ totals \in [totalClaimable: Nat, reservedPnl: Nat, totalEarnedFunding: Nat]
  /\ epochPrice \in [GpuIds -> Prices \cup {0}]
  /\ perpReserved \in Nat
  /\ withdrawCap \in Caps
  /\ withdrawn \in Nat
  /\ gusd \in [engine: Nat, vault: Nat, ledger: Nat, wallets: Nat, stray: Nat]

pendingEscrow == [id \in OrderIds |->
                    IF orders[id].status = "Pending" THEN escrow(orders[id]) ELSE 0]
openCollateral == [k \in PositionKeys |-> positions[k].collateral]
reserveShares == [k \in PositionKeys |-> positions[k].reserveShare]
earnedShares == [k \in PositionKeys |-> positions[k].earnedFunding]

(* Beside what claims sent it, the engine holds nothing at rest but open   *)
(* collateral and the escrow of pending orders (the accounting doctrine of *)
(* GpuPerpEngine): whatever the order of fills, partial closes,            *)
(* liquidations and cancellations, no gUSD is stranded by them and no      *)
(* refund is short.                                                        *)
AtRestBalance == gusd.engine = SumOf(openCollateral) + SumOf(pendingEscrow)

(* The three liability totals are the sums of the per-account and          *)
(* per-position amounts they stand for, through every fold, slice and      *)
(* deletion of _executeIncrease, _executeDecrease, liquidate and claim.    *)
TotalsAreSums ==
  /\ totals.totalClaimable = SumOf(claimableOf)
  /\ totals.reservedPnl = SumOf(reserveShares)
  /\ totals.totalEarnedFunding = SumOf(earnedShares)

(* The vault's perpReserved is never stale: the engine pushes it in every  *)
(* transaction that moves one of the three totals.                         *)
ReservationPushed == perpReserved = reservation(totals)

sideSizes(g, isLong) ==
  [k \in PositionKeys |-> IF k[2] = g /\ k[3] = isLong THEN positions[k].size ELSE 0]

(* A market's open interest per side, which prices funding and caps new    *)
(* orders, is the sum of the sizes of that side's open positions.          *)
OpenInterestIsSum ==
  \A g \in GpuIds : /\ market[g].openLong = SumOf(sideSizes(g, TRUE))
                    /\ market[g].openShort = SumOf(sideSizes(g, FALSE))

(* _activeTrigger indexes exactly the pending stop losses and take         *)
(* profits: one per account, market, side and kind, and none is lost, so   *)
(* that createOrder's replacement always cancels a live order.             *)
TriggerIndexExact ==
  \A k \in TriggerKeys :
    {id \in OrderIds : orders[id].status = "Pending" /\ TriggerKeyOf(orders[id]) = k}
      = {activeTrigger[k]} \ {0}

(* No open position's checkpoint is ahead of its market's cumulative, so   *)
(* that no settlement or rewind reads a negative delta.                    *)
CheckpointsBehind ==
  \A k \in PositionKeys :
    positions[k].size > 0 =>
      /\ positions[k].feeCkpt <= chargeCum(market[k[2]], k[3])
      /\ positions[k].creditCkpt <= creditCum(market[k[2]], k[3])
      /\ positions[k].borrowCkpt <= market[k[2]].borrow

(* The engine's books: what it holds, owes and counts agrees with the      *)
(* positions and orders it stands for, in every reachable state.           *)
BooksBalance ==
  AtRestBalance /\ TotalsAreSums /\ OpenInterestIsSum /\ CheckpointsBehind

(* An open position has an entry price to divide by, and orders are        *)
(* numbered without gaps: with the invariants above this is inductive.     *)
WellFormed ==
  /\ \A k \in PositionKeys : positions[k].size > 0 => positions[k].entry > 0
  /\ \A id \in OrderIds : id <= orderNonce <=> orders[id].status # "None"

(* The funding and borrow debt of a position at a market's cumulatives.    *)
debt(m, pos, isLong, size) ==
  fundingOwed(size, chargeCum(m, isLong), pos.feeCkpt)
    + fundingOwed(size, m.borrow, pos.borrowCkpt)

(* A partial close forgives no debt: what the closed slice settles and     *)
(* what the remainder still owes add up to at least the debt before, when  *)
(* sizes stay below SCALE (GpuPerpEngine._rewindFunding).                  *)
PartialCloseKeepsDebt ==
  [][\A k \in PositionKeys :
       LET pos == positions[k]
           m == market'[k[2]]
       IN  positions'[k].size \in 1..(pos.size - 1) =>
             debt(m, pos, k[3], pos.size)
               <= debt(m, pos, k[3], pos.size - positions'[k].size)
                    + debt(m, positions'[k], k[3], positions'[k].size)]_vars

(* Open interest and rates never change over a window that has not been    *)
(* accrued yet: every path that moves them (increase, decrease,            *)
(* liquidation, setMarketParams) first accrues to the current block, so    *)
(* funding is never charged retroactively at a new rate or skew.           *)
AccruedBeforeChange ==
  [][\A g \in GpuIds :
       \/ market'[g].updatedAt = now
       \/ /\ market'[g].params = market[g].params
          /\ market'[g].openLong = market[g].openLong
          /\ market'[g].openShort = market[g].openShort]_vars

(* Marked at the fill price, no execution makes a trader richer: equity    *)
(* plus claimable grows by at most the collateral the order brought in,    *)
(* less the order's fee, through every rounding of the entry price, the    *)
(* slices and the rewound debt (the doctrine "the vault never loses a      *)
(* wei"), while sizes stay below SCALE.  A slice that closes with nothing  *)
(* due is excluded, its shortfall being the vault's risk by design, and so *)
(* are the two kinds of top-up for which the code breaks the doctrine: of  *)
(* a position whose collateral does not cover its debt (IncreaseKeepsDebt) *)
(* and of an open short at a price other than its entry                    *)
(* (AveragingAgainstTrader).                                               *)
NoGainAtFillPrice ==
  [][\A id \in OrderIds :
       orders[id].status = "Pending" /\ orders'[id].status = "Executed" =>
         LET o == orders[id]
             pos == positions[KeyOf(o)]
             m == market'[o.market]
             price == epochPrice'[o.market]
             due == claimableOf'[o.account] - claimableOf[o.account]
             fee == IF o.kind = "MarketIncrease"
                    THEN feeBps(o.size, m.params.openFeeBps)
                    ELSE feeBps(pos.size - positions'[KeyOf(o)].size, m.params.closeFeeBps)
         IN  \/ o.kind # "MarketIncrease" /\ due = 0
             \/ o.kind = "MarketIncrease" /\ debt(m, pos, o.isLong, pos.size) > pos.collateral
             \/ /\ o.kind = "MarketIncrease" /\ ~o.isLong
                /\ pos.size > 0 /\ price # pos.entry
             \/ equityOf(m, positions'[KeyOf(o)], o.isLong, price) + due
                  <= equityOf(m, pos, o.isLong, price) + o.collateral - fee]_vars

(* An ordinary redemption leaves the vault with all it has reserved for    *)
(* traders; only a claim may take the balance below the reservation.       *)
RedemptionsKeepReserve ==
  [][gusd'.vault < gusd.vault =>
       \/ gusd'.vault >= perpReserved
       \/ gusd.vault - gusd'.vault = totals.totalClaimable - totals'.totalClaimable]_vars

-----------------------------------------------------------------------------
(* Claims of comments that the code does not keep                          *)

(* _chargeFunding's comment: a debt that collateral cannot cover is put    *)
(* back into the checkpoints "so the debt follows the position instead of  *)
(* evaporating": at a top-up, what is charged and what is still owed cover *)
(* what was owed.                                                          *)
IncreaseKeepsDebt ==
  [][\A k \in PositionKeys :
       0 < positions[k].size /\ positions[k].size < positions'[k].size =>
         debt(market'[k[2]], positions[k], k[3], positions[k].size)
           <= (gusd'.vault - gusd.vault)
                + debt(market'[k[2]], positions'[k], k[3], positions'[k].size)]_vars

(* _newEntry's comment: the average is taken "Against the trader": at the  *)
(* price of the fill, the enlarged position is worth no more than the old  *)
(* one was (the size that is added is worth nothing).                      *)
AveragingAgainstTrader ==
  [][\A k \in PositionKeys :
       LET pos == positions[k]
           new == positions'[k]
           price == epochPrice'[k[2]]
       IN  0 < pos.size /\ pos.size < new.size =>
             pnl(new.size, new.entry, k[3], price)
               <= pnl(pos.size, pos.entry, k[3], price)]_vars
=============================================================================
