----------------------------- MODULE PerpKeeper ------------------------------
(***************************************************************************)
(* The keeper's decisions (apps/keeper/src/strategy.ts) on a book loaded   *)
(* from the indexer's tables, against what the engine would do: the three  *)
(* components that must agree for the protocol to liquidate in time.       *)
(***************************************************************************)
EXTENDS PerpIndexer

K == INSTANCE KeeperMath

(* Triggers evaluated with the two exits swapped.                          *)
swappedTriggers(o, price) ==
  CASE o.kind = "MarketIncrease" -> K!acceptablePriceMet(o.isLong, TRUE, price, o.acceptable)
    [] o.kind = "MarketDecrease" -> K!acceptablePriceMet(o.isLong, FALSE, price, o.acceptable)
    [] o.kind \in TriggerKinds -> ~K!triggerMet(o.kind, o.isLong, price, o.trigger)

(* The price condition of evaluateTick per kind of order.                  *)
priceMet(o, price) ==
  CASE o.kind = "MarketIncrease" -> K!acceptablePriceMet(o.isLong, TRUE, price, o.acceptable)
    [] o.kind = "MarketDecrease" -> K!acceptablePriceMet(o.isLong, FALSE, price, o.acceptable)
    [] o.kind \in TriggerKinds -> K!triggerMet(o.kind, o.isLong, price, o.trigger)

(* Book.load and evaluateTick at `price' for the orders of a market: the   *)
(* work items of type executeOrder.                                        *)
orderItems(book, minOrderDelaySec, g, price, nowSec) ==
  {id \in OrderIds :
     LET o == book.orders[id]
     IN  /\ o.status = "Pending" /\ o.market = g /\ book.markets[g].exists
         /\ nowSec >= o.createdAt + minOrderDelaySec
         /\ o.kind = "MarketIncrease" => book.markets[g].enabled
         /\ priceMet(o, price)}

(* The work items of type liquidate; a market row without parameters (the  *)
(* fallback insert) yields none.                                           *)
liquidationItems(book, g, price, nowSec) ==
  LET m == book.markets[g]
      adv == K!advanceFunding(m, nowSec)
  IN  {k \in PositionKeys :
         /\ k[2] = g /\ m.exists /\ m.params.maintenanceMarginBps # 0
         /\ book.positions[k].size > 0
         /\ K!isLiquidatable(book.positions[k], k[3],
                             K!settle(adv, book.positions[k], k[3]), price,
                             m.params.maintenanceMarginBps)}

-----------------------------------------------------------------------------
(* Properties                                                              *)

(* What liquidate(account, gpu, side) accepts at a price in this block.    *)
engineLiquidates(g, price) ==
  {k \in PositionKeys : k[2] = g /\ market[g].exists
                          /\ liquidatableAt(accrue(market[g], now), positions[k], k[3], price)}

(* A market whose funding the rows determine: nothing has accrued since    *)
(* its last touch, or only the borrow fee has.                             *)
FundingInRows(g) ==
  \/ market[g].updatedAt = now
  \/ market[g].params.fundingRate = 0
  \/ skewFraction(market[g].openLong, market[g].openShort) = 0

(* strategy.ts decides offline exactly as the engine will: from the rows   *)
(* alone, with every rounding, rewound checkpoint and carried credit, the  *)
(* keeper proposes a liquidation if and only if the engine accepts it.     *)
(* Funding between touches is excepted (see SeesEveryLiquidation).         *)
LiquidationsAgree ==
  \A g \in GpuIds, p \in Prices :
    FundingInRows(g) => liquidationItems(db, g, p, now) = engineLiquidates(g, p)

(* An order the keeper proposes is refused by the engine only for a reason *)
(* the rows do not hold (a pause, a cap, too little collateral), and one   *)
(* the engine would execute is always proposed: the pending rows, the      *)
(* delay and the price conditions are the engine's own.                    *)
OrdersAgree ==
  \A g \in GpuIds, p \in Prices :
    orderItems(db, minOrderDelay, g, p, now) =
      {id \in OrderIds :
         LET o == orders[id]
         IN  /\ o.status = "Pending" /\ o.market = g
             /\ now >= o.createdAt + minOrderDelay
             /\ IF o.kind # "MarketIncrease" THEN DecreasePriceOk(o, p)
                ELSE /\ market[g].enabled
                     /\ IF o.isLong THEN p <= o.acceptable ELSE p >= o.acceptable}

(* math.ts: "Offline replication of the engine's perp math ... down to     *)
(* every rounding direction", so a position the engine would liquidate     *)
(* is found.  The market rows' open interest, which prices the funding     *)
(* between touches, is never written.                                      *)
SeesEveryLiquidation ==
  \A g \in GpuIds, p \in Prices : engineLiquidates(g, p) \subseteq liquidationItems(db, g, p, now)
=============================================================================
