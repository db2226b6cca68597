---------------------------- MODULE MCPerpEngine ----------------------------
(* Instances for TLC of the engine with its indexer, keeper and desk.       *)
(* Amounts are a few units, so that every rounding happens; BPS = 10 makes  *)
(* a basis point a tenth.                                                   *)
EXTENDS PerpPort

CONSTANTS a1, a2, gA, gB

Params(lev, mm, openFee, closeFee, liqFee, funding, borrow, maxOi, minColl, maxPos) ==
  [maxLeverageBps |-> lev, maintenanceMarginBps |-> mm, openFeeBps |-> openFee,
   closeFeeBps |-> closeFee, liquidationFeeBps |-> liqFee, fundingRate |-> funding,
   borrowRate |-> borrow, maxOiUsd |-> maxOi, minCollateralUsd |-> minColl,
   maxPositionUsd |-> maxPos]

(* 3x leverage, 10% margin and fees; funding and borrow both on.           *)
TradingParams == {Params(30, 1, 1, 1, 1, 1, 1, 7, 2, 7)}

(* Every charge on, at a funding rate that bites in one block.             *)
ChargedParams == {Params(30, 1, 1, 1, 1, 4, 1, 7, 2, 7)}

(* Those, or funding only at a rate that earns the smaller side two units  *)
(* per block.                                                              *)
FundingParams == TradingParams \cup {Params(30, 1, 0, 0, 0, 4, 0, 7, 2, 7)}

(* A market without fees, for averaging alone.                             *)
FreeParams == {Params(30, 1, 0, 0, 0, 0, 0, 40, 2, 40)}

(* A market the owner moves between two settings.                          *)
OwnerParams == {Params(30, 1, 1, 1, 1, 1, 1, 6, 2, 6), Params(20, 2, 0, 1, 0, 0, 1, 4, 1, 4)}

(* The owner creates the markets and then leaves them alone; no LP moves.  *)
TradingNext ==
  \/ \E g \in GpuIds, p \in ParamChoices :
       createMarket(g, p) /\ db' = MarketCreated(db, g, p)
  \/ IndexedTraderStep
  \/ IndexedKeeperStep
  \/ (\E dt \in BlockTimes : NextBlock(dt)) /\ UNCHANGED db

TradingSpec == IndexedInit /\ [][TradingNext]_indexedVars
=============================================================================
