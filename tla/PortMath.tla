------------------------------ MODULE PortMath -------------------------------
(***************************************************************************)
(* The web client's preview arithmetic (apps/web perps/math.ts), over      *)
(* bigints: what an order is built from before any calldata exists.        *)
(***************************************************************************)
EXTENDS Integers

CONSTANTS BPS, SCALE

(* mulDiv: `/' truncates toward zero, which is the floor only while the    *)
(* operands are not negative.                                              *)
floor(a, b, d) == IF a * b < 0 THEN -((-(a * b)) \div d) ELSE (a * b) \div d
ceil(a, b, d) == floor(a, b, d) + IF (a * b) % d = 0 THEN 0 ELSE 1

feeBps(amount, bps) == ceil(amount, bps, BPS)

maintenance(sizeUsd, mmBps) == ceil(sizeUsd, mmBps, BPS)

pnl(sizeUsd, entry, isLong, price) ==
  LET gain == IF isLong THEN price - entry ELSE entry - price
  IN  IF gain > 0 THEN floor(sizeUsd, gain, entry) ELSE -ceil(sizeUsd, -gain, entry)

fundingOwed(sizeUsd, cum, checkpoint) ==
  IF cum <= checkpoint THEN 0 ELSE ceil(sizeUsd, cum - checkpoint, SCALE)

fundingEarned(sizeUsd, cum, checkpoint) ==
  IF cum <= checkpoint THEN 0 ELSE floor(sizeUsd, cum - checkpoint, SCALE)

sizeFromCollateral(collateral, leverageBps) == floor(collateral, leverageBps, BPS)

leverageBpsCeil(size, collateral) == ceil(size, BPS, collateral)

(* The bound a market order signs, on the tolerant side of the reference.  *)
acceptablePriceBound(price, toleranceBps, isLong, isIncrease) ==
  LET tolerant == IF isLong = isIncrease THEN ceil(price, BPS + toleranceBps, BPS)
                                         ELSE floor(price, BPS - toleranceBps, BPS)
  IN  IF tolerant > 0 THEN tolerant ELSE 1

(* A swing rounded away from the entry.                                    *)
swingUp(entry, headroom, sizeUsd) == ceil(entry, headroom, sizeUsd)

(* How far the mark may move before the headroom is gone.                  *)
swing(entry, headroom, sizeUsd) == floor(entry, headroom, sizeUsd)

(* The displayed liquidation price, for a position with a maintenance      *)
(* floor.                                                                  *)
liquidationPriceEstimate(sizeUsd, collateral, entry, isLong, mmBps, fundingDebt) ==
  LET headroom == collateral - maintenance(sizeUsd, mmBps) - fundingDebt
      est == IF isLong THEN entry - swing(entry, headroom, sizeUsd)
                       ELSE entry + swing(entry, headroom, sizeUsd)
  IN  IF est <= 0 THEN 0 ELSE est
=============================================================================
