----------------------------- MODULE KeeperMath ------------------------------
(***************************************************************************)
(* The keeper's offline copy of the engine's arithmetic                    *)
(* (apps/keeper/src/math.ts), over bigints: market rows m and position     *)
(* rows p as the indexer stores them.                                      *)
(***************************************************************************)
EXTENDS Integers

CONSTANTS BPS, SCALE, PPM, MaxWindow, MaxRatePpm

floor(a, b, d) == (a * b) \div d
ceil(a, b, d) == IF (a * b) % d = 0 THEN (a * b) \div d ELSE (a * b) \div d + 1

maintenance(sizeUsd, mmBps) == ceil(sizeUsd, mmBps, BPS)

pnl(sizeUsd, entry, isLong, price) ==
  LET delta == IF price > entry THEN price - entry ELSE entry - price
      wins == IF isLong THEN price > entry ELSE price < entry
  IN  IF sizeUsd = 0 \/ price = entry THEN 0
      ELSE IF wins THEN floor(sizeUsd, delta, entry) ELSE -ceil(sizeUsd, delta, entry)

fundingOwed(sizeUsd, cum, checkpoint) ==
  IF cum <= checkpoint THEN 0 ELSE ceil(sizeUsd, cum - checkpoint, SCALE)

fundingEarned(sizeUsd, cum, checkpoint) ==
  IF cum <= checkpoint THEN 0 ELSE floor(sizeUsd, cum - checkpoint, SCALE)

skewFraction(longOi, shortOi) ==
  IF longOi + shortOi = 0 THEN 0
  ELSE floor(IF longOi >= shortOi THEN longOi - shortOi ELSE shortOi - longOi,
             SCALE, longOi + shortOi)

fundingDrift(rate, window, skewFrac) == floor(rate, window * skewFrac, PPM)
borrowDrift(rate, window) == ceil(rate, window * SCALE, PPM)

(* An advance that forgets the engine's clamp of one window.               *)
unclamped(m, nowSec) == nowSec - m.updatedAt

windowSec(m, nowSec) ==
  IF nowSec - m.updatedAt > MaxWindow THEN MaxWindow ELSE nowSec - m.updatedAt

(* The stored cumulatives brought to nowSec, in one clamped window.        *)
advanceFunding(m, nowSec) ==
  LET window == windowSec(m, nowSec)
      skewFrac == skewFraction(m.openLong, m.openShort)
      rate == IF m.params.fundingRate > MaxRatePpm THEN MaxRatePpm ELSE m.params.fundingRate
      drift == fundingDrift(rate, window, skewFrac)
      funded ==
        IF skewFrac = 0 \/ m.params.fundingRate = 0 THEN m
        ELSE IF m.openLong >= m.openShort
        THEN [m EXCEPT !.chargeLong = @ + drift,
                       !.creditShort = IF m.openShort > 0
                                       THEN @ + floor(drift, m.openLong, m.openShort) ELSE @]
        ELSE [m EXCEPT !.chargeShort = @ + drift,
                       !.creditLong = IF m.openLong > 0
                                      THEN @ + floor(drift, m.openShort, m.openLong) ELSE @]
  IN  IF nowSec <= m.updatedAt THEN m
      ELSE [funded EXCEPT !.borrow = IF m.params.borrowRate > 0
                                     THEN @ + borrowDrift(m.params.borrowRate, window) ELSE @]

(* settle: what the next touch will charge and credit, the checkpoint      *)
(* rewind not replicated.                                                  *)
settle(adv, p, isLong) ==
  [owed |-> fundingOwed(p.size, IF isLong THEN adv.chargeLong ELSE adv.chargeShort, p.feeCkpt),
   earned |-> fundingEarned(p.size, IF isLong THEN adv.creditLong ELSE adv.creditShort,
                            p.creditCkpt),
   borrow |-> fundingOwed(p.size, adv.borrow, p.borrowCkpt)]

equity(p, isLong, s, price) ==
  p.collateral + pnl(p.size, p.entry, isLong, price) + p.earnedFunding + s.earned
    - (s.owed + s.borrow)

isLiquidatable(p, isLong, s, price, mmBps) ==
  p.size # 0 /\ equity(p, isLong, s, price) < maintenance(p.size, mmBps)

triggerMet(kind, isLong, price, trigger) ==
  IF kind = "TakeProfit" THEN (IF isLong THEN price >= trigger ELSE price <= trigger)
  ELSE (IF isLong THEN price <= trigger ELSE price >= trigger)

acceptablePriceMet(isLong, isIncrease, price, bound) ==
  IF isLong = isIncrease THEN price <= bound ELSE price >= bound
=============================================================================
