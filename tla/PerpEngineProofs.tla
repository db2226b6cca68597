-------------------------- MODULE PerpEngineProofs --------------------------
(***************************************************************************)
(* Proofs about PerpEngine for every set of traders, markets, prices,      *)
(* parameters and denominators.                                            *)
(***************************************************************************)
EXTENDS PerpEngine, AmountProofs

-----------------------------------------------------------------------------
(* Ranges of PerpMath's operators                                          *)

(* Fees and margins are natural.                                           *)
LEMMA FeeNat ==
  ASSUME NEW amount \in Nat, NEW bps \in Nat
  PROVE  feeBps(amount, bps) \in Nat /\ maintenance(amount, bps) \in Nat
BY MulDivNat, DenominatorsPositive DEF feeBps, maintenance

(* PnL is an integer wherever the entry price is not zero.                 *)
LEMMA PnlInt ==
  ASSUME NEW size \in Nat, NEW entry \in Nat, NEW isLong \in BOOLEAN, NEW price \in Nat,
         size > 0 => entry > 0
  PROVE  pnl(size, entry, isLong, price) \in Int
<1> DEFINE move == IF isLong THEN price - entry ELSE entry - price
<1>1. move \in Int
  OBVIOUS
<1>2. CASE size = 0 \/ move = 0
  BY <1>2 DEF pnl
<1>3. CASE size # 0 /\ move > 0
  <2>1. MulDivFloor(size, move, entry) \in Nat
    BY <1>1, <1>3, MulDivNat
  <2> QED
    BY <2>1, <1>3 DEF pnl
<1>4. CASE size # 0 /\ move < 0
  <2>1. MulDivCeil(size, -move, entry) \in Nat
    BY <1>1, <1>4, MulDivNat
  <2> QED
    BY <2>1, <1>4 DEF pnl
<1> QED
  BY <1>1, <1>2, <1>3, <1>4

(* Funding amounts are natural.                                            *)
LEMMA FundingNat ==
  ASSUME NEW size \in Nat, NEW cum \in Nat, NEW ckpt \in Nat
  PROVE  fundingOwed(size, cum, ckpt) \in Nat /\ fundingEarned(size, cum, ckpt) \in Nat
<1>1. CASE cum <= ckpt
  BY <1>1 DEF fundingOwed, fundingEarned
<1>2. CASE ~(cum <= ckpt)
  <2>1. cum - ckpt \in Nat
    BY <1>2
  <2>2. /\ MulDivCeil(size, cum - ckpt, SCALE) \in Nat
        /\ MulDivFloor(size, cum - ckpt, SCALE) \in Nat
    BY <2>1, MulDivNat, DenominatorsPositive
  <2> QED
    BY <1>2, <2>2 DEF fundingOwed, fundingEarned
<1> QED
  BY <1>1, <1>2

(* A slice owes at most what the whole position owes.                      *)
LEMMA SliceOwesLess ==
  ASSUME NEW part \in Nat, NEW size \in Nat, part <= size, NEW cum \in Nat, NEW ckpt \in Nat
  PROVE  fundingOwed(part, cum, ckpt) <= fundingOwed(size, cum, ckpt)
<1>1. CASE cum <= ckpt
  BY <1>1 DEF fundingOwed
<1>2. CASE ~(cum <= ckpt)
  <2>1. cum - ckpt \in Nat
    BY <1>2
  <2>2. MulDivCeil(part, cum - ckpt, SCALE) <= MulDivCeil(size, cum - ckpt, SCALE)
    BY <2>1, CeilMonotone, DenominatorsPositive
  <2> QED
    BY <1>2, <2>2 DEF fundingOwed
<1> QED
  BY <1>1, <1>2

(* The per-window drifts are natural.                                      *)
LEMMA DriftNat ==
  ASSUME NEW rate \in Nat, NEW window \in Nat, NEW long \in Nat, NEW short \in Nat
  PROVE  /\ skewFraction(long, short) \in Nat
         /\ fundingDrift(rate, window, skewFraction(long, short)) \in Nat
         /\ borrowDrift(rate, window) \in Nat
<1> DEFINE skew == IF long >= short THEN long - short ELSE short - long
<1>1. skew \in Nat
  OBVIOUS
<1> HIDE DEF skew
<1>2. skewFraction(long, short) \in Nat
  <2>1. CASE long + short = 0
    BY <2>1 DEF skewFraction
  <2>2. CASE long + short # 0
    <3>1. MulDivFloor(skew, SCALE, long + short) \in Nat
      BY <1>1, <2>2, MulDivNat, DenominatorsPositive
    <3> QED
      BY <2>2, <3>1 DEF skewFraction, skew
  <2> QED
    BY <2>1, <2>2
<1>3. window * skewFraction(long, short) \in Nat /\ window * SCALE \in Nat
  BY <1>2, ProductNat, DenominatorsPositive
<1> QED
  BY <1>2, <1>3, MulDivNat, DenominatorsPositive DEF fundingDrift, borrowDrift

-----------------------------------------------------------------------------

-----------------------------------------------------------------------------
(* Ranges of the operators the actions are built from                      *)

(* A checkpoint is rewound into the interval between its old value and the *)
(* cumulative.                                                             *)
LEMMA RewoundRange ==
  ASSUME NEW cum \in Nat, NEW ckpt \in Nat, ckpt <= cum,
         NEW owing \in Nat, NEW size \in Nat \ {0}
  PROVE  rewound(cum, ckpt, owing, size) \in ckpt..cum
<1>1. MulDivFloor(owing, SCALE, size) \in Nat
  BY MulDivNat, DenominatorsPositive
<1> QED
  BY <1>1 DEF rewound, Lesser

(* Writing naturals into a market's cumulatives keeps its shape.           *)
LEMMA MarketUpdate ==
  ASSUME NEW m \in Market, NEW cl \in Nat, NEW ks \in Nat, NEW cs \in Nat,
         NEW kl \in Nat, NEW b \in Nat, NEW t \in Nat
  PROVE  [m EXCEPT !.chargeLong = cl, !.creditShort = ks, !.chargeShort = cs,
                   !.creditLong = kl, !.borrow = b, !.updatedAt = t] \in Market
<1> DEFINE m1 == [m EXCEPT !.chargeLong = cl, !.creditShort = ks]
           m2 == [m1 EXCEPT !.chargeShort = cs, !.creditLong = kl]
           m3 == [m2 EXCEPT !.borrow = b, !.updatedAt = t]
<1>1. m1 \in Market
  BY DEF Market
<1> HIDE DEF m1
<1>2. m2 \in Market
  BY <1>1 DEF Market
<1> HIDE DEF m2
<1>3. m3 \in Market
  BY <1>2 DEF Market
<1> QED
  BY <1>3 DEF m1, m2, m3

(* accrue keeps a market's shape, moves no open interest or parameter and  *)
(* never lowers a cumulative.                                              *)
LEMMA AccrueFacts ==
  ASSUME NEW m \in Market, NEW t \in Nat
  PROVE  LET n == accrue(m, t)
         IN  /\ n \in Market
             /\ n.openLong = m.openLong /\ n.openShort = m.openShort
             /\ n.params = m.params /\ n.exists = m.exists /\ n.enabled = m.enabled
             /\ n.chargeLong >= m.chargeLong /\ n.chargeShort >= m.chargeShort
             /\ n.creditLong >= m.creditLong /\ n.creditShort >= m.creditShort
             /\ n.borrow >= m.borrow
<1>1. CASE t <= m.updatedAt
  BY <1>1 DEF accrue, Market
<1>2. CASE ~(t <= m.updatedAt)
  <2> DEFINE window == Lesser(t - m.updatedAt, MaxWindow)
             skewFrac == skewFraction(m.openLong, m.openShort)
             rate == Lesser(m.params.fundingRate, MaxRatePpm)
             drift == IF skewFrac > 0 THEN fundingDrift(rate, window, skewFrac) ELSE 0
             longPays == m.openLong >= m.openShort
             credit(pay, receive) ==
               IF receive > 0 THEN MulDivFloor(drift, pay, receive) ELSE 0
             cl == IF longPays THEN drift ELSE 0
             ks == IF longPays THEN credit(m.openLong, m.openShort) ELSE 0
             cs == IF longPays THEN 0 ELSE drift
             kl == IF longPays THEN 0 ELSE credit(m.openShort, m.openLong)
             b == borrowDrift(m.params.borrowRate, window)
  <2>1. /\ m.openLong \in Nat /\ m.openShort \in Nat /\ m.params \in MarketParams
        /\ m.updatedAt \in Nat
    BY DEF Market
  <2>2. window \in Nat /\ rate \in Nat /\ m.params.borrowRate \in Nat
    <3>1. MaxWindow \in Nat /\ MaxRatePpm \in Nat
      BY DenominatorsPositive, PerpConstants
    <3>2. m.params.fundingRate \in Nat /\ m.params.borrowRate \in Nat
      BY <2>1 DEF MarketParams
    <3>3. t - m.updatedAt \in Nat
      BY <1>2, <2>1
    <3> QED
      BY <3>1, <3>2, <3>3 DEF Lesser
  <2>3. drift \in Nat /\ b \in Nat
    <3> HIDE DEF window, rate
    <3>1. b \in Nat /\ skewFrac \in Nat /\ fundingDrift(rate, window, skewFrac) \in Nat
      BY <2>1, <2>2, DriftNat
    <3> QED
      BY <3>1
  <2> HIDE DEF drift, b, window, rate, skewFrac
  <2>4. credit(m.openLong, m.openShort) \in Nat /\ credit(m.openShort, m.openLong) \in Nat
    <3>1. ASSUME NEW p \in Nat, NEW r \in Nat  PROVE credit(p, r) \in Nat
      <4>1. CASE r > 0
        BY <2>3, <4>1, MulDivNat
      <4>2. CASE ~(r > 0)
        BY <4>2
      <4> QED
        BY <4>1, <4>2
    <3> QED
      BY <2>1, <3>1
  <2>5. cl \in Nat /\ ks \in Nat /\ cs \in Nat /\ kl \in Nat
    BY <2>3, <2>4
  <2>6. accrue(m, t) = [m EXCEPT !.chargeLong = @ + cl, !.creditShort = @ + ks,
                                 !.chargeShort = @ + cs, !.creditLong = @ + kl,
                                 !.borrow = @ + b, !.updatedAt = t]
    BY <1>2 DEF accrue, drift, b, window, rate, skewFrac
  <2> HIDE DEF cl, ks, cs, kl
  <2>7. /\ m.chargeLong \in Nat /\ m.chargeShort \in Nat /\ m.creditLong \in Nat
        /\ m.creditShort \in Nat /\ m.borrow \in Nat
    BY DEF Market
  <2>8. accrue(m, t) \in Market
    <3>1. /\ m.chargeLong + cl \in Nat /\ m.creditShort + ks \in Nat
          /\ m.chargeShort + cs \in Nat /\ m.creditLong + kl \in Nat
          /\ m.borrow + b \in Nat
      BY <2>3, <2>5, <2>7
    <3>2. [m EXCEPT !.chargeLong = m.chargeLong + cl, !.creditShort = m.creditShort + ks,
                    !.chargeShort = m.chargeShort + cs, !.creditLong = m.creditLong + kl,
                    !.borrow = m.borrow + b, !.updatedAt = t] \in Market
      BY <3>1, MarketUpdate
    <3>3. accrue(m, t)
            = [m EXCEPT !.chargeLong = m.chargeLong + cl, !.creditShort = m.creditShort + ks,
                        !.chargeShort = m.chargeShort + cs, !.creditLong = m.creditLong + kl,
                        !.borrow = m.borrow + b, !.updatedAt = t]
      BY <2>6, Zenon DEF Market
    <3> QED
      BY <3>2, <3>3
  <2>9. /\ accrue(m, t).openLong = m.openLong /\ accrue(m, t).openShort = m.openShort
        /\ accrue(m, t).params = m.params /\ accrue(m, t).exists = m.exists
        /\ accrue(m, t).enabled = m.enabled
    BY <2>6 DEF Market
  <2>10. /\ accrue(m, t).chargeLong = m.chargeLong + cl
         /\ accrue(m, t).chargeShort = m.chargeShort + cs
         /\ accrue(m, t).creditLong = m.creditLong + kl
         /\ accrue(m, t).creditShort = m.creditShort + ks
         /\ accrue(m, t).borrow = m.borrow + b
    BY <2>6 DEF Market
  <2> QED
    BY <2>3, <2>5, <2>7, <2>8, <2>9, <2>10
<1> QED
  BY <1>1, <1>2

(* The side's cumulatives are natural.                                     *)
LEMMA CumNat ==
  ASSUME NEW m \in Market, NEW isLong \in BOOLEAN
  PROVE  chargeCum(m, isLong) \in Nat /\ creditCum(m, isLong) \in Nat /\ m.borrow \in Nat
BY DEF chargeCum, creditCum, Market

(* Settling yields natural amounts and snapshots the checkpoints only.     *)
LEMMA SettleFacts ==
  ASSUME NEW m \in Market, NEW pos \in Position, NEW isLong \in BOOLEAN
  PROVE  LET s == settle(m, pos, isLong)
         IN  /\ s.owed \in Nat /\ s.earned \in Nat /\ s.borrow \in Nat
             /\ s.owed = fundingOwed(pos.size, chargeCum(m, isLong), pos.feeCkpt)
             /\ s.borrow = fundingOwed(pos.size, m.borrow, pos.borrowCkpt)
             /\ s.pos = snapshot(m, pos, isLong)
             /\ s.pos \in Position
             /\ s.pos.size = pos.size /\ s.pos.collateral = pos.collateral
             /\ s.pos.entry = pos.entry
             /\ s.pos.earnedFunding = pos.earnedFunding
             /\ s.pos.reserveShare = pos.reserveShare
             /\ s.pos.feeCkpt = chargeCum(m, isLong)
             /\ s.pos.creditCkpt = creditCum(m, isLong)
             /\ s.pos.borrowCkpt = m.borrow
<1>1. /\ pos.size \in Nat /\ pos.feeCkpt \in Nat /\ pos.creditCkpt \in Nat
      /\ pos.borrowCkpt \in Nat
  BY DEF Position
<1>2. chargeCum(m, isLong) \in Nat /\ creditCum(m, isLong) \in Nat /\ m.borrow \in Nat
  BY CumNat
<1>3. /\ fundingOwed(pos.size, chargeCum(m, isLong), pos.feeCkpt) \in Nat
      /\ fundingEarned(pos.size, creditCum(m, isLong), pos.creditCkpt) \in Nat
      /\ fundingOwed(pos.size, m.borrow, pos.borrowCkpt) \in Nat
  BY <1>1, <1>2, FundingNat
<1>4. snapshot(m, pos, isLong) \in Position
  BY <1>2 DEF snapshot, Position
<1> QED
  BY <1>2, <1>3, <1>4 DEF settle, snapshot, Position

(* The checkpoints of an open position are behind the cumulatives.         *)
Behind(m, pos, isLong) ==
  /\ pos.feeCkpt <= chargeCum(m, isLong)
  /\ pos.creditCkpt <= creditCum(m, isLong)
  /\ pos.borrowCkpt <= m.borrow

(* Charging takes no more than the collateral, and a rewound checkpoint    *)
(* stays between the settled one and the cumulative.                       *)
LEMMA ChargeFacts ==
  ASSUME NEW m \in Market, NEW pos \in Position, NEW isLong \in BOOLEAN, pos.size > 0
  PROVE  LET c == chargeFunding(m, pos, isLong)
         IN  /\ c.charged \in 0..pos.collateral /\ c.earned \in Nat
             /\ c.pos \in Position /\ Behind(m, c.pos, isLong)
             /\ c.pos.size = pos.size /\ c.pos.collateral = pos.collateral
             /\ c.pos.entry = pos.entry
             /\ c.pos.earnedFunding = pos.earnedFunding
             /\ c.pos.reserveShare = pos.reserveShare
<1> DEFINE s == settle(m, pos, isLong)
           funding == Lesser(s.owed, pos.collateral)
           borrow == Lesser(s.borrow, pos.collateral - funding)
           fee == IF funding < s.owed
                  THEN rewound(chargeCum(m, isLong), s.pos.feeCkpt, s.owed - funding, pos.size)
                  ELSE s.pos.feeCkpt
           bor == IF borrow < s.borrow
                  THEN rewound(m.borrow, s.pos.borrowCkpt, s.borrow - borrow, pos.size)
                  ELSE s.pos.borrowCkpt
<1>1. /\ s.owed \in Nat /\ s.earned \in Nat /\ s.borrow \in Nat /\ s.pos \in Position
      /\ s.pos.size = pos.size /\ s.pos.collateral = pos.collateral
      /\ s.pos.entry = pos.entry /\ s.pos.earnedFunding = pos.earnedFunding
      /\ s.pos.reserveShare = pos.reserveShare
      /\ s.pos.feeCkpt = chargeCum(m, isLong) /\ s.pos.creditCkpt = creditCum(m, isLong)
      /\ s.pos.borrowCkpt = m.borrow
  BY SettleFacts
<1>2. chargeCum(m, isLong) \in Nat /\ creditCum(m, isLong) \in Nat /\ m.borrow \in Nat
  BY CumNat
<1>3. pos.size \in Nat \ {0} /\ pos.collateral \in Nat
  BY DEF Position
<1>4. chargeFunding(m, pos, isLong)
        = [charged |-> funding + borrow, earned |-> s.earned,
           pos |-> [s.pos EXCEPT !.feeCkpt = fee, !.borrowCkpt = bor]]
  BY <1>1 DEF chargeFunding
<1> HIDE DEF s
<1>5. funding \in 0..pos.collateral /\ funding <= s.owed
  BY <1>1, <1>3 DEF Lesser
<1> HIDE DEF funding
<1>6. borrow \in 0..(pos.collateral - funding) /\ borrow <= s.borrow
  BY <1>1, <1>3, <1>5 DEF Lesser
<1> HIDE DEF borrow
<1>7. fee \in Nat /\ fee <= chargeCum(m, isLong)
  <2>1. CASE funding < s.owed
    <3>1. s.owed - funding \in Nat
      BY <1>1, <1>5, <2>1
    <3>2. s.pos.feeCkpt \in Nat /\ s.pos.feeCkpt <= chargeCum(m, isLong)
      BY <1>1, <1>2
    <3>3. rewound(chargeCum(m, isLong), s.pos.feeCkpt, s.owed - funding, pos.size)
            \in s.pos.feeCkpt..chargeCum(m, isLong)
      BY <1>2, <1>3, <3>1, <3>2, RewoundRange
    <3> QED
      BY <1>1, <1>2, <2>1, <3>3
  <2>2. CASE ~(funding < s.owed)
    BY <1>1, <1>2, <2>2
  <2> QED
    BY <2>1, <2>2
<1>8. bor \in Nat /\ bor <= m.borrow
  <2>1. CASE borrow < s.borrow
    <3>1. s.borrow - borrow \in Nat
      BY <1>1, <1>3, <1>5, <1>6, <2>1
    <3>2. s.pos.borrowCkpt \in Nat /\ s.pos.borrowCkpt <= m.borrow
      BY <1>1, <1>2
    <3>3. rewound(m.borrow, s.pos.borrowCkpt, s.borrow - borrow, pos.size)
            \in s.pos.borrowCkpt..m.borrow
      BY <1>2, <1>3, <3>1, <3>2, RewoundRange
    <3> QED
      BY <1>1, <1>2, <2>1, <3>3
  <2>2. CASE ~(borrow < s.borrow)
    BY <1>1, <1>2, <2>2
  <2> QED
    BY <2>1, <2>2
<1> HIDE DEF fee, bor
<1>9. [s.pos EXCEPT !.feeCkpt = fee, !.borrowCkpt = bor] \in Position
  BY <1>1, <1>7, <1>8 DEF Position
<1>10. Behind(m, [s.pos EXCEPT !.feeCkpt = fee, !.borrowCkpt = bor], isLong)
  BY <1>1, <1>2, <1>7, <1>8 DEF Behind, Position
<1>11. funding + borrow \in 0..pos.collateral
  BY <1>3, <1>5, <1>6
<1> DEFINE new == [s.pos EXCEPT !.feeCkpt = fee, !.borrowCkpt = bor]
<1>12. /\ new.size = s.pos.size /\ new.collateral = s.pos.collateral
       /\ new.entry = s.pos.entry /\ new.earnedFunding = s.pos.earnedFunding
       /\ new.reserveShare = s.pos.reserveShare
  BY <1>1 DEF Position
<1>13. /\ chargeFunding(m, pos, isLong).charged = funding + borrow
       /\ chargeFunding(m, pos, isLong).earned = s.earned
       /\ chargeFunding(m, pos, isLong).pos = new
  BY <1>4
<1> HIDE DEF new
<1> QED
  BY <1>1, <1>9, <1>10, <1>11, <1>12, <1>13 DEF new

(* What an increase does to the position before it adds size.              *)
LEMMA TouchedFacts ==
  ASSUME NEW m \in Market, NEW pos \in Position, NEW isLong \in BOOLEAN
  PROVE  LET t == touched(m, pos, isLong)
         IN  /\ t.charged \in Nat /\ t.earned \in Nat
             /\ t.pos \in Position /\ Behind(m, t.pos, isLong)
             /\ t.pos.collateral = pos.collateral - t.charged
             /\ t.pos.earnedFunding = pos.earnedFunding + t.earned
             /\ t.pos.reserveShare = pos.reserveShare
<1>1. CASE pos.size > 0
  <2> DEFINE c == chargeFunding(m, pos, isLong)
  <2>1. /\ c.charged \in 0..pos.collateral /\ c.earned \in Nat
        /\ c.pos \in Position /\ Behind(m, c.pos, isLong)
        /\ c.pos.size = pos.size /\ c.pos.collateral = pos.collateral
        /\ c.pos.earnedFunding = pos.earnedFunding
        /\ c.pos.reserveShare = pos.reserveShare
    BY <1>1, ChargeFacts
  <2>2. touched(m, pos, isLong)
          = [charged |-> c.charged, earned |-> c.earned,
             pos |-> [c.pos EXCEPT !.earnedFunding = c.pos.earnedFunding + c.earned,
                                   !.collateral = c.pos.collateral - c.charged]]
    BY <1>1, <2>1 DEF touched, Position
  <2> HIDE DEF c
  <2>3. /\ c.pos.earnedFunding + c.earned \in Nat /\ c.pos.collateral - c.charged \in Nat
        /\ c.charged \in Nat
    BY <2>1 DEF Position
  <2>4. [c.pos EXCEPT !.earnedFunding = c.pos.earnedFunding + c.earned,
                      !.collateral = c.pos.collateral - c.charged] \in Position
    BY <2>1, <2>3 DEF Position
  <2> DEFINE new == [c.pos EXCEPT !.earnedFunding = c.pos.earnedFunding + c.earned,
                                  !.collateral = c.pos.collateral - c.charged]
  <2>5. /\ new.earnedFunding = c.pos.earnedFunding + c.earned
        /\ new.collateral = c.pos.collateral - c.charged
        /\ new.reserveShare = c.pos.reserveShare /\ new.feeCkpt = c.pos.feeCkpt
        /\ new.creditCkpt = c.pos.creditCkpt /\ new.borrowCkpt = c.pos.borrowCkpt
    BY <2>1 DEF Position
  <2>6. /\ touched(m, pos, isLong).charged = c.charged
        /\ touched(m, pos, isLong).earned = c.earned
        /\ touched(m, pos, isLong).pos = new
    BY <2>2
  <2>7. new \in Position
    BY <2>4
  <2> HIDE DEF new
  <2>8. Behind(m, new, isLong)
    BY <2>1, <2>5 DEF Behind
  <2> QED
    BY <2>1, <2>3, <2>5, <2>6, <2>7, <2>8
<1>2. CASE ~(pos.size > 0)
  <2>1. /\ snapshot(m, pos, isLong) \in Position
        /\ snapshot(m, pos, isLong).collateral = pos.collateral
        /\ snapshot(m, pos, isLong).earnedFunding = pos.earnedFunding
        /\ snapshot(m, pos, isLong).reserveShare = pos.reserveShare
        /\ snapshot(m, pos, isLong).feeCkpt = chargeCum(m, isLong)
        /\ snapshot(m, pos, isLong).creditCkpt = creditCum(m, isLong)
        /\ snapshot(m, pos, isLong).borrowCkpt = m.borrow
    BY SettleFacts
  <2>2. Behind(m, snapshot(m, pos, isLong), isLong)
    BY <2>1, CumNat DEF Behind
  <2>3. touched(m, pos, isLong)
          = [charged |-> 0, earned |-> 0, pos |-> snapshot(m, pos, isLong)]
    BY <1>2 DEF touched
  <2>4. pos.collateral \in Nat /\ pos.earnedFunding \in Nat
    BY DEF Position
  <2> QED
    BY <2>1, <2>2, <2>3, <2>4
<1> QED
  BY <1>1, <1>2

(* Equity is an integer.                                                   *)
LEMMA EquityInt ==
  ASSUME NEW m \in Market, NEW pos \in Position, NEW isLong \in BOOLEAN, NEW price \in Nat,
         pos.size > 0 => pos.entry > 0
  PROVE  equityOf(m, pos, isLong, price) \in Int
<1>1. pos.size \in Nat /\ pos.entry \in Nat /\ pos.collateral \in Nat /\ pos.earnedFunding \in Nat
  BY DEF Position
<1>2. pnl(pos.size, pos.entry, isLong, price) \in Int
  BY <1>1, PnlInt
<1>3. /\ settle(m, pos, isLong).owed \in Nat /\ settle(m, pos, isLong).earned \in Nat
      /\ settle(m, pos, isLong).borrow \in Nat
  BY SettleFacts
<1> QED
  BY <1>1, <1>2, <1>3 DEF equityOf

(* Closing a slice releases no more collateral, earnings or debt than the  *)
(* position has; closing all of it releases all.                           *)
LEMMA CloseFacts ==
  ASSUME NEW m \in Market, NEW pos \in Position, NEW isLong \in BOOLEAN, NEW price \in Nat,
         NEW delta \in 1..pos.size, pos.entry > 0
  PROVE  LET c == closeSlice(m, pos, isLong, delta, price)
         IN  /\ c.released \in 0..pos.collateral
             /\ delta = pos.size => c.released = pos.collateral
             /\ c.due \in Nat
             /\ c.paidLedger \in 0..c.released
             /\ c.carried \in Nat /\ c.owedRem \in Nat /\ c.borrowRem \in Nat
             /\ c.pos = snapshot(m, pos, isLong)
<1> DEFINE s == settle(m, pos, isLong)
           balanceTotal == pos.earnedFunding + s.earned
           released == MulDivFloor(pos.collateral, delta, pos.size)
           closeFee == feeBps(delta, m.params.closeFeeBps)
           owed == fundingOwed(delta, chargeCum(m, isLong), pos.feeCkpt)
           borrow == fundingOwed(delta, m.borrow, pos.borrowCkpt)
           earned == MulDivFloor(balanceTotal, delta, pos.size)
           gain == pnl(delta, pos.entry, isLong, price)
           raw == released + gain - closeFee - (owed + borrow) + earned
<1>1. /\ s.owed \in Nat /\ s.earned \in Nat /\ s.borrow \in Nat
      /\ s.pos = snapshot(m, pos, isLong)
      /\ s.owed = fundingOwed(pos.size, chargeCum(m, isLong), pos.feeCkpt)
      /\ s.borrow = fundingOwed(pos.size, m.borrow, pos.borrowCkpt)
  BY SettleFacts
<1>2. /\ pos.size \in Nat \ {0} /\ pos.collateral \in Nat /\ pos.earnedFunding \in Nat
      /\ pos.feeCkpt \in Nat /\ pos.borrowCkpt \in Nat /\ pos.entry \in Nat
      /\ delta \in Nat /\ delta <= pos.size
  BY DEF Position
<1>3. chargeCum(m, isLong) \in Nat /\ m.borrow \in Nat /\ m.params.closeFeeBps \in Nat
  BY CumNat DEF Market, MarketParams
<1>4. closeSlice(m, pos, isLong, delta, price)
        = [released |-> released, due |-> PosPart(raw),
           paidLedger |-> Lesser(closeFee, released), carried |-> balanceTotal - earned,
           owedRem |-> s.owed - owed, borrowRem |-> s.borrow - borrow, pos |-> s.pos]
  BY DEF closeSlice
<1>5. balanceTotal \in Nat
  BY <1>1, <1>2
<1> HIDE DEF s, balanceTotal
<1>6. released \in Nat /\ released <= pos.collateral
  BY <1>2, MulDivNat, FloorShare
<1>7. delta = pos.size => released = pos.collateral
  <2> SUFFICES ASSUME delta = pos.size PROVE released = pos.collateral
    OBVIOUS
  <2>1. (pos.collateral * pos.size) \div pos.size = pos.collateral
    BY <1>2
  <2> QED
    BY <2>1 DEF MulDivFloor
<1>8. earned \in Nat /\ earned <= balanceTotal
  BY <1>2, <1>5, MulDivNat, FloorShare
<1>9. closeFee \in Nat
  BY <1>2, <1>3, FeeNat
<1>10. owed \in Nat /\ borrow \in Nat
  BY <1>2, <1>3, FundingNat
<1>11. owed <= s.owed /\ borrow <= s.borrow
  <2>1. owed <= fundingOwed(pos.size, chargeCum(m, isLong), pos.feeCkpt)
    BY <1>2, <1>3, SliceOwesLess
  <2>2. borrow <= fundingOwed(pos.size, m.borrow, pos.borrowCkpt)
    BY <1>2, <1>3, SliceOwesLess
  <2> QED
    BY <1>1, <2>1, <2>2
<1>12. gain \in Int
  BY <1>2, PnlInt
<1> HIDE DEF released, closeFee, owed, borrow, earned, gain
<1>13. PosPart(raw) \in Nat
  BY <1>6, <1>8, <1>9, <1>10, <1>12 DEF PosPart
<1>14. Lesser(closeFee, released) \in 0..released
  BY <1>6, <1>9 DEF Lesser
<1>15. /\ balanceTotal - earned \in Nat
       /\ s.owed - owed \in Nat /\ s.borrow - borrow \in Nat
  BY <1>1, <1>5, <1>8, <1>10, <1>11
<1>16. released \in 0..pos.collateral
  BY <1>2, <1>6
<1> HIDE DEF raw
<1> QED
  BY <1>1, <1>4, <1>7, <1>13, <1>14, <1>15, <1>16

(* What is left of a position after a slice closed.                        *)
LEMMA RemainderFacts ==
  ASSUME NEW m \in Market, NEW pos \in Position, NEW isLong \in BOOLEAN, NEW price \in Nat,
         NEW delta \in 1..pos.size, pos.entry > 0, Behind(m, pos, isLong)
  PROVE  LET c == closeSlice(m, pos, isLong, delta, price)
             after == remainder(m, pos, isLong, delta, price, c)
         IN  /\ after \in Position
             /\ after.size = pos.size - delta
             /\ after.collateral = pos.collateral - c.released
             /\ after.size > 0 => after.entry > 0 /\ Behind(m, after, isLong)
<1> DEFINE c == closeSlice(m, pos, isLong, delta, price)
           left == pos.size - delta
<1>1. /\ c.released \in 0..pos.collateral
      /\ delta = pos.size => c.released = pos.collateral
      /\ c.carried \in Nat /\ c.owedRem \in Nat /\ c.borrowRem \in Nat
      /\ c.pos = snapshot(m, pos, isLong)
  BY CloseFacts
<1>2. /\ pos.size \in Nat \ {0} /\ pos.collateral \in Nat /\ pos.entry \in Nat
      /\ pos.feeCkpt \in Nat /\ pos.borrowCkpt \in Nat /\ delta \in Nat /\ delta <= pos.size
      /\ left \in Nat
  BY DEF Position
<1>3. /\ chargeCum(m, isLong) \in Nat /\ creditCum(m, isLong) \in Nat /\ m.borrow \in Nat
      /\ pos.feeCkpt <= chargeCum(m, isLong) /\ pos.borrowCkpt <= m.borrow
  BY CumNat DEF Behind
<1> HIDE DEF c
<1>4. CASE left = 0
  <2>1. remainder(m, pos, isLong, delta, price, c) = NoPosition
    BY <1>4 DEF remainder
  <2>2. NoPosition \in Position /\ NoPosition.size = 0 /\ NoPosition.collateral = 0
    BY DEF NoPosition, Position
  <2>3. delta = pos.size /\ c.released = pos.collateral
    BY <1>1, <1>2, <1>4
  <2> QED
    BY <1>2, <1>4, <2>1, <2>2, <2>3 DEF c
<1>5. CASE left # 0
  <2> DEFINE p0 == snapshot(m, pos, isLong)
             fee == rewound(chargeCum(m, isLong), pos.feeCkpt, c.owedRem, left)
             bor == rewound(m.borrow, pos.borrowCkpt, c.borrowRem, left)
             share == PosPart(pnl(left, pos.entry, isLong, price))
             p1 == [p0 EXCEPT !.feeCkpt = fee, !.borrowCkpt = bor]
             p2 == [p1 EXCEPT !.size = left, !.collateral = p1.collateral - c.released]
             p3 == [p2 EXCEPT !.earnedFunding = c.carried, !.reserveShare = share]
  <2>1. /\ p0 \in Position /\ p0.collateral = pos.collateral /\ p0.entry = pos.entry
        /\ p0.creditCkpt = creditCum(m, isLong)
    BY SettleFacts
  <2>2. fee \in Nat /\ fee <= chargeCum(m, isLong) /\ bor \in Nat /\ bor <= m.borrow
    <3>1. left \in Nat \ {0}
      BY <1>2, <1>5
    <3>2. fee \in pos.feeCkpt..chargeCum(m, isLong)
      BY <1>1, <1>2, <1>3, <3>1, RewoundRange
    <3>3. bor \in pos.borrowCkpt..m.borrow
      BY <1>1, <1>2, <1>3, <3>1, RewoundRange
    <3> QED
      BY <1>2, <1>3, <3>2, <3>3
  <2>3. share \in Nat
    <3>1. pnl(left, pos.entry, isLong, price) \in Int
      BY <1>2, PnlInt
    <3> QED
      BY <3>1 DEF PosPart
  <2>4. remainder(m, pos, isLong, delta, price, c) = p3
    BY <1>1, <1>5, <2>1 DEF remainder, rewindFunding
  <2> HIDE DEF fee, bor, share, p0, left
  <2>5. /\ p1 \in Position /\ p1.collateral = pos.collateral /\ p1.entry = pos.entry
        /\ p1.feeCkpt = fee /\ p1.borrowCkpt = bor /\ p1.creditCkpt = creditCum(m, isLong)
    BY <2>1, <2>2 DEF Position
  <2> HIDE DEF p1
  <2>6. pos.collateral - c.released \in Nat
    BY <1>1, <1>2
  <2>7. /\ p2 \in Position /\ p2.collateral = pos.collateral - c.released
        /\ p2.entry = pos.entry /\ p2.size = left
        /\ p2.feeCkpt = fee /\ p2.borrowCkpt = bor /\ p2.creditCkpt = creditCum(m, isLong)
    BY <1>2, <2>5, <2>6 DEF Position
  <2> HIDE DEF p2
  <2>8. /\ p3 \in Position /\ p3.collateral = pos.collateral - c.released
        /\ p3.entry = pos.entry /\ p3.size = left
        /\ p3.feeCkpt = fee /\ p3.borrowCkpt = bor /\ p3.creditCkpt = creditCum(m, isLong)
    BY <1>1, <2>3, <2>7 DEF Position
  <2> HIDE DEF p3
  <2>9. Behind(m, p3, isLong)
    BY <1>3, <2>2, <2>8 DEF Behind
  <2> QED
    BY <2>4, <2>8, <2>9 DEF left, c
<1> QED
  BY <1>4, <1>5

-----------------------------------------------------------------------------
(* How the sums move when one order, one position or one balance changes   *)

(* The index sets are finite and the keys have their parts.                *)
LEMMA FiniteIndices ==
  /\ IsFiniteSet(PositionKeys) /\ IsFiniteSet(OrderIds) /\ IsFiniteSet(Accounts)
  /\ \A k \in PositionKeys : k[1] \in Accounts /\ k[2] \in GpuIds /\ k[3] \in BOOLEAN
<1>1. IsFiniteSet(BOOLEAN)
  <2>1. IsFiniteSet({FALSE})
    BY FS_Singleton
  <2>2. IsFiniteSet({FALSE} \cup {TRUE})
    BY <2>1, FS_AddElement
  <2>3. BOOLEAN = {FALSE} \cup {TRUE}
    OBVIOUS
  <2> QED
    BY <2>2, <2>3
<1>2. IsFiniteSet(Accounts) /\ IsFiniteSet(GpuIds) /\ MaxOrders \in Nat
  BY PerpConstants
<1> DEFINE pairs == Accounts \X GpuIds
           flat == pairs \X BOOLEAN
           f == [x \in flat |-> <<x[1][1], x[1][2], x[2]>>]
<1>3. IsFiniteSet(flat)
  BY <1>1, <1>2, FS_Product
<1>4. f \in Surjection(flat, PositionKeys)
  <2>1. f \in [flat -> PositionKeys]
    BY DEF PositionKeys
  <2>2. ASSUME NEW k \in PositionKeys PROVE \E x \in flat : f[x] = k
    <3>1. /\ k[1] \in Accounts /\ k[2] \in GpuIds /\ k[3] \in BOOLEAN
          /\ k = <<k[1], k[2], k[3]>>
      BY DEF PositionKeys
    <3>2. <<<<k[1], k[2]>>, k[3]>> \in flat
      BY <3>1
    <3>3. f[<<<<k[1], k[2]>>, k[3]>>] = k
      BY <3>1, <3>2
    <3> QED
      BY <3>2, <3>3
  <2> QED
    BY <2>1, <2>2 DEF Surjection
<1>5. IsFiniteSet(PositionKeys)
  BY <1>3, <1>4, FS_Surjection
<1>6. IsFiniteSet(OrderIds)
  BY <1>2, FS_Interval DEF OrderIds
<1> QED
  BY <1>2, <1>5, <1>6 DEF PositionKeys

(* An escrow is natural.                                                   *)
LEMMA EscrowNat ==
  ASSUME NEW o \in Order
  PROVE  escrow(o) \in Nat
BY DEF escrow, Order

(* Escrow is counted in whole units.                                       *)
LEMMA EscrowFunction ==
  ASSUME orders \in [OrderIds -> Order]
  PROVE  pendingEscrow \in [OrderIds -> Nat]
BY EscrowNat DEF pendingEscrow

(* One order changes: the pending escrow changes by its part.              *)
LEMMA EscrowChange ==
  ASSUME orders \in [OrderIds -> Order], orders' \in [OrderIds -> Order],
         NEW id \in OrderIds, \A j \in OrderIds \ {id} : orders'[j] = orders[j]
  PROVE  /\ SumOf(pendingEscrow)' = SumOf(pendingEscrow) - pendingEscrow[id] + pendingEscrow'[id]
         /\ SumOf(pendingEscrow) \in Nat /\ SumOf(pendingEscrow)' \in Nat
         /\ pendingEscrow[id] \in Nat /\ pendingEscrow[id] <= SumOf(pendingEscrow)
<1>1. pendingEscrow \in [OrderIds -> Nat]
  BY EscrowFunction
<1>2. pendingEscrow' \in [OrderIds -> Nat]
  BY EscrowNat DEF pendingEscrow
<1>3. \A j \in OrderIds \ {id} : pendingEscrow'[j] = pendingEscrow[j]
  BY DEF pendingEscrow
<1>4. IsFiniteSet(OrderIds)
  BY FiniteIndices
<1>5. SumOf(pendingEscrow') = SumOf(pendingEscrow) - pendingEscrow[id] + pendingEscrow'[id]
  BY <1>1, <1>2, <1>3, <1>4, SumChange
<1>6. SumOf(pendingEscrow) \in Nat /\ SumOf(pendingEscrow') \in Nat
  BY <1>1, <1>2, <1>4, SumNat
<1>7. pendingEscrow[id] <= SumOf(pendingEscrow)
  BY <1>1, <1>4, SumBoundsPart
<1> QED
  BY <1>1, <1>5, <1>6, <1>7 DEF SumOf, Region, Column

(* One position changes: each sum over positions changes by its part.      *)
LEMMA PositionChange ==
  ASSUME positions \in [PositionKeys -> Position], positions' \in [PositionKeys -> Position],
         NEW key \in PositionKeys,
         \A k \in PositionKeys \ {key} : positions'[k] = positions[k]
  PROVE  /\ SumOf(openCollateral') = SumOf(openCollateral) - positions[key].collateral
                                       + positions'[key].collateral
         /\ SumOf(reserveShares') = SumOf(reserveShares) - positions[key].reserveShare
                                       + positions'[key].reserveShare
         /\ SumOf(earnedShares') = SumOf(earnedShares) - positions[key].earnedFunding
                                       + positions'[key].earnedFunding
         /\ \A g \in GpuIds, l \in BOOLEAN :
              /\ SumOf(sideSizes(g, l)') =
                   IF key[2] = g /\ key[3] = l
                   THEN SumOf(sideSizes(g, l)) - positions[key].size + positions'[key].size
                   ELSE SumOf(sideSizes(g, l))
              /\ key[2] = g /\ key[3] = l => positions[key].size <= SumOf(sideSizes(g, l))
         /\ positions[key].collateral <= SumOf(openCollateral)
         /\ positions[key].reserveShare <= SumOf(reserveShares)
         /\ positions[key].earnedFunding <= SumOf(earnedShares)
         /\ SumOf(openCollateral) \in Nat /\ SumOf(reserveShares) \in Nat
         /\ SumOf(earnedShares) \in Nat
<1> IsFiniteSet(PositionKeys)
  BY FiniteIndices
<1>1. /\ openCollateral \in [PositionKeys -> Nat] /\ openCollateral' \in [PositionKeys -> Nat]
      /\ openCollateral[key] = positions[key].collateral
      /\ openCollateral'[key] = positions'[key].collateral
      /\ \A k \in PositionKeys \ {key} : openCollateral'[k] = openCollateral[k]
  BY DEF openCollateral, Position
<1>2. /\ reserveShares \in [PositionKeys -> Nat] /\ reserveShares' \in [PositionKeys -> Nat]
      /\ reserveShares[key] = positions[key].reserveShare
      /\ reserveShares'[key] = positions'[key].reserveShare
      /\ \A k \in PositionKeys \ {key} : reserveShares'[k] = reserveShares[k]
  BY DEF reserveShares, Position
<1>3. /\ earnedShares \in [PositionKeys -> Nat] /\ earnedShares' \in [PositionKeys -> Nat]
      /\ earnedShares[key] = positions[key].earnedFunding
      /\ earnedShares'[key] = positions'[key].earnedFunding
      /\ \A k \in PositionKeys \ {key} : earnedShares'[k] = earnedShares[k]
  BY DEF earnedShares, Position
<1>4. ASSUME NEW g \in GpuIds, NEW l \in BOOLEAN
      PROVE  /\ sideSizes(g, l) \in [PositionKeys -> Nat]
             /\ sideSizes(g, l)' \in [PositionKeys -> Nat]
             /\ \A k \in PositionKeys \ {key} : sideSizes(g, l)'[k] = sideSizes(g, l)[k]
             /\ IF key[2] = g /\ key[3] = l
                THEN /\ sideSizes(g, l)[key] = positions[key].size
                     /\ sideSizes(g, l)'[key] = positions'[key].size
                ELSE sideSizes(g, l)[key] = 0 /\ sideSizes(g, l)'[key] = 0
  BY DEF sideSizes, Position
<1>5. SumOf(openCollateral') = SumOf(openCollateral) - openCollateral[key] + openCollateral'[key]
  BY <1>1, SumChange
<1>6. SumOf(reserveShares') = SumOf(reserveShares) - reserveShares[key] + reserveShares'[key]
  BY <1>2, SumChange
<1>7. SumOf(earnedShares') = SumOf(earnedShares) - earnedShares[key] + earnedShares'[key]
  BY <1>3, SumChange
<1>8. ASSUME NEW g \in GpuIds, NEW l \in BOOLEAN
      PROVE  /\ SumOf(sideSizes(g, l)')
                  = SumOf(sideSizes(g, l)) - sideSizes(g, l)[key] + sideSizes(g, l)'[key]
             /\ SumOf(sideSizes(g, l)) \in Nat
             /\ sideSizes(g, l)[key] <= SumOf(sideSizes(g, l))
  <2> DEFINE f == sideSizes(g, l)
             h == sideSizes(g, l)'
  <2>1. /\ f \in [PositionKeys -> Nat] /\ h \in [PositionKeys -> Nat]
        /\ \A k \in PositionKeys \ {key} : h[k] = f[k]
    BY <1>4
  <2> HIDE DEF f, h
  <2>2. SumOf(h) = SumOf(f) - f[key] + h[key]
    BY <2>1, SumChange
  <2>3. SumOf(f) \in Nat /\ f[key] <= SumOf(f)
    BY <2>1, SumNat, SumBoundsPart
  <2> QED
    BY <2>2, <2>3 DEF f, h
<1>9. \A g \in GpuIds, l \in BOOLEAN :
        /\ SumOf(sideSizes(g, l)') =
             IF key[2] = g /\ key[3] = l
             THEN SumOf(sideSizes(g, l)) - positions[key].size + positions'[key].size
             ELSE SumOf(sideSizes(g, l))
        /\ key[2] = g /\ key[3] = l => positions[key].size <= SumOf(sideSizes(g, l))
  <2> SUFFICES ASSUME NEW g \in GpuIds, NEW l \in BOOLEAN
               PROVE  /\ SumOf(sideSizes(g, l)') =
                           IF key[2] = g /\ key[3] = l
                           THEN SumOf(sideSizes(g, l)) - positions[key].size + positions'[key].size
                           ELSE SumOf(sideSizes(g, l))
                      /\ key[2] = g /\ key[3] = l => positions[key].size <= SumOf(sideSizes(g, l))
    OBVIOUS
  <2>1. CASE key[2] = g /\ key[3] = l
    BY <1>4, <1>8, <2>1
  <2>2. CASE ~(key[2] = g /\ key[3] = l)
    <3>1. sideSizes(g, l)[key] = 0 /\ sideSizes(g, l)'[key] = 0
      BY <1>4, <2>2
    <3> QED
      BY <1>8, <2>2, <3>1
  <2> QED
    BY <2>1, <2>2
<1>10. /\ openCollateral[key] <= SumOf(openCollateral)
       /\ reserveShares[key] <= SumOf(reserveShares)
       /\ earnedShares[key] <= SumOf(earnedShares)
       /\ SumOf(openCollateral) \in Nat /\ SumOf(reserveShares) \in Nat
       /\ SumOf(earnedShares) \in Nat
  BY <1>1, <1>2, <1>3, SumNat, SumBoundsPart
<1> QED
  BY <1>1, <1>2, <1>3, <1>5, <1>6, <1>7, <1>9, <1>10

-----------------------------------------------------------------------------
(* The inductive invariant.  The balance needs the sums (a refund or a     *)
(* release must be covered), the totals need the shares they subtract, the *)
(* open interest the sizes, and the settlement amounts need checkpoints    *)
(* behind the cumulatives and an entry price to divide by.                 *)
Core ==
  /\ TypeOK
  /\ AtRestBalance
  /\ TotalsAreSums
  /\ ReservationPushed
  /\ OpenInterestIsSum
  /\ CheckpointsBehind
  /\ WellFormed

(* Cumulatives never move back.                                            *)
CumulativesGrow ==
  \A g \in GpuIds : /\ market'[g].chargeLong >= market[g].chargeLong
                    /\ market'[g].chargeShort >= market[g].chargeShort
                    /\ market'[g].creditLong >= market[g].creditLong
                    /\ market'[g].creditShort >= market[g].creditShort
                    /\ market'[g].borrow >= market[g].borrow

(* A position stays behind cumulatives that grow.                          *)
LEMMA BehindStays ==
  ASSUME NEW m \in Market, NEW n \in Market, NEW pos \in Position, NEW isLong \in BOOLEAN,
         n.chargeLong >= m.chargeLong, n.chargeShort >= m.chargeShort,
         n.creditLong >= m.creditLong, n.creditShort >= m.creditShort, n.borrow >= m.borrow,
         Behind(m, pos, isLong)
  PROVE  Behind(n, pos, isLong)
BY DEF Behind, chargeCum, creditCum, Market, Position

(* Checkpoints stay behind when every changed position is behind.          *)
LEMMA CheckpointStep ==
  ASSUME market \in [GpuIds -> Market], market' \in [GpuIds -> Market],
         positions \in [PositionKeys -> Position], CheckpointsBehind, CumulativesGrow,
         \A k \in PositionKeys :
           \/ positions'[k] = positions[k]
           \/ positions'[k].size > 0 => Behind(market'[k[2]], positions'[k], k[3])
  PROVE  CheckpointsBehind'
<1> SUFFICES ASSUME NEW k \in PositionKeys, positions'[k].size > 0
             PROVE  Behind(market'[k[2]], positions'[k], k[3])
  BY DEF CheckpointsBehind, Behind, chargeCum, creditCum
<1>1. k[2] \in GpuIds /\ k[3] \in BOOLEAN
  BY FiniteIndices
<1>2. CASE positions'[k] = positions[k]
  <2>1. Behind(market[k[2]], positions[k], k[3])
    BY <1>2 DEF CheckpointsBehind, Behind
  <2>2. market[k[2]] \in Market /\ market'[k[2]] \in Market /\ positions[k] \in Position
    BY <1>1
  <2>3. Behind(market'[k[2]], positions[k], k[3])
    BY <1>1, <2>1, <2>2, BehindStays DEF CumulativesGrow
  <2> QED
    BY <1>2, <2>3
<1>3. CASE positions'[k].size > 0 => Behind(market'[k[2]], positions'[k], k[3])
  BY <1>3
<1> QED
  BY <1>2, <1>3

(* The side's open interest follows the one position that changes.         *)
LEMMA OpenInterestStep ==
  ASSUME market \in [GpuIds -> Market], OpenInterestIsSum,
         positions \in [PositionKeys -> Position], positions' \in [PositionKeys -> Position],
         NEW key \in PositionKeys,
         \A k \in PositionKeys \ {key} : positions'[k] = positions[k],
         NEW n, market' = [market EXCEPT ![key[2]] = n],
         n.openLong = market[key[2]].openLong
           + IF key[3] THEN positions'[key].size - positions[key].size ELSE 0,
         n.openShort = market[key[2]].openShort
           + IF key[3] THEN 0 ELSE positions'[key].size - positions[key].size
  PROVE  OpenInterestIsSum'
<1> SUFFICES ASSUME NEW g \in GpuIds
             PROVE  /\ market'[g].openLong = SumOf(sideSizes(g, TRUE)')
                    /\ market'[g].openShort = SumOf(sideSizes(g, FALSE)')
  BY DEF OpenInterestIsSum, SumOf, Region, Column
<1>1. key[2] \in GpuIds /\ key[3] \in BOOLEAN
  BY FiniteIndices
<1>2. /\ market[g].openLong = SumOf(sideSizes(g, TRUE)) /\ market[g].openLong \in Nat
      /\ market[g].openShort = SumOf(sideSizes(g, FALSE)) /\ market[g].openShort \in Nat
  BY DEF OpenInterestIsSum, Market
<1>3. positions[key].size \in Nat /\ positions'[key].size \in Nat
  BY DEF Position
<1>4. \A l \in BOOLEAN :
        SumOf(sideSizes(g, l)') =
          IF key[2] = g /\ key[3] = l
          THEN SumOf(sideSizes(g, l)) - positions[key].size + positions'[key].size
          ELSE SumOf(sideSizes(g, l))
  BY PositionChange
<1>5. CASE key[2] = g /\ key[3] = TRUE
  <2>1. /\ SumOf(sideSizes(g, TRUE)') = SumOf(sideSizes(g, TRUE)) - positions[key].size
                                           + positions'[key].size
        /\ SumOf(sideSizes(g, FALSE)') = SumOf(sideSizes(g, FALSE))
    BY <1>4, <1>5
  <2>2. market'[g] = n
    BY <1>5
  <2>3. /\ n.openLong = market[g].openLong + (positions'[key].size - positions[key].size)
        /\ n.openShort = market[g].openShort + 0
    BY <1>5
  <2> DEFINE A == SumOf(sideSizes(g, TRUE))
             B == SumOf(sideSizes(g, FALSE))
             x == positions[key].size
             y == positions'[key].size
  <2>4. A \in Nat /\ B \in Nat /\ x \in Nat /\ y \in Nat
    BY <1>2, <1>3
  <2>5. market'[g].openLong = A + (y - x) /\ market'[g].openShort = B + 0
    BY <1>2, <2>2, <2>3
  <2>6. SumOf(sideSizes(g, TRUE)') = A - x + y /\ SumOf(sideSizes(g, FALSE)') = B
    BY <2>1
  <2> HIDE DEF A, B, x, y
  <2>7. A + (y - x) = A - x + y /\ B + 0 = B
    BY <2>4
  <2> QED
    BY <2>5, <2>6, <2>7, Zenon
<1>6. CASE key[2] = g /\ key[3] = FALSE
  <2>1. /\ SumOf(sideSizes(g, FALSE)') = SumOf(sideSizes(g, FALSE)) - positions[key].size
                                           + positions'[key].size
        /\ SumOf(sideSizes(g, TRUE)') = SumOf(sideSizes(g, TRUE))
    BY <1>4, <1>6
  <2>2. market'[g] = n
    BY <1>6
  <2>3. /\ n.openShort = market[g].openShort + (positions'[key].size - positions[key].size)
        /\ n.openLong = market[g].openLong + 0
    BY <1>6
  <2> DEFINE A == SumOf(sideSizes(g, TRUE))
             B == SumOf(sideSizes(g, FALSE))
             x == positions[key].size
             y == positions'[key].size
  <2>4. A \in Nat /\ B \in Nat /\ x \in Nat /\ y \in Nat
    BY <1>2, <1>3
  <2>5. market'[g].openShort = B + (y - x) /\ market'[g].openLong = A + 0
    BY <1>2, <2>2, <2>3
  <2>6. SumOf(sideSizes(g, FALSE)') = B - x + y /\ SumOf(sideSizes(g, TRUE)') = A
    BY <2>1
  <2> HIDE DEF A, B, x, y
  <2>7. B + (y - x) = B - x + y /\ A + 0 = A
    BY <2>4
  <2> QED
    BY <2>5, <2>6, <2>7, Zenon
<1>7. CASE key[2] # g
  BY <1>1, <1>2, <1>4, <1>7
<1> QED
  BY <1>1, <1>5, <1>6, <1>7

-----------------------------------------------------------------------------
(* Initially nothing is owed or held.                                      *)
LEMMA CoreInit == Init => Core
<1> SUFFICES ASSUME Init PROVE Core
  OBVIOUS
<1> USE DEF Init
<1>1. TypeOK
  <2>1. NoMarket \in Market
    BY DEF NoMarket, Market, MarketParams
  <2>2. NoOrder \in Order
    BY PerpConstants DEF NoOrder, Order, OrderKinds
  <2>3. NoPosition \in Position
    BY DEF NoPosition, Position
  <2>4. MaxOrders \in Nat /\ InitialVault \in Nat /\ InitialWallets \in Nat
    BY PerpConstants
  <2>5. /\ gusd \in [engine: Nat, vault: Nat, ledger: Nat, wallets: Nat, stray: Nat]
        /\ totals \in [totalClaimable: Nat, reservedPnl: Nat, totalEarnedFunding: Nat]
    BY <2>4
  <2>6. /\ now \in Nat /\ paused \in BOOLEAN /\ minOrderDelay \in 0..MaxOrderDelay
        /\ orderNonce \in 0..MaxOrders /\ perpReserved \in Nat /\ withdrawCap \in Caps
        /\ withdrawn \in Nat
    <3>1. paused \in BOOLEAN
      BY Zenon
    <3>2. minOrderDelay \in 0..MaxOrderDelay /\ withdrawCap \in Caps
      BY Zenon
    <3>3. now \in Nat /\ perpReserved \in Nat /\ withdrawn \in Nat
      OBVIOUS
    <3>4. orderNonce \in 0..MaxOrders
      BY <2>4
    <3> QED
      BY <3>1, <3>2, <3>3, <3>4
  <2>7. market \in [GpuIds -> Market] /\ orders \in [OrderIds -> Order]
    BY <2>1, <2>2
  <2>8. positions \in [PositionKeys -> Position] /\ activeTrigger \in [TriggerKeys -> 0..MaxOrders]
    BY <2>3, <2>4
  <2>9. claimableOf \in [Accounts -> Nat] /\ epochPrice \in [GpuIds -> Prices \cup {0}]
    OBVIOUS
  <2> QED
    BY <2>5, <2>6, <2>7, <2>8, <2>9 DEF TypeOK
<1>2. /\ openCollateral \in [PositionKeys -> Nat] /\ reserveShares \in [PositionKeys -> Nat]
      /\ earnedShares \in [PositionKeys -> Nat] /\ pendingEscrow \in [OrderIds -> Nat]
      /\ claimableOf \in [Accounts -> Nat]
      /\ \A k \in PositionKeys : openCollateral[k] = 0 /\ reserveShares[k] = 0 /\ earnedShares[k] = 0
      /\ \A id \in OrderIds : pendingEscrow[id] = 0
      /\ \A a \in Accounts : claimableOf[a] = 0
  BY DEF openCollateral, reserveShares, earnedShares, pendingEscrow, NoPosition, NoOrder
<1>3. /\ SumOf(openCollateral) = 0 /\ SumOf(reserveShares) = 0 /\ SumOf(earnedShares) = 0
      /\ SumOf(pendingEscrow) = 0 /\ SumOf(claimableOf) = 0
  BY <1>2, SumZero
<1>4. AtRestBalance /\ TotalsAreSums /\ ReservationPushed
  BY <1>3 DEF AtRestBalance, TotalsAreSums, ReservationPushed, reservation
<1>5. OpenInterestIsSum
  <2>1. ASSUME NEW g \in GpuIds, NEW l \in BOOLEAN PROVE SumOf(sideSizes(g, l)) = 0
    <3>1. /\ sideSizes(g, l) \in [PositionKeys -> Nat]
          /\ \A k \in PositionKeys : sideSizes(g, l)[k] = 0
      BY DEF sideSizes, NoPosition
    <3> QED
      BY <3>1, SumZero
  <2> QED
    BY <2>1 DEF OpenInterestIsSum, NoMarket
<1>6. CheckpointsBehind
  BY DEF CheckpointsBehind, NoPosition
<1>7. WellFormed
  BY DEF WellFormed, NoPosition, NoOrder, OrderIds
<1> QED
  BY <1>1, <1>4, <1>5, <1>6, <1>7 DEF Core

(* A step that leaves orders, positions and totals alone keeps the         *)
(* accounting.                                                             *)
LEMMA QuietStep ==
  ASSUME Core, TypeOK', CumulativesGrow, gusd'.engine = gusd.engine,
         UNCHANGED <<orders, orderNonce, positions, claimableOf, totals, perpReserved>>,
         \A g \in GpuIds : /\ market'[g].openLong = market[g].openLong
                           /\ market'[g].openShort = market[g].openShort
  PROVE  Core'
<1>1. AtRestBalance' /\ TotalsAreSums' /\ ReservationPushed'
  BY DEF Core, AtRestBalance, TotalsAreSums, ReservationPushed, openCollateral, reserveShares,
         earnedShares, pendingEscrow, reservation
<1>2. OpenInterestIsSum'
  BY DEF Core, OpenInterestIsSum, sideSizes
<1>3. CheckpointsBehind'
  BY CheckpointStep DEF Core, TypeOK
<1>4. WellFormed'
  BY DEF Core, WellFormed
<1> QED
  BY <1>1, <1>2, <1>3, <1>4 DEF Core

(* A market that keeps its cumulatives.                                    *)
LEMMA SameMarkets ==
  ASSUME TypeOK, market' = market
  PROVE  /\ CumulativesGrow
         /\ \A g \in GpuIds : /\ market'[g].openLong = market[g].openLong
                              /\ market'[g].openShort = market[g].openShort
BY DEF TypeOK, CumulativesGrow, Market

(* The owner's switches keep the invariant.                                *)
LEMMA OwnerSettings ==
  ASSUME Core, \/ \E d \in Delays : setMinOrderDelay(d)
               \/ \E c \in Caps : setEngineMaxWithdrawPerBlock(c)
               \/ pause
               \/ unpause
  PROVE  Core'
<1>1. /\ market' = market /\ gusd' = gusd
      /\ UNCHANGED <<orders, orderNonce, positions, claimableOf, totals, perpReserved>>
  BY DEF setMinOrderDelay, setEngineMaxWithdrawPerBlock, pause, unpause, engineVars, vaultVars
<1>2. TypeOK'
  <2>1. CASE \E d \in Delays : setMinOrderDelay(d)
    <3>1. minOrderDelay' \in 0..MaxOrderDelay
      BY <2>1, PerpConstants DEF setMinOrderDelay
    <3> QED
      BY <2>1, <3>1 DEF Core, TypeOK, setMinOrderDelay, engineVars, vaultVars
  <2>2. CASE \E c \in Caps : setEngineMaxWithdrawPerBlock(c)
    BY <2>2 DEF Core, TypeOK, setEngineMaxWithdrawPerBlock, engineVars, adminVars
  <2>3. CASE pause
    BY <2>3 DEF Core, TypeOK, pause, engineVars, vaultVars
  <2>4. CASE unpause
    BY <2>4 DEF Core, TypeOK, unpause, engineVars, vaultVars
  <2> QED
    BY <2>1, <2>2, <2>3, <2>4
<1> QED
  BY <1>1, <1>2, QuietStep, SameMarkets DEF Core

(* Ordinary vault deposits and redemptions keep the invariant.             *)
LEMMA VaultUsers ==
  ASSUME Core, \E x \in LpAmounts : VaultDeposit(x) \/ VaultRedeem(x)
  PROVE  Core'
<1>1. PICK x \in LpAmounts : VaultDeposit(x) \/ VaultRedeem(x)
  OBVIOUS
<1>2. /\ market' = market /\ UNCHANGED <<now, engineVars, adminVars, epochPrice, vaultVars>>
      /\ UNCHANGED <<orders, orderNonce, positions, claimableOf, totals, perpReserved>>
  BY <1>1 DEF VaultDeposit, VaultRedeem, engineVars, vaultVars
<1>3. /\ gusd' \in [engine: Nat, vault: Nat, ledger: Nat, wallets: Nat, stray: Nat]
      /\ gusd'.engine = gusd.engine
  <2>1. /\ x \in Nat /\ gusd \in [engine: Nat, vault: Nat, ledger: Nat, wallets: Nat, stray: Nat]
        /\ perpReserved \in Nat
    BY PerpConstants DEF Core, TypeOK
  <2>2. CASE VaultDeposit(x)
    <3>1. gusd.wallets - x \in Nat /\ gusd.vault + x \in Nat
      BY <2>1, <2>2 DEF VaultDeposit
    <3>2. gusd' = [gusd EXCEPT !.wallets = gusd.wallets - x, !.vault = gusd.vault + x]
      BY <2>2 DEF VaultDeposit
    <3> QED
      BY <2>1, <3>1, <3>2
  <2>3. CASE VaultRedeem(x)
    <3>1. x <= gusd.vault
      BY <2>1, <2>3 DEF VaultRedeem, availableForRedemption, PosPart
    <3>2. gusd.vault - x \in Nat /\ gusd.wallets + x \in Nat
      BY <2>1, <3>1
    <3>3. gusd' = [gusd EXCEPT !.vault = gusd.vault - x, !.wallets = gusd.wallets + x]
      BY <2>3 DEF VaultRedeem
    <3> QED
      BY <2>1, <3>2, <3>3
  <2> QED
    BY <1>1, <2>2, <2>3
<1>4. TypeOK'
  BY <1>2, <1>3 DEF Core, TypeOK, engineVars, adminVars, vaultVars
<1> QED
  BY <1>2, <1>3, <1>4, QuietStep, SameMarkets DEF Core

(* A new block keeps the invariant.                                        *)
LEMMA BlockStep ==
  ASSUME Core, NEW dt \in BlockTimes, NextBlock(dt)
  PROVE  Core'
<1>1. /\ market' = market /\ gusd' = gusd
      /\ UNCHANGED <<orders, orderNonce, positions, claimableOf, totals, perpReserved>>
  BY DEF NextBlock, engineVars
<1>2. TypeOK'
  <2>1. now' \in Nat /\ withdrawn' \in Nat
    BY PerpConstants DEF Core, TypeOK, NextBlock
  <2>2. epochPrice' \in [GpuIds -> Prices \cup {0}]
    BY DEF Core, TypeOK, NextBlock
  <2> QED
    BY <2>1, <2>2 DEF Core, TypeOK, NextBlock, engineVars, adminVars
<1> QED
  BY <1>1, <1>2, QuietStep, SameMarkets DEF Core

(* Creating a market, changing its parameters or its switch keeps the      *)
(* invariant.                                                              *)
LEMMA OwnerMarkets ==
  ASSUME Core, NEW g \in GpuIds,
         \/ \E p \in ParamChoices : createMarket(g, p) \/ setMarketParams(g, p)
         \/ \E b \in BOOLEAN : setMarketEnabled(g, b)
  PROVE  Core'
<1> DEFINE Shape(n) == /\ n \in Market
                       /\ n.openLong = market[g].openLong /\ n.openShort = market[g].openShort
                       /\ n.chargeLong >= market[g].chargeLong
                       /\ n.chargeShort >= market[g].chargeShort
                       /\ n.creditLong >= market[g].creditLong
                       /\ n.creditShort >= market[g].creditShort
                       /\ n.borrow >= market[g].borrow
<1>1. market \in [GpuIds -> Market] /\ market[g] \in Market /\ now \in Nat
  BY DEF Core, TypeOK
<1>2. \E n : Shape(n) /\ market' = [market EXCEPT ![g] = n]
  <2>1. CASE \E p \in ParamChoices : createMarket(g, p)
    <3>1. PICK p \in ParamChoices : createMarket(g, p)
      BY <2>1
    <3> DEFINE n == [market[g] EXCEPT !.exists = TRUE, !.enabled = TRUE,
                                      !.params = p, !.updatedAt = now]
    <3>2. p \in MarketParams
      BY ParamChoicesTyped
    <3>3. Shape(n)
      <4> DEFINE made(x, y) == [market[g] EXCEPT !.exists = x, !.enabled = y,
                                                !.params = p, !.updatedAt = now]
      <4>1. \A x, y \in BOOLEAN : Shape(made(x, y))
        <5> SUFFICES ASSUME NEW x \in BOOLEAN, NEW y \in BOOLEAN PROVE Shape(made(x, y))
          OBVIOUS
        <5> DEFINE h == [market[g] EXCEPT !.exists = x, !.enabled = y]
        <5>1. Shape(h)
          <6> DEFINE e == [market[g] EXCEPT !.exists = x]
          <6>1. Shape(e)
            BY <1>1 DEF Market
          <6>2. h = [e EXCEPT !.enabled = y]
            BY <1>1 DEF Market
          <6> HIDE DEF e, h
          <6> QED
            BY <6>1, <6>2 DEF Market
        <5>2. made(x, y) = [h EXCEPT !.params = p, !.updatedAt = now]
          BY <1>1 DEF Market
        <5> HIDE DEF h, made
        <5> QED
          BY <1>1, <3>2, <5>1, <5>2 DEF Market
      <4>2. n = made(TRUE, TRUE)
        OBVIOUS
      <4> HIDE DEF made, Shape, n
      <4> QED
        BY <4>1, <4>2, Zenon
    <3>4. market' = [market EXCEPT ![g] = n]
      BY <1>1, <3>1 DEF createMarket
    <3> QED
      BY <3>3, <3>4
  <2>2. CASE \E p \in ParamChoices : setMarketParams(g, p)
    <3>1. PICK p \in ParamChoices : setMarketParams(g, p)
      BY <2>2
    <3> DEFINE a == accrue(market[g], now)
               n == [a EXCEPT !.params = p]
    <3>2. p \in MarketParams
      BY ParamChoicesTyped
    <3>3. Shape(a)
      BY <1>1, AccrueFacts
    <3> HIDE DEF a
    <3>4. Shape(n)
      BY <3>2, <3>3 DEF Market
    <3>5. market' = [market EXCEPT ![g] = n]
      BY <1>1, <3>1 DEF setMarketParams, a
    <3> QED
      BY <3>4, <3>5
  <2>3. CASE \E b \in BOOLEAN : setMarketEnabled(g, b)
    <3>1. PICK b \in BOOLEAN : setMarketEnabled(g, b)
      BY <2>3
    <3> DEFINE n == [market[g] EXCEPT !.enabled = b]
    <3>2. Shape(n)
      BY <1>1 DEF Market
    <3>3. market' = [market EXCEPT ![g] = n]
      BY <1>1, <3>1 DEF setMarketEnabled
    <3> QED
      BY <3>2, <3>3
  <2> QED
    BY <2>1, <2>2, <2>3
<1>3. PICK n : Shape(n) /\ market' = [market EXCEPT ![g] = n]
  BY <1>2
<1>4. /\ UNCHANGED <<now, orders, orderNonce, positions, activeTrigger, claimableOf, totals,
                     adminVars, epochPrice, vaultVars, gusd>>
  BY DEF createMarket, setMarketParams, setMarketEnabled
<1>5. TypeOK'
  BY <1>1, <1>3, <1>4 DEF Core, TypeOK, adminVars, vaultVars
<1>6. /\ CumulativesGrow
      /\ \A h \in GpuIds : /\ market'[h].openLong = market[h].openLong
                           /\ market'[h].openShort = market[h].openShort
  BY <1>1, <1>3 DEF CumulativesGrow, Market
<1> QED
  BY <1>4, <1>5, <1>6, QuietStep DEF vaultVars

-----------------------------------------------------------------------------
(* A step that changes orders only keeps the accounting when the engine's  *)
(* balance moves with the pending escrow.                                  *)
LEMMA OrderStep ==
  ASSUME Core, TypeOK', CumulativesGrow, WellFormed',
         gusd'.engine = gusd.engine - SumOf(pendingEscrow) + SumOf(pendingEscrow)',
         UNCHANGED <<positions, claimableOf, totals, perpReserved>>,
         \A g \in GpuIds : /\ market'[g].openLong = market[g].openLong
                           /\ market'[g].openShort = market[g].openShort
  PROVE  Core'
<1>1. AtRestBalance'
  <2>1. /\ openCollateral \in [PositionKeys -> Nat] /\ pendingEscrow \in [OrderIds -> Nat]
        /\ pendingEscrow' \in [OrderIds -> Nat]
    BY EscrowNat DEF Core, TypeOK, openCollateral, pendingEscrow, Position
  <2>2. /\ SumOf(openCollateral) \in Nat /\ SumOf(pendingEscrow) \in Nat
        /\ SumOf(pendingEscrow') \in Nat
    BY <2>1, SumNat, FiniteIndices
  <2>3. SumOf(openCollateral)' = SumOf(openCollateral)
    BY DEF openCollateral
  <2>4. SumOf(pendingEscrow)' = SumOf(pendingEscrow')
    BY DEF SumOf, Region, Column
  <2> QED
    BY <2>2, <2>3, <2>4 DEF Core, AtRestBalance
<1>2. TotalsAreSums' /\ ReservationPushed'
  BY DEF Core, TotalsAreSums, ReservationPushed, reserveShares, earnedShares, reservation
<1>3. OpenInterestIsSum'
  BY DEF Core, OpenInterestIsSum, sideSizes
<1>4. CheckpointsBehind'
  BY CheckpointStep DEF Core, TypeOK
<1> QED
  BY <1>1, <1>2, <1>3, <1>4 DEF Core

(* One order's escrow changes.                                             *)
LEMMA EscrowSum ==
  ASSUME NEW f \in [OrderIds -> Nat], NEW h \in [OrderIds -> Nat], NEW id \in OrderIds,
         \A j \in OrderIds \ {id} : h[j] = f[j]
  PROVE  SumOf(h) = SumOf(f) - f[id] + h[id]
BY SumChange, FiniteIndices

(* A new order, with whatever its creation replaced.  `kept' is the order  *)
(* table without the new order, and `refund' the escrow that left it.      *)
LEMMA CreateStep ==
  ASSUME Core, NEW o \in Order, o.status = "Pending", NEW refund \in Nat, Enter(o, refund),
         NEW kept \in [OrderIds -> Order],
         \A j \in OrderIds : kept[j].status = "None" <=> orders[j].status = "None",
         orders' = [kept EXCEPT ![orderNonce + 1] = o],
         NEW mid \in [OrderIds -> Nat],
         \A j \in OrderIds :
           mid[j] = IF kept[j].status = "Pending" THEN escrow(kept[j]) ELSE 0,
         refund <= SumOf(pendingEscrow), SumOf(mid) = SumOf(pendingEscrow) - refund,
         activeTrigger' \in [TriggerKeys -> 0..MaxOrders]
  PROVE  Core'
<1> DEFINE id == orderNonce + 1
<1>1. /\ id \in OrderIds /\ orderNonce \in Nat /\ orderNonce' = id /\ orderNonce' \in 0..MaxOrders
  <2>1. orderNonce \in 0..MaxOrders /\ MaxOrders \in Nat
    BY PerpConstants DEF Core, TypeOK
  <2>2. orderNonce < MaxOrders /\ orderNonce' = orderNonce + 1
    BY DEF Enter
  <2> QED
    BY <2>1, <2>2 DEF OrderIds
<1>2. orders' \in [OrderIds -> Order] /\ orders'[id] = o /\ \A j \in OrderIds \ {id} : orders'[j] = kept[j]
  BY <1>1
<1>3. orders[id].status = "None" /\ kept[id].status = "None"
  BY <1>1 DEF Core, WellFormed
<1>4. escrow(o) \in Nat /\ mid[id] = 0
  BY <1>1, <1>3, EscrowNat
<1>5. /\ pendingEscrow \in [OrderIds -> Nat] /\ pendingEscrow' \in [OrderIds -> Nat]
      /\ pendingEscrow'[id] = escrow(o)
      /\ \A j \in OrderIds \ {id} : pendingEscrow'[j] = mid[j]
  <2>1. /\ pendingEscrow \in [OrderIds -> Nat]
    BY EscrowFunction DEF Core, TypeOK
  <2>2. pendingEscrow' = [j \in OrderIds |->
                            IF orders'[j].status = "Pending" THEN escrow(orders'[j]) ELSE 0]
    BY DEF pendingEscrow, escrow
  <2>3. \A j \in OrderIds : escrow(orders'[j]) \in Nat
    BY <1>2, EscrowNat
  <2>4. pendingEscrow' \in [OrderIds -> Nat]
    BY <2>2, <2>3
  <2>5. pendingEscrow'[id] = escrow(o)
    BY <1>1, <1>2, <2>2
  <2>6. ASSUME NEW j \in OrderIds \ {id} PROVE pendingEscrow'[j] = mid[j]
    BY <1>2, <2>2
  <2> QED
    BY <2>1, <2>4, <2>5, <2>6
<1>6. SumOf(pendingEscrow') = SumOf(mid) - mid[id] + pendingEscrow'[id]
  <2> DEFINE after == pendingEscrow'
  <2>1. /\ id \in OrderIds /\ IsFiniteSet(OrderIds) /\ after \in [OrderIds -> Nat]
        /\ \A j \in OrderIds \ {id} : after[j] = mid[j]
    BY <1>1, <1>5, FiniteIndices
  <2> HIDE DEF after, id
  <2>2. SumOf(after) = SumOf(mid) - mid[id] + after[id]
    BY <2>1, EscrowSum
  <2> QED
    BY <2>2 DEF after
<1>7. SumOf(pendingEscrow) \in Nat /\ SumOf(mid) \in Nat
  BY <1>5, SumNat, FiniteIndices
<1>8. SumOf(pendingEscrow)' = SumOf(pendingEscrow')
  BY DEF SumOf, Region, Column
<1>9. SumOf(pendingEscrow)' = SumOf(pendingEscrow) - refund + escrow(o)
  BY <1>4, <1>5, <1>6, <1>7, <1>8
<1>10. /\ gusd.engine \in Nat /\ gusd.wallets \in Nat
       /\ gusd \in [engine: Nat, vault: Nat, ledger: Nat, wallets: Nat, stray: Nat]
       /\ refund <= gusd.engine
  <2>1. openCollateral \in [PositionKeys -> Nat]
    BY DEF Core, TypeOK, openCollateral, Position
  <2>2. SumOf(openCollateral) \in Nat
    BY <2>1, SumNat, FiniteIndices
  <2>3. gusd.engine = SumOf(openCollateral) + SumOf(pendingEscrow)
    BY DEF Core, AtRestBalance
  <2>4. gusd \in [engine: Nat, vault: Nat, ledger: Nat, wallets: Nat, stray: Nat]
    BY DEF Core, TypeOK
  <2> QED
    BY <1>7, <2>2, <2>3, <2>4
<1>11. /\ gusd.wallets - escrow(o) + refund \in Nat
       /\ gusd.engine + escrow(o) - refund \in Nat
  BY <1>4, <1>10 DEF Enter
<1>12. /\ gusd' \in [engine: Nat, vault: Nat, ledger: Nat, wallets: Nat, stray: Nat]
       /\ gusd'.engine = gusd.engine + escrow(o) - refund
  <2>1. gusd' = [gusd EXCEPT !.wallets = gusd.wallets - escrow(o) + refund,
                             !.engine = gusd.engine + escrow(o) - refund]
    BY DEF Enter
  <2> HIDE DEF Enter
  <2> QED
    BY <1>10, <1>11, <2>1
<1>13. /\ market' = market
       /\ UNCHANGED <<now, positions, claimableOf, totals, adminVars, epochPrice, vaultVars>>
  BY DEF Enter
<1>14. TypeOK'
  BY <1>1, <1>2, <1>12, <1>13 DEF Core, TypeOK, adminVars, vaultVars
<1>15. WellFormed'
  <2>1. \A j \in OrderIds : j <= orderNonce' <=> orders'[j].status # "None"
    <3> SUFFICES ASSUME NEW j \in OrderIds PROVE j <= orderNonce' <=> orders'[j].status # "None"
      OBVIOUS
    <3>1. j \in Nat /\ (j <= orderNonce <=> orders[j].status # "None")
      BY PerpConstants DEF Core, WellFormed, OrderIds
    <3>2. CASE j = id
      BY <1>1, <1>2, <3>2
    <3>3. CASE j # id
      BY <1>1, <1>2, <3>1, <3>3
    <3> QED
      BY <3>2, <3>3
  <2> QED
    BY <1>13, <2>1 DEF Core, WellFormed
<1>16. gusd'.engine = gusd.engine - SumOf(pendingEscrow) + SumOf(pendingEscrow)'
  BY <1>4, <1>7, <1>9, <1>10, <1>12
<1> QED
  BY <1>13, <1>14, <1>15, <1>16, OrderStep, SameMarkets DEF Core, vaultVars

(* createOrder for market orders keeps the invariant.                      *)
LEMMA MarketOrders ==
  ASSUME Core, NEW a \in Accounts, NEW g \in GpuIds, NEW l \in BOOLEAN, NEW s \in Sizes,
         NEW p \in LimitPrices, NEW f \in ExecFees,
         \/ \E c \in Collaterals : createIncrease(a, g, l, s, c, p, f)
         \/ createDecrease(a, g, l, s, p, f)
  PROVE  Core'
<1>1. \E o \in Order : /\ o.status = "Pending" /\ Enter(o, 0)
                       /\ orders' = [orders EXCEPT ![orderNonce + 1] = o]
                       /\ activeTrigger' = activeTrigger
  <2>1. s \in Nat /\ p \in Nat /\ f \in Nat /\ now \in Nat
    BY PerpConstants DEF Core, TypeOK
  <2>2. CASE \E c \in Collaterals : createIncrease(a, g, l, s, c, p, f)
    <3>1. PICK c \in Collaterals : createIncrease(a, g, l, s, c, p, f)
      BY <2>2
    <3> DEFINE o == NewOrder(a, g, l, "MarketIncrease", s, c, p, 0, f)
    <3>2. c \in Nat /\ "MarketIncrease" \in OrderKinds
      BY PerpConstants DEF OrderKinds
    <3>3. o \in Order /\ o.status = "Pending"
      BY <2>1, <3>2 DEF NewOrder, Order
    <3>4. /\ Enter(o, 0) /\ orders' = [orders EXCEPT ![orderNonce + 1] = o]
          /\ activeTrigger' = activeTrigger
      BY <3>1 DEF createIncrease
    <3> HIDE DEF o
    <3> QED
      BY <3>3, <3>4
  <2>3. CASE createDecrease(a, g, l, s, p, f)
    <3> DEFINE o == NewOrder(a, g, l, "MarketDecrease", s, 0, p, 0, f)
    <3>1. "MarketDecrease" \in OrderKinds
      BY DEF OrderKinds
    <3>2. o \in Order /\ o.status = "Pending"
      BY <2>1, <3>1 DEF NewOrder, Order
    <3>3. /\ Enter(o, 0) /\ orders' = [orders EXCEPT ![orderNonce + 1] = o]
          /\ activeTrigger' = activeTrigger
      BY <2>3 DEF createDecrease
    <3> HIDE DEF o
    <3> QED
      BY <3>2, <3>3
  <2> QED
    BY <2>2, <2>3
<1>2. PICK o \in Order : /\ o.status = "Pending" /\ Enter(o, 0)
                         /\ orders' = [orders EXCEPT ![orderNonce + 1] = o]
                         /\ activeTrigger' = activeTrigger
  BY <1>1
<1>3. /\ orders \in [OrderIds -> Order] /\ pendingEscrow \in [OrderIds -> Nat]
      /\ activeTrigger' \in [TriggerKeys -> 0..MaxOrders]
  BY <1>2, EscrowFunction DEF Core, TypeOK
<1>4. \A j \in OrderIds :
        pendingEscrow[j] = IF orders[j].status = "Pending" THEN escrow(orders[j]) ELSE 0
  BY DEF pendingEscrow
<1>5. SumOf(pendingEscrow) \in Nat
  BY <1>3, SumNat, FiniteIndices
<1>6. 0 <= SumOf(pendingEscrow) /\ SumOf(pendingEscrow) = SumOf(pendingEscrow) - 0
  BY <1>5
<1> QED
  BY <1>2, <1>3, <1>4, <1>6, CreateStep

(* createOrder for a stop loss or take profit, with the cancellation of    *)
(* the one it replaces, keeps the invariant.                               *)
LEMMA TriggerOrders ==
  ASSUME Core, NEW a \in Accounts, NEW g \in GpuIds, NEW l \in BOOLEAN, NEW s \in Sizes,
         NEW p \in LimitPrices, NEW f \in ExecFees, NEW k \in TriggerKinds,
         createTrigger(a, g, l, k, s, p, f)
  PROVE  Core'
<1> DEFINE o == NewOrder(a, g, l, k, s, 0, 0, p, f)
           old == activeTrigger[TriggerKeyOf(o)]
           kept == IF old # 0 THEN cancelled(orders, old) ELSE orders
           refund == IF old # 0 THEN escrow(orders[old]) ELSE 0
           mid == [j \in OrderIds |-> IF kept[j].status = "Pending" THEN escrow(kept[j]) ELSE 0]
<1>1. o \in Order /\ o.status = "Pending" /\ TriggerKeyOf(o) \in TriggerKeys
  <2>1. s \in Nat /\ p \in Nat /\ f \in Nat /\ now \in Nat /\ k \in OrderKinds
    BY PerpConstants DEF OrderKinds, Core, TypeOK
  <2>2. o \in Order /\ o.status = "Pending" /\ o.kind = k /\ KeyOf(o) \in PositionKeys
    BY <2>1 DEF NewOrder, Order, KeyOf, PositionKeys
  <2> HIDE DEF o
  <2> QED
    BY <2>2 DEF TriggerKeys, TriggerKeyOf
<1>2. /\ Enter(o, refund)
      /\ old # 0 => orders[old].status = "Pending"
      /\ orders' = [kept EXCEPT ![orderNonce + 1] = o]
      /\ activeTrigger' = [activeTrigger EXCEPT ![TriggerKeyOf(o)] = orderNonce + 1]
  BY DEF createTrigger
<1>3. /\ orders \in [OrderIds -> Order] /\ old \in 0..MaxOrders
      /\ orderNonce \in 0..MaxOrders /\ orderNonce < MaxOrders /\ MaxOrders \in Nat
  BY <1>1, <1>2, PerpConstants DEF Core, TypeOK, Enter
<1>4. activeTrigger' \in [TriggerKeys -> 0..MaxOrders]
  <2>1. orderNonce + 1 \in 0..MaxOrders
    BY <1>3
  <2>2. activeTrigger \in [TriggerKeys -> 0..MaxOrders]
    BY DEF Core, TypeOK
  <2> QED
    BY <1>2, <2>1, <2>2
<1> HIDE DEF o, old
<1>5. pendingEscrow \in [OrderIds -> Nat] /\ SumOf(pendingEscrow) \in Nat
  <2>1. pendingEscrow \in [OrderIds -> Nat]
    BY <1>3, EscrowFunction
  <2> QED
    BY <2>1, SumNat, FiniteIndices
<1>6. CASE old = 0
  <2>1. kept = orders /\ refund = 0
    BY <1>6
  <2>2. \A j \in OrderIds :
          pendingEscrow[j] = IF kept[j].status = "Pending" THEN escrow(kept[j]) ELSE 0
    BY <2>1 DEF pendingEscrow
  <2>3. 0 <= SumOf(pendingEscrow) /\ SumOf(pendingEscrow) = SumOf(pendingEscrow) - 0
    BY <1>5
  <2>4. kept \in [OrderIds -> Order]
        /\ \A j \in OrderIds : kept[j].status = "None" <=> orders[j].status = "None"
    BY <1>3, <2>1
  <2> HIDE DEF kept, refund
  <2>5. Enter(o, 0)
    BY <1>2, <2>1
  <2> QED
    BY <1>1, <1>2, <1>4, <1>5, <2>2, <2>3, <2>4, <2>5, CreateStep
<1>7. CASE old # 0
  <2>1. /\ kept = cancelled(orders, old) /\ refund = escrow(orders[old])
        /\ old \in OrderIds /\ orders[old].status = "Pending" /\ orders[old] \in Order
    BY <1>2, <1>3, <1>7 DEF OrderIds
  <2>2. /\ kept \in [OrderIds -> Order] /\ kept[old].status = "Cancelled"
        /\ \A j \in OrderIds \ {old} : kept[j] = orders[j]
    BY <1>3, <2>1 DEF cancelled, Order
  <2>3. \A j \in OrderIds : kept[j].status = "None" <=> orders[j].status = "None"
    BY <2>1, <2>2
  <2> HIDE DEF kept, refund
  <2>4. \A j \in OrderIds : escrow(kept[j]) \in Nat
    BY <2>2, EscrowNat
  <2>5. /\ mid \in [OrderIds -> Nat] /\ mid[old] = 0
        /\ \A j \in OrderIds \ {old} : mid[j] = pendingEscrow[j]
    BY <2>1, <2>2, <2>4 DEF pendingEscrow
  <2>6. \A j \in OrderIds : mid[j] = IF kept[j].status = "Pending" THEN escrow(kept[j]) ELSE 0
    OBVIOUS
  <2> HIDE DEF mid
  <2>7. pendingEscrow[old] = refund /\ refund \in Nat
    BY <2>1, EscrowNat DEF pendingEscrow
  <2>8. SumOf(mid) = SumOf(pendingEscrow) - pendingEscrow[old] + mid[old]
    BY <1>5, <2>1, <2>5, EscrowSum
  <2>9. pendingEscrow[old] <= SumOf(pendingEscrow)
    BY <1>5, <2>1, SumBoundsPart, FiniteIndices
  <2>10. refund <= SumOf(pendingEscrow) /\ SumOf(mid) = SumOf(pendingEscrow) - refund
    BY <1>5, <2>5, <2>7, <2>8, <2>9
  <2> QED
    BY <1>1, <1>2, <1>4, <2>2, <2>3, <2>5, <2>6, <2>7, <2>10, CreateStep
<1> QED
  BY <1>6, <1>7

(* A pending order that leaves the book takes its own escrow with it: the  *)
(* order's key is a position's, and the escrow is covered by the balance.  *)
LEMMA SpentOrder ==
  ASSUME Core, NEW id \in OrderIds, orders[id].status = "Pending",
         NEW status \in {"Executed", "Cancelled"},
         orders' = [orders EXCEPT ![id].status = status]
  PROVE  /\ orders[id] \in Order /\ orders' \in [OrderIds -> Order]
         /\ KeyOf(orders[id]) \in PositionKeys
         /\ escrow(orders[id]) \in Nat
         /\ SumOf(pendingEscrow)' = SumOf(pendingEscrow) - escrow(orders[id])
         /\ SumOf(pendingEscrow) \in Nat /\ SumOf(openCollateral) \in Nat
         /\ escrow(orders[id]) <= SumOf(pendingEscrow)
         /\ gusd.engine = SumOf(openCollateral) + SumOf(pendingEscrow)
         /\ \A j \in OrderIds : j <= orderNonce <=> orders'[j].status # "None"
<1>1. orders \in [OrderIds -> Order] /\ orders[id] \in Order
  BY DEF Core, TypeOK
<1>2. /\ orders' \in [OrderIds -> Order] /\ orders'[id].status = status
      /\ \A j \in OrderIds \ {id} : orders'[j] = orders[j]
  BY <1>1 DEF Order
<1>3. escrow(orders[id]) \in Nat /\ pendingEscrow[id] = escrow(orders[id])
  BY <1>1, EscrowNat DEF pendingEscrow
<1>4. pendingEscrow'[id] = 0
  BY <1>2 DEF pendingEscrow
<1>5. /\ SumOf(pendingEscrow)' = SumOf(pendingEscrow) - pendingEscrow[id] + pendingEscrow'[id]
      /\ SumOf(pendingEscrow) \in Nat /\ pendingEscrow[id] <= SumOf(pendingEscrow)
  BY <1>1, <1>2, EscrowChange
<1>6. SumOf(pendingEscrow)' = SumOf(pendingEscrow) - escrow(orders[id])
  BY <1>3, <1>4, <1>5
<1>7. KeyOf(orders[id]) \in PositionKeys
  BY <1>1 DEF KeyOf, PositionKeys, Order
<1>8. SumOf(openCollateral) \in Nat
  <2>1. openCollateral \in [PositionKeys -> Nat]
    BY DEF Core, TypeOK, openCollateral, Position
  <2> QED
    BY <2>1, SumNat, FiniteIndices
<1>9. gusd.engine = SumOf(openCollateral) + SumOf(pendingEscrow)
  BY DEF Core, AtRestBalance
<1>10. \A j \in OrderIds : j <= orderNonce <=> orders'[j].status # "None"
  BY <1>2 DEF Core, WellFormed
<1> QED
  BY <1>1, <1>2, <1>3, <1>5, <1>6, <1>7, <1>8, <1>9, <1>10

(* Clearing an entry keeps the trigger index's shape.                      *)
LEMMA WithoutTriggerTyped ==
  ASSUME Core, NEW o \in Order
  PROVE  withoutTrigger(o) \in [TriggerKeys -> 0..MaxOrders]
<1>1. activeTrigger \in [TriggerKeys -> 0..MaxOrders] /\ 0 \in 0..MaxOrders
  BY PerpConstants DEF Core, TypeOK
<1> QED
  BY <1>1 DEF withoutTrigger

(* A report that is consumed binds a price of the oracle's.                *)
LEMMA ConsumeTyped ==
  ASSUME Core, NEW g \in GpuIds, NEW price \in Prices, Consume(g, price)
  PROVE  /\ epochPrice' \in [GpuIds -> Prices \cup {0}]
         /\ price \in Nat /\ price > 0
<1>1. epochPrice \in [GpuIds -> Prices \cup {0}]
  BY DEF Core, TypeOK
<1>2. price \in Nat /\ price > 0
  BY PerpConstants
<1> QED
  BY <1>1, <1>2 DEF Consume

(* An accrued market keeps its open interest and moves its cumulatives     *)
(* forward only.                                                           *)
LEMMA AccruedMarkets ==
  ASSUME Core, NEW g \in GpuIds, market' = [market EXCEPT ![g] = accrue(market[g], now)]
  PROVE  /\ market' \in [GpuIds -> Market] /\ CumulativesGrow
         /\ \A h \in GpuIds : /\ market'[h].openLong = market[h].openLong
                              /\ market'[h].openShort = market[h].openShort
<1>1. market \in [GpuIds -> Market] /\ market[g] \in Market /\ now \in Nat
  BY DEF Core, TypeOK
<1> DEFINE n == accrue(market[g], now)
<1>2. /\ n \in Market
      /\ n.openLong = market[g].openLong /\ n.openShort = market[g].openShort
      /\ n.chargeLong >= market[g].chargeLong /\ n.chargeShort >= market[g].chargeShort
      /\ n.creditLong >= market[g].creditLong /\ n.creditShort >= market[g].creditShort
      /\ n.borrow >= market[g].borrow
  BY <1>1, AccrueFacts
<1>3. market' = [market EXCEPT ![g] = n]
  OBVIOUS
<1> HIDE DEF n
<1> QED
  BY <1>1, <1>2, <1>3 DEF CumulativesGrow, Market

(* Cancellation, by the trader or because the position has gone, keeps     *)
(* the invariant.                                                          *)
LEMMA Cancellation ==
  ASSUME Core, NEW id \in OrderIds,
         \/ cancelOrder(id)
         \/ \E p \in Prices : executeDecreaseGone(id, p)
  PROVE  Core'
<1> DEFINE o == orders[id]
<1>1. /\ o.status = "Pending" /\ orders' = [orders EXCEPT ![id].status = "Cancelled"]
      /\ activeTrigger' = withoutTrigger(o)
      /\ gusd' = [gusd EXCEPT !.engine = gusd.engine - escrow(o),
                              !.wallets = gusd.wallets + escrow(o)]
      /\ UNCHANGED <<now, orderNonce, positions, claimableOf, totals, adminVars, vaultVars>>
  BY DEF cancelOrder, executeDecreaseGone, Executable, cancelled
<1>2. /\ o \in Order /\ orders' \in [OrderIds -> Order]
      /\ escrow(o) \in Nat
      /\ SumOf(pendingEscrow)' = SumOf(pendingEscrow) - escrow(o)
      /\ SumOf(pendingEscrow) \in Nat /\ SumOf(openCollateral) \in Nat
      /\ escrow(o) <= SumOf(pendingEscrow)
      /\ gusd.engine = SumOf(openCollateral) + SumOf(pendingEscrow)
      /\ \A j \in OrderIds : j <= orderNonce <=> orders'[j].status # "None"
  <2>1. "Cancelled" \in {"Executed", "Cancelled"}
    OBVIOUS
  <2> QED
    BY <1>1, <2>1, SpentOrder
<1>3. /\ market' \in [GpuIds -> Market] /\ CumulativesGrow
      /\ \A g \in GpuIds : /\ market'[g].openLong = market[g].openLong
                           /\ market'[g].openShort = market[g].openShort
      /\ epochPrice' \in [GpuIds -> Prices \cup {0}]
  <2>1. CASE cancelOrder(id)
    <3>1. market' = market /\ epochPrice' = epochPrice
      BY <2>1 DEF cancelOrder
    <3> QED
      BY <3>1, SameMarkets DEF Core, TypeOK
  <2>2. CASE \E p \in Prices : executeDecreaseGone(id, p)
    <3>1. PICK p \in Prices : executeDecreaseGone(id, p)
      BY <2>2
    <3>2. /\ o.market \in GpuIds /\ Consume(o.market, p)
          /\ market' = [market EXCEPT ![o.market] = accrue(market[o.market], now)]
      BY <1>2, <3>1 DEF executeDecreaseGone, Order
    <3> HIDE DEF o
    <3> QED
      BY <3>2, ConsumeTyped, AccruedMarkets
  <2> QED
    BY <2>1, <2>2
<1>4. activeTrigger' \in [TriggerKeys -> 0..MaxOrders]
  BY <1>1, <1>2, WithoutTriggerTyped
<1> HIDE DEF o
<1>5. /\ gusd' \in [engine: Nat, vault: Nat, ledger: Nat, wallets: Nat, stray: Nat]
      /\ gusd'.engine = gusd.engine - escrow(o)
  <2>1. gusd \in [engine: Nat, vault: Nat, ledger: Nat, wallets: Nat, stray: Nat]
    BY DEF Core, TypeOK
  <2>2. gusd.engine - escrow(o) \in Nat /\ gusd.wallets + escrow(o) \in Nat
    BY <1>2, <2>1
  <2> QED
    BY <1>1, <2>1, <2>2
<1>6. TypeOK'
  BY <1>1, <1>2, <1>3, <1>4, <1>5 DEF Core, TypeOK, adminVars, vaultVars
<1>7. WellFormed'
  BY <1>1, <1>2 DEF Core, WellFormed
<1>8. gusd'.engine = gusd.engine - SumOf(pendingEscrow) + SumOf(pendingEscrow)'
  BY <1>2, <1>5
<1> QED
  BY <1>1, <1>3, <1>6, <1>7, <1>8, OrderStep DEF vaultVars

-----------------------------------------------------------------------------
(* One account's claimable amount changes: so does the sum.                *)
LEMMA ClaimableChange ==
  ASSUME Core, NEW a \in Accounts, NEW y \in Nat, claimableOf' = [claimableOf EXCEPT ![a] = y]
  PROVE  /\ claimableOf' \in [Accounts -> Nat]
         /\ SumOf(claimableOf') = SumOf(claimableOf) - claimableOf[a] + y
         /\ SumOf(claimableOf) \in Nat /\ claimableOf[a] \in Nat
         /\ claimableOf[a] <= SumOf(claimableOf)
         /\ totals.totalClaimable = SumOf(claimableOf)
<1>1. claimableOf \in [Accounts -> Nat] /\ IsFiniteSet(Accounts)
  BY PerpConstants DEF Core, TypeOK
<1> DEFINE f == claimableOf
           h == [claimableOf EXCEPT ![a] = y]
<1>2. h \in [Accounts -> Nat] /\ h[a] = y /\ \A b \in Accounts \ {a} : h[b] = f[b]
  BY <1>1
<1> HIDE DEF h
<1>3. SumOf(h) = SumOf(f) - f[a] + h[a]
  BY <1>1, <1>2, SumChange
<1>4. SumOf(f) \in Nat /\ f[a] <= SumOf(f)
  BY <1>1, SumNat, SumBoundsPart
<1>5. claimableOf' = h
  BY DEF h
<1> QED
  BY <1>1, <1>2, <1>3, <1>4, <1>5 DEF Core, TotalsAreSums

(* claim keeps the invariant: what leaves the account leaves the total.    *)
LEMMA ClaimStep ==
  ASSUME Core, NEW a \in Accounts, NEW x \in ClaimAmounts, NEW to \in Payees, claim(a, x, to)
  PROVE  Core'
<1> DEFINE paid == payable(Lesser(x, claimableOf[a]))
           received(holder) == IF to = holder THEN paid ELSE 0
           v == gusd.vault - paid + received("vault")
           l == gusd.ledger + received("ledger")
           w == gusd.wallets + received("wallets")
           s == gusd.stray + received("engine")
<1>1. /\ x \in Nat /\ claimableOf[a] \in Nat /\ withdrawCap \in Nat /\ withdrawn \in Nat
      /\ gusd \in [engine: Nat, vault: Nat, ledger: Nat, wallets: Nat, stray: Nat]
      /\ totals \in [totalClaimable: Nat, reservedPnl: Nat, totalEarnedFunding: Nat]
  BY PerpConstants DEF Core, TypeOK
<1>2. paid \in Nat /\ paid <= claimableOf[a] /\ paid <= gusd.vault
  BY <1>1 DEF payable, Lesser, PosPart
<1>3. /\ withdrawn' = withdrawn + paid
      /\ gusd' = [gusd EXCEPT !.vault = v, !.ledger = l, !.wallets = w, !.stray = s]
      /\ claimableOf' = [claimableOf EXCEPT ![a] = claimableOf[a] - paid]
      /\ totals' = [totals EXCEPT !.totalClaimable = totals.totalClaimable - paid]
      /\ perpReserved' = reservation(totals')
      /\ market' = market /\ epochPrice' = epochPrice
      /\ UNCHANGED <<now, orders, orderNonce, positions, activeTrigger, adminVars, withdrawCap>>
  BY DEF claim, pushReservation
<1>a. v \in Nat /\ l \in Nat /\ w \in Nat /\ s \in Nat
  BY <1>1, <1>2
<1> HIDE DEF paid, v, l, w, s
<1>4. claimableOf[a] - paid \in Nat
  BY <1>1, <1>2
<1>5. /\ claimableOf' \in [Accounts -> Nat]
      /\ SumOf(claimableOf') = SumOf(claimableOf) - claimableOf[a] + (claimableOf[a] - paid)
      /\ SumOf(claimableOf) \in Nat /\ claimableOf[a] <= SumOf(claimableOf)
      /\ totals.totalClaimable = SumOf(claimableOf)
  BY <1>3, <1>4, ClaimableChange
<1>6. /\ totals.totalClaimable - paid \in Nat
      /\ totals.totalClaimable - paid = SumOf(claimableOf')
  BY <1>1, <1>2, <1>5
<1>7. /\ totals' \in [totalClaimable: Nat, reservedPnl: Nat, totalEarnedFunding: Nat]
      /\ totals'.totalClaimable = totals.totalClaimable - paid
      /\ totals'.reservedPnl = totals.reservedPnl
      /\ totals'.totalEarnedFunding = totals.totalEarnedFunding
  BY <1>1, <1>3, <1>6
<1>8. /\ gusd' \in [engine: Nat, vault: Nat, ledger: Nat, wallets: Nat, stray: Nat]
      /\ gusd'.engine = gusd.engine
  BY <1>1, <1>3, <1>a
<1>9. perpReserved' \in Nat /\ withdrawn' \in Nat
  BY <1>1, <1>2, <1>3, <1>7 DEF reservation
<1>10. TypeOK'
  BY <1>3, <1>5, <1>7, <1>8, <1>9 DEF Core, TypeOK, adminVars
<1>11. TotalsAreSums'
  <2>1. /\ totals'.reservedPnl = SumOf(reserveShares)'
        /\ totals'.totalEarnedFunding = SumOf(earnedShares)'
    BY <1>3, <1>7 DEF Core, TotalsAreSums, reserveShares, earnedShares
  <2>2. SumOf(claimableOf)' = SumOf(claimableOf')
    BY DEF SumOf, Region, Column
  <2> QED
    BY <1>6, <1>7, <2>1, <2>2 DEF TotalsAreSums
<1>12. AtRestBalance' /\ OpenInterestIsSum' /\ CheckpointsBehind' /\ WellFormed'
  <2>1. AtRestBalance'
    BY <1>3, <1>8 DEF Core, AtRestBalance, openCollateral, pendingEscrow
  <2>2. OpenInterestIsSum'
    BY <1>3 DEF Core, OpenInterestIsSum, sideSizes
  <2>3. CheckpointsBehind' /\ WellFormed'
    BY <1>3 DEF Core, CheckpointsBehind, WellFormed, chargeCum, creditCum
  <2> QED
    BY <2>1, <2>2, <2>3
<1>13. ReservationPushed'
  BY <1>3 DEF ReservationPushed, reservation
<1> QED
  BY <1>10, <1>11, <1>12, <1>13 DEF Core

(* A settlement: one position, its market, its shares of the totals and    *)
(* the engine's balance move together.                                     *)
LEMMA SettlementStep ==
  ASSUME Core, TypeOK', WellFormed', NEW key \in PositionKeys,
         \A k \in PositionKeys \ {key} : positions'[k] = positions[k],
         NEW n \in Market, market' = [market EXCEPT ![key[2]] = n],
         n.openLong = market[key[2]].openLong
           + IF key[3] THEN positions'[key].size - positions[key].size ELSE 0,
         n.openShort = market[key[2]].openShort
           + IF key[3] THEN 0 ELSE positions'[key].size - positions[key].size,
         n.chargeLong >= market[key[2]].chargeLong, n.chargeShort >= market[key[2]].chargeShort,
         n.creditLong >= market[key[2]].creditLong, n.creditShort >= market[key[2]].creditShort,
         n.borrow >= market[key[2]].borrow,
         positions'[key].size > 0 => Behind(n, positions'[key], key[3]),
         totals'.totalClaimable = SumOf(claimableOf'),
         totals'.reservedPnl = totals.reservedPnl - positions[key].reserveShare
                                 + positions'[key].reserveShare,
         totals'.totalEarnedFunding = totals.totalEarnedFunding - positions[key].earnedFunding
                                        + positions'[key].earnedFunding,
         perpReserved' = reservation(totals'),
         gusd'.engine = SumOf(openCollateral) - positions[key].collateral
                          + positions'[key].collateral + SumOf(pendingEscrow)'
  PROVE  Core'
<1>1. /\ positions \in [PositionKeys -> Position] /\ positions' \in [PositionKeys -> Position]
      /\ market \in [GpuIds -> Market] /\ market' \in [GpuIds -> Market]
      /\ key[2] \in GpuIds /\ key[3] \in BOOLEAN
  BY FiniteIndices DEF Core, TypeOK
<1>2. /\ SumOf(openCollateral') = SumOf(openCollateral) - positions[key].collateral
                                    + positions'[key].collateral
      /\ SumOf(reserveShares') = SumOf(reserveShares) - positions[key].reserveShare
                                   + positions'[key].reserveShare
      /\ SumOf(earnedShares') = SumOf(earnedShares) - positions[key].earnedFunding
                                  + positions'[key].earnedFunding
  BY <1>1, PositionChange
<1>3. /\ SumOf(openCollateral)' = SumOf(openCollateral')
      /\ SumOf(reserveShares)' = SumOf(reserveShares')
      /\ SumOf(earnedShares)' = SumOf(earnedShares')
      /\ SumOf(claimableOf)' = SumOf(claimableOf')
  BY DEF SumOf, Region, Column
<1>4. AtRestBalance'
  BY <1>2, <1>3 DEF AtRestBalance
<1>5. TotalsAreSums'
  <2>1. totals.reservedPnl = SumOf(reserveShares) /\ totals.totalEarnedFunding = SumOf(earnedShares)
    BY DEF Core, TotalsAreSums
  <2> QED
    BY <1>2, <1>3, <2>1 DEF TotalsAreSums
<1>6. ReservationPushed'
  BY DEF ReservationPushed, reservation
<1>7. OpenInterestIsSum'
  <2>1. OpenInterestIsSum
    BY DEF Core
  <2> QED
    BY <1>1, <2>1, OpenInterestStep
<1>8. CheckpointsBehind'
  <2>1. market'[key[2]] = n /\ \A g \in GpuIds \ {key[2]} : market'[g] = market[g]
    BY <1>1
  <2>2. CumulativesGrow
    BY <1>1, <2>1 DEF CumulativesGrow, Market
  <2>3. ASSUME NEW k \in PositionKeys
        PROVE  \/ positions'[k] = positions[k]
               \/ positions'[k].size > 0 => Behind(market'[k[2]], positions'[k], k[3])
    BY <2>1
  <2>4. CheckpointsBehind
    BY DEF Core
  <2> QED
    BY <1>1, <2>2, <2>3, <2>4, CheckpointStep
<1> QED
  BY <1>4, <1>5, <1>6, <1>7, <1>8 DEF Core

(* Every position's part is within the sum it belongs to.                  *)
LEMMA PartsBounded ==
  ASSUME Core, NEW key \in PositionKeys
  PROVE  /\ positions[key] \in Position
         /\ positions[key].size
              <= IF key[3] THEN market[key[2]].openLong ELSE market[key[2]].openShort
         /\ positions[key].collateral <= SumOf(openCollateral)
         /\ positions[key].reserveShare <= totals.reservedPnl
         /\ positions[key].earnedFunding <= totals.totalEarnedFunding
<1>1. /\ positions \in [PositionKeys -> Position] /\ positions[key] \in Position
      /\ key[2] \in GpuIds /\ key[3] \in BOOLEAN /\ IsFiniteSet(PositionKeys)
  BY FiniteIndices DEF Core, TypeOK
<1>2. /\ openCollateral \in [PositionKeys -> Nat] /\ openCollateral[key] = positions[key].collateral
      /\ reserveShares \in [PositionKeys -> Nat] /\ reserveShares[key] = positions[key].reserveShare
      /\ earnedShares \in [PositionKeys -> Nat] /\ earnedShares[key] = positions[key].earnedFunding
  BY <1>1 DEF openCollateral, reserveShares, earnedShares, Position
<1> DEFINE f == sideSizes(key[2], key[3])
<1>3. f \in [PositionKeys -> Nat] /\ f[key] = positions[key].size
  BY <1>1 DEF sideSizes, Position
<1>4. SumOf(f) = IF key[3] THEN market[key[2]].openLong ELSE market[key[2]].openShort
  BY <1>1 DEF Core, OpenInterestIsSum
<1> HIDE DEF f
<1>5. f[key] <= SumOf(f)
  BY <1>1, <1>3, SumBoundsPart
<1>6. /\ openCollateral[key] <= SumOf(openCollateral)
      /\ reserveShares[key] <= SumOf(reserveShares)
      /\ earnedShares[key] <= SumOf(earnedShares)
  BY <1>1, <1>2, SumBoundsPart
<1>7. totals.reservedPnl = SumOf(reserveShares) /\ totals.totalEarnedFunding = SumOf(earnedShares)
  BY DEF Core, TotalsAreSums
<1> QED
  BY <1>1, <1>2, <1>3, <1>4, <1>5, <1>6, <1>7

(* The accrued market of a position: the position is behind it.            *)
LEMMA AccruedAt ==
  ASSUME Core, NEW key \in PositionKeys
  PROVE  LET m == accrue(market[key[2]], now)
         IN  /\ m \in Market /\ market[key[2]] \in Market
             /\ m.openLong = market[key[2]].openLong /\ m.openShort = market[key[2]].openShort
             /\ m.chargeLong >= market[key[2]].chargeLong
             /\ m.chargeShort >= market[key[2]].chargeShort
             /\ m.creditLong >= market[key[2]].creditLong
             /\ m.creditShort >= market[key[2]].creditShort
             /\ m.borrow >= market[key[2]].borrow
             /\ positions[key].size > 0 => Behind(m, positions[key], key[3])
<1> DEFINE m == accrue(market[key[2]], now)
<1>1. /\ market[key[2]] \in Market /\ now \in Nat /\ key[3] \in BOOLEAN
      /\ positions[key] \in Position
  BY FiniteIndices DEF Core, TypeOK
<1>2. /\ m \in Market
      /\ m.openLong = market[key[2]].openLong /\ m.openShort = market[key[2]].openShort
      /\ m.chargeLong >= market[key[2]].chargeLong
      /\ m.chargeShort >= market[key[2]].chargeShort
      /\ m.creditLong >= market[key[2]].creditLong
      /\ m.creditShort >= market[key[2]].creditShort
      /\ m.borrow >= market[key[2]].borrow
  BY <1>1, AccrueFacts
<1> HIDE DEF m
<1>3. ASSUME positions[key].size > 0 PROVE Behind(m, positions[key], key[3])
  <2>1. Behind(market[key[2]], positions[key], key[3])
    BY <1>3 DEF Core, CheckpointsBehind, Behind
  <2> QED
    BY <1>1, <1>2, <2>1, BehindStays
<1> QED
  BY <1>1, <1>2, <1>3 DEF m

(* Moving one side's open interest touches nothing else of the market.     *)
LEMMA OpenInterestAdded ==
  ASSUME NEW m \in Market, NEW isLong \in BOOLEAN, NEW delta \in Int,
         0 <= delta + IF isLong THEN m.openLong ELSE m.openShort
  PROVE  LET n == addOpenInterest(m, isLong, delta)
         IN  /\ n \in Market
             /\ n.openLong = m.openLong + IF isLong THEN delta ELSE 0
             /\ n.openShort = m.openShort + IF isLong THEN 0 ELSE delta
             /\ n.chargeLong = m.chargeLong /\ n.chargeShort = m.chargeShort
             /\ n.creditLong = m.creditLong /\ n.creditShort = m.creditShort
             /\ n.borrow = m.borrow
             /\ \A pos : Behind(m, pos, isLong) => Behind(n, pos, isLong)
<1> DEFINE n == addOpenInterest(m, isLong, delta)
<1>1. CASE isLong
  <2>1. m.openLong + delta \in Nat
    BY <1>1 DEF Market
  <2>2. n = [m EXCEPT !.openLong = m.openLong + delta]
    BY <1>1 DEF addOpenInterest
  <2> HIDE DEF n
  <2>3. /\ n \in Market /\ n.openLong = m.openLong + delta /\ n.openShort = m.openShort
        /\ n.chargeLong = m.chargeLong /\ n.chargeShort = m.chargeShort
        /\ n.creditLong = m.creditLong /\ n.creditShort = m.creditShort
        /\ n.borrow = m.borrow
    BY <2>1, <2>2 DEF Market
  <2>4. n.openShort = m.openShort + 0
    BY <2>3 DEF Market
  <2> QED
    BY <1>1, <2>3, <2>4 DEF n, Behind, chargeCum, creditCum
<1>2. CASE ~isLong
  <2>1. m.openShort + delta \in Nat
    BY <1>2 DEF Market
  <2>2. n = [m EXCEPT !.openShort = m.openShort + delta]
    BY <1>2 DEF addOpenInterest
  <2> HIDE DEF n
  <2>3. /\ n \in Market /\ n.openShort = m.openShort + delta /\ n.openLong = m.openLong
        /\ n.chargeLong = m.chargeLong /\ n.chargeShort = m.chargeShort
        /\ n.creditLong = m.creditLong /\ n.creditShort = m.creditShort
        /\ n.borrow = m.borrow
    BY <2>1, <2>2 DEF Market
  <2>4. n.openLong = m.openLong + 0
    BY <2>3 DEF Market
  <2> QED
    BY <1>2, <2>3, <2>4 DEF n, Behind, chargeCum, creditCum
<1> QED
  BY <1>1, <1>2

(* The totals after a settlement that credits `due' and replaces a         *)
(* position's shares.                                                      *)
LEMMA SharesExchanged ==
  ASSUME TypeOK, NEW due \in Nat, NEW old \in Position, NEW new \in Position,
         old.reserveShare <= totals.reservedPnl, old.earnedFunding <= totals.totalEarnedFunding,
         totals' = exchangeShares(creditClaimable(totals, due), old, new)
  PROVE  /\ totals' \in [totalClaimable: Nat, reservedPnl: Nat, totalEarnedFunding: Nat]
         /\ totals'.totalClaimable = totals.totalClaimable + due
         /\ totals'.reservedPnl = totals.reservedPnl - old.reserveShare + new.reserveShare
         /\ totals'.totalEarnedFunding = totals.totalEarnedFunding - old.earnedFunding
                                           + new.earnedFunding
<1> DEFINE c == creditClaimable(totals, due)
           rp == totals.reservedPnl - old.reserveShare + new.reserveShare
           ef == totals.totalEarnedFunding - old.earnedFunding + new.earnedFunding
<1>1. totals \in [totalClaimable: Nat, reservedPnl: Nat, totalEarnedFunding: Nat]
  BY DEF TypeOK
<1>2. /\ c \in [totalClaimable: Nat, reservedPnl: Nat, totalEarnedFunding: Nat]
      /\ c.totalClaimable = totals.totalClaimable + due
      /\ c.reservedPnl = totals.reservedPnl /\ c.totalEarnedFunding = totals.totalEarnedFunding
  BY <1>1 DEF creditClaimable
<1>3. rp \in Nat /\ ef \in Nat
  BY <1>1 DEF Position
<1> HIDE DEF c
<1>4. totals' = [c EXCEPT !.reservedPnl = rp, !.totalEarnedFunding = ef]
  BY <1>2 DEF exchangeShares, c
<1> HIDE DEF rp, ef
<1>5. /\ totals' \in [totalClaimable: Nat, reservedPnl: Nat, totalEarnedFunding: Nat]
      /\ totals'.totalClaimable = c.totalClaimable
      /\ totals'.reservedPnl = rp /\ totals'.totalEarnedFunding = ef
  BY <1>2, <1>3, <1>4
<1> QED
  BY <1>2, <1>5 DEF rp, ef

(* Balances after a payment out of the engine.                             *)
LEMMA BalancesTyped ==
  ASSUME NEW b \in [engine: Nat, vault: Nat, ledger: Nat, wallets: Nat, stray: Nat],
         NEW e \in Nat, NEW v \in Nat, NEW l \in Nat, NEW w \in Nat
  PROVE  LET c == [b EXCEPT !.engine = e, !.vault = v, !.ledger = l, !.wallets = w]
         IN  c \in [engine: Nat, vault: Nat, ledger: Nat, wallets: Nat, stray: Nat] /\ c.engine = e
<1> DEFINE d == [b EXCEPT !.engine = e, !.vault = v]
           c == [b EXCEPT !.engine = e, !.vault = v, !.ledger = l, !.wallets = w]
<1>1. d \in [engine: Nat, vault: Nat, ledger: Nat, wallets: Nat, stray: Nat] /\ d.engine = e
  OBVIOUS
<1>2. c = [d EXCEPT !.ledger = l, !.wallets = w]
  OBVIOUS
<1> HIDE DEF c, d
<1>3. c \in [engine: Nat, vault: Nat, ledger: Nat, wallets: Nat, stray: Nat] /\ c.engine = e
  BY <1>1, <1>2
<1> QED
  BY <1>3 DEF c

-----------------------------------------------------------------------------
(* PerpLiquidation.liquidate keeps the invariant: all collateral leaves    *)
(* the engine and all shares leave the totals.                             *)
LEMMA LiquidateStep ==
  ASSUME Core, NEW a \in Accounts, NEW g \in GpuIds, NEW isLong \in BOOLEAN,
         NEW price \in Prices, liquidate(a, g, isLong, price)
  PROVE  Core'
<1> DEFINE key == <<a, g, isLong>>
           pos == positions[key]
           m == accrue(market[g], now)
           n == addOpenInterest(m, isLong, -pos.size)
           liqFee == Lesser(feeBps(pos.size, m.params.liquidationFeeBps), pos.collateral)
           due == PosPart(equityOf(m, pos, isLong, price) - liqFee)
<1>1. key \in PositionKeys /\ key[2] = g /\ key[3] = isLong /\ key[1] = a
  BY DEF PositionKeys
<1>2. /\ Consume(g, price) /\ pos.size > 0
      /\ claimableOf' = [claimableOf EXCEPT ![a] = claimableOf[a] + due]
      /\ gusd' = [gusd EXCEPT !.engine = gusd.engine - pos.collateral,
                              !.vault = gusd.vault + pos.collateral - liqFee,
                              !.wallets = gusd.wallets + liqFee]
      /\ market' = [market EXCEPT ![g] = n]
      /\ positions' = [positions EXCEPT ![key] = NoPosition]
      /\ totals' = exchangeShares(creditClaimable(totals, due), pos, NoPosition)
      /\ perpReserved' = reservation(totals')
      /\ UNCHANGED <<now, orders, orderNonce, activeTrigger, adminVars, withdrawCap, withdrawn>>
  BY DEF liquidate, liquidatableAt, pushReservation
<1>3. /\ pos \in Position /\ pos.size \in Nat /\ pos.collateral \in Nat /\ pos.entry > 0
      /\ NoPosition \in Position /\ NoPosition.size = 0 /\ NoPosition.collateral = 0
      /\ pos.size <= IF isLong THEN market[g].openLong ELSE market[g].openShort
      /\ pos.collateral <= SumOf(openCollateral)
      /\ pos.reserveShare <= totals.reservedPnl /\ pos.earnedFunding <= totals.totalEarnedFunding
  <2>1. /\ positions[key] \in Position
        /\ positions[key].size
             <= IF key[3] THEN market[key[2]].openLong ELSE market[key[2]].openShort
        /\ positions[key].collateral <= SumOf(openCollateral)
        /\ positions[key].reserveShare <= totals.reservedPnl
        /\ positions[key].earnedFunding <= totals.totalEarnedFunding
    BY <1>1, PartsBounded
  <2>2. NoPosition \in Position /\ NoPosition.size = 0 /\ NoPosition.collateral = 0
    BY DEF NoPosition, Position
  <2>3. pos.entry > 0
    BY <1>1, <1>2 DEF Core, WellFormed
  <2>4. pos.size \in Nat /\ pos.collateral \in Nat
    BY <2>1 DEF Position
  <2> QED
    BY <1>1, <2>1, <2>2, <2>3, <2>4
<1>4. /\ m \in Market /\ market[g] \in Market
      /\ m.openLong = market[g].openLong /\ m.openShort = market[g].openShort
      /\ m.chargeLong >= market[g].chargeLong /\ m.chargeShort >= market[g].chargeShort
      /\ m.creditLong >= market[g].creditLong /\ m.creditShort >= market[g].creditShort
      /\ m.borrow >= market[g].borrow
  BY <1>1, AccruedAt
<1> HIDE DEF key, pos, m
<1>5. /\ n \in Market
      /\ n.openLong = m.openLong + IF isLong THEN -pos.size ELSE 0
      /\ n.openShort = m.openShort + IF isLong THEN 0 ELSE -pos.size
      /\ n.chargeLong = m.chargeLong /\ n.chargeShort = m.chargeShort
      /\ n.creditLong = m.creditLong /\ n.creditShort = m.creditShort
      /\ n.borrow = m.borrow
  <2>1. -pos.size \in Int /\ 0 <= -pos.size + IF isLong THEN m.openLong ELSE m.openShort
    BY <1>3, <1>4 DEF Market
  <2> QED
    BY <1>4, <2>1, OpenInterestAdded
<1> HIDE DEF n
<1>6. liqFee \in Nat /\ liqFee <= pos.collateral
  <2>1. m.params.liquidationFeeBps \in Nat
    BY <1>4 DEF Market, MarketParams
  <2>2. feeBps(pos.size, m.params.liquidationFeeBps) \in Nat
    BY <1>3, <2>1, FeeNat
  <2> QED
    BY <1>3, <2>2 DEF Lesser
<1>7. epochPrice' \in [GpuIds -> Prices \cup {0}] /\ price \in Nat
  BY <1>2, ConsumeTyped
<1>8. due \in Nat
  <2>1. equityOf(m, pos, isLong, price) \in Int
    BY <1>3, <1>4, <1>7, EquityInt
  <2> QED
    BY <1>6, <2>1 DEF PosPart
<1> HIDE DEF liqFee, due
<1>9. /\ claimableOf[a] \in Nat /\ market \in [GpuIds -> Market]
      /\ positions \in [PositionKeys -> Position]
      /\ gusd \in [engine: Nat, vault: Nat, ledger: Nat, wallets: Nat, stray: Nat]
      /\ totals \in [totalClaimable: Nat, reservedPnl: Nat, totalEarnedFunding: Nat]
  BY DEF Core, TypeOK
<1>10. /\ claimableOf' \in [Accounts -> Nat]
       /\ SumOf(claimableOf') = SumOf(claimableOf) - claimableOf[a] + (claimableOf[a] + due)
       /\ SumOf(claimableOf) \in Nat /\ totals.totalClaimable = SumOf(claimableOf)
  <2>1. claimableOf[a] + due \in Nat
    BY <1>8, <1>9
  <2> QED
    BY <1>2, <2>1, ClaimableChange
<1>11. /\ totals' \in [totalClaimable: Nat, reservedPnl: Nat, totalEarnedFunding: Nat]
       /\ totals'.totalClaimable = totals.totalClaimable + due
       /\ totals'.reservedPnl = totals.reservedPnl - pos.reserveShare + NoPosition.reserveShare
       /\ totals'.totalEarnedFunding = totals.totalEarnedFunding - pos.earnedFunding
                                         + NoPosition.earnedFunding
  <2>1. TypeOK /\ totals' = exchangeShares(creditClaimable(totals, due), pos, NoPosition)
    BY <1>2 DEF Core
  <2> QED
    BY <1>3, <1>8, <2>1, SharesExchanged
<1>12. totals'.totalClaimable = SumOf(claimableOf')
  BY <1>8, <1>9, <1>10, <1>11
<1>13. /\ SumOf(openCollateral) \in Nat /\ SumOf(pendingEscrow) \in Nat
       /\ gusd.engine = SumOf(openCollateral) + SumOf(pendingEscrow)
       /\ SumOf(pendingEscrow)' = SumOf(pendingEscrow)
  <2>1. openCollateral \in [PositionKeys -> Nat] /\ pendingEscrow \in [OrderIds -> Nat]
    BY EscrowFunction DEF Core, TypeOK, openCollateral, Position
  <2>2. SumOf(openCollateral) \in Nat /\ SumOf(pendingEscrow) \in Nat
    BY <2>1, SumNat, FiniteIndices
  <2>3. SumOf(pendingEscrow)' = SumOf(pendingEscrow)
    BY <1>2 DEF pendingEscrow
  <2> QED
    BY <2>2, <2>3 DEF Core, AtRestBalance
<1>14. /\ gusd' \in [engine: Nat, vault: Nat, ledger: Nat, wallets: Nat, stray: Nat]
       /\ gusd'.engine = gusd.engine - pos.collateral
  <2> DEFINE e == gusd.engine - pos.collateral
             v == gusd.vault + pos.collateral - liqFee
             w == gusd.wallets + liqFee
  <2>1. e \in Nat /\ v \in Nat /\ w \in Nat
    BY <1>3, <1>6, <1>9, <1>13
  <2>2. gusd' = [gusd EXCEPT !.engine = e, !.vault = v, !.wallets = w]
    BY <1>2
  <2> HIDE DEF e, v, w
  <2>3. gusd' \in [engine: Nat, vault: Nat, ledger: Nat, wallets: Nat, stray: Nat] /\ gusd'.engine = e
    BY <1>9, <2>1, <2>2
  <2> QED
    BY <2>3 DEF e
<1>15. /\ positions' \in [PositionKeys -> Position] /\ positions'[key] = NoPosition
       /\ \A k \in PositionKeys \ {key} : positions'[k] = positions[k]
  BY <1>1, <1>2, <1>3, <1>9
<1>16. market' \in [GpuIds -> Market]
  BY <1>2, <1>5, <1>9
<1>17. perpReserved' \in Nat
  BY <1>2, <1>11 DEF reservation
<1>18. TypeOK'
  BY <1>2, <1>7, <1>10, <1>11, <1>14, <1>15, <1>16, <1>17 DEF Core, TypeOK, adminVars
<1>19. WellFormed'
  <2>1. \A k \in PositionKeys : positions'[k].size > 0 => positions'[k].entry > 0
    BY <1>3, <1>15 DEF Core, WellFormed
  <2> QED
    BY <1>2, <2>1 DEF Core, WellFormed
<1>20. /\ n.openLong = market[key[2]].openLong
            + IF key[3] THEN positions'[key].size - positions[key].size ELSE 0
       /\ n.openShort = market[key[2]].openShort
            + IF key[3] THEN 0 ELSE positions'[key].size - positions[key].size
  <2>1. positions'[key].size - positions[key].size = -pos.size
    BY <1>3, <1>15 DEF pos
  <2> QED
    BY <1>1, <1>4, <1>5, <2>1
<1>21. gusd'.engine = SumOf(openCollateral) - positions[key].collateral
                        + positions'[key].collateral + SumOf(pendingEscrow)'
  BY <1>3, <1>13, <1>14, <1>15 DEF pos
<1>22. /\ totals'.reservedPnl = totals.reservedPnl - positions[key].reserveShare
                                  + positions'[key].reserveShare
       /\ totals'.totalEarnedFunding = totals.totalEarnedFunding - positions[key].earnedFunding
                                         + positions'[key].earnedFunding
  BY <1>11, <1>15 DEF pos
<1>23. /\ n.chargeLong >= market[key[2]].chargeLong /\ n.chargeShort >= market[key[2]].chargeShort
       /\ n.creditLong >= market[key[2]].creditLong /\ n.creditShort >= market[key[2]].creditShort
       /\ n.borrow >= market[key[2]].borrow /\ market' = [market EXCEPT ![key[2]] = n]
  BY <1>1, <1>2, <1>4, <1>5
<1>24. positions'[key].size > 0 => Behind(n, positions'[key], key[3])
  BY <1>3, <1>15
<1> QED
  BY <1>1, <1>2, <1>5, <1>12, <1>15, <1>18, <1>19, <1>20, <1>21, <1>22, <1>23, <1>24,
     SettlementStep

(* _executeDecrease keeps the invariant: the slice's collateral and the    *)
(* order's fee leave the engine, the rest of the position stays covered.   *)
LEMMA DecreaseStep ==
  ASSUME Core, NEW id \in OrderIds, NEW price \in Prices, executeDecrease(id, price)
  PROVE  Core'
<1> DEFINE o == orders[id]
           key == KeyOf(o)
           pos == positions[key]
           m == accrue(market[o.market], now)
           delta == closedSize(o, pos)
           n == addOpenInterest(m, o.isLong, -delta)
           c == closeSlice(m, pos, o.isLong, delta, price)
           after == remainder(m, pos, o.isLong, delta, price, c)
<1>1. /\ o.kind # "MarketIncrease" /\ o.status = "Pending" /\ Consume(o.market, price)
      /\ pos.size > 0
      /\ claimableOf' = [claimableOf EXCEPT ![o.account] = claimableOf[o.account] + c.due]
      /\ gusd' = [gusd EXCEPT !.engine = gusd.engine - c.released - o.fee,
                              !.vault = gusd.vault + c.released - c.paidLedger,
                              !.ledger = gusd.ledger + c.paidLedger,
                              !.wallets = gusd.wallets + o.fee]
      /\ orders' = [orders EXCEPT ![id].status = "Executed"]
      /\ activeTrigger' = withoutTrigger(o)
      /\ market' = [market EXCEPT ![o.market] = n]
      /\ positions' = [positions EXCEPT ![key] = after]
      /\ totals' = exchangeShares(creditClaimable(totals, c.due), pos, after)
      /\ perpReserved' = reservation(totals')
      /\ UNCHANGED <<now, orderNonce, adminVars, withdrawCap, withdrawn>>
  BY DEF executeDecrease, Executable, pushReservation
<1>2. /\ o \in Order /\ orders' \in [OrderIds -> Order] /\ key \in PositionKeys
      /\ escrow(o) \in Nat
      /\ SumOf(pendingEscrow)' = SumOf(pendingEscrow) - escrow(o)
      /\ SumOf(pendingEscrow) \in Nat /\ SumOf(openCollateral) \in Nat
      /\ escrow(o) <= SumOf(pendingEscrow)
      /\ gusd.engine = SumOf(openCollateral) + SumOf(pendingEscrow)
      /\ \A j \in OrderIds : j <= orderNonce <=> orders'[j].status # "None"
  <2>1. "Executed" \in {"Executed", "Cancelled"}
    OBVIOUS
  <2> QED
    BY <1>1, <2>1, SpentOrder
<1>3. /\ key[2] = o.market /\ key[3] = o.isLong /\ o.market \in GpuIds /\ o.isLong \in BOOLEAN
      /\ o.account \in Accounts /\ o.fee \in Nat /\ o.size \in Nat /\ escrow(o) = o.fee
  <2>1. key[2] = o.market /\ key[3] = o.isLong
    BY DEF KeyOf
  <2>2. /\ o.market \in GpuIds /\ o.isLong \in BOOLEAN /\ o.account \in Accounts
        /\ o.fee \in Nat /\ o.size \in Nat
    BY <1>2 DEF Order
  <2>3. escrow(o) = o.fee + 0
    BY <1>1 DEF escrow
  <2> QED
    BY <2>1, <2>2, <2>3
<1>4. /\ pos \in Position /\ pos.size \in Nat /\ pos.collateral \in Nat /\ pos.entry > 0
      /\ pos.size <= IF o.isLong THEN market[o.market].openLong ELSE market[o.market].openShort
      /\ pos.collateral <= SumOf(openCollateral)
      /\ pos.reserveShare <= totals.reservedPnl /\ pos.earnedFunding <= totals.totalEarnedFunding
  <2>1. /\ positions[key] \in Position
        /\ positions[key].size
             <= IF key[3] THEN market[key[2]].openLong ELSE market[key[2]].openShort
        /\ positions[key].collateral <= SumOf(openCollateral)
        /\ positions[key].reserveShare <= totals.reservedPnl
        /\ positions[key].earnedFunding <= totals.totalEarnedFunding
    BY <1>2, PartsBounded
  <2>2. pos.entry > 0
    BY <1>1, <1>2 DEF Core, WellFormed
  <2>3. pos.size \in Nat /\ pos.collateral \in Nat
    BY <2>1 DEF Position
  <2> QED
    BY <1>3, <2>1, <2>2, <2>3
<1>5. /\ m \in Market /\ market[o.market] \in Market
      /\ m.openLong = market[o.market].openLong /\ m.openShort = market[o.market].openShort
      /\ m.chargeLong >= market[o.market].chargeLong
      /\ m.chargeShort >= market[o.market].chargeShort
      /\ m.creditLong >= market[o.market].creditLong
      /\ m.creditShort >= market[o.market].creditShort
      /\ m.borrow >= market[o.market].borrow
      /\ Behind(m, pos, o.isLong)
  BY <1>1, <1>2, <1>3, AccruedAt
<1> HIDE DEF o, key, pos, m
<1>6. delta \in 1..pos.size
  BY <1>1, <1>3, <1>4 DEF closedSize, Lesser
<1> HIDE DEF delta
<1>7. epochPrice' \in [GpuIds -> Prices \cup {0}] /\ price \in Nat
  BY <1>1, <1>3, ConsumeTyped
<1>8. /\ c.released \in 0..pos.collateral /\ c.due \in Nat /\ c.paidLedger \in 0..c.released
  BY <1>3, <1>4, <1>5, <1>6, <1>7, CloseFacts
<1>9. /\ after \in Position /\ after.size = pos.size - delta
      /\ after.collateral = pos.collateral - c.released
      /\ after.size > 0 => after.entry > 0 /\ Behind(m, after, o.isLong)
  BY <1>3, <1>4, <1>5, <1>6, <1>7, RemainderFacts
<1> HIDE DEF c, after
<1>10. /\ n \in Market
       /\ n.openLong = m.openLong + IF o.isLong THEN -delta ELSE 0
       /\ n.openShort = m.openShort + IF o.isLong THEN 0 ELSE -delta
       /\ n.chargeLong = m.chargeLong /\ n.chargeShort = m.chargeShort
       /\ n.creditLong = m.creditLong /\ n.creditShort = m.creditShort
       /\ n.borrow = m.borrow
       /\ Behind(m, after, o.isLong) => Behind(n, after, o.isLong)
  <2>1. -delta \in Int /\ 0 <= -delta + IF o.isLong THEN m.openLong ELSE m.openShort
    BY <1>4, <1>5, <1>6 DEF Market
  <2> QED
    BY <1>3, <1>5, <2>1, OpenInterestAdded
<1> HIDE DEF n
<1>11. /\ claimableOf[o.account] \in Nat /\ market \in [GpuIds -> Market]
       /\ positions \in [PositionKeys -> Position]
       /\ gusd \in [engine: Nat, vault: Nat, ledger: Nat, wallets: Nat, stray: Nat]
       /\ totals \in [totalClaimable: Nat, reservedPnl: Nat, totalEarnedFunding: Nat]
  BY <1>3 DEF Core, TypeOK
<1>12. /\ claimableOf' \in [Accounts -> Nat]
       /\ SumOf(claimableOf')
            = SumOf(claimableOf) - claimableOf[o.account] + (claimableOf[o.account] + c.due)
       /\ SumOf(claimableOf) \in Nat /\ totals.totalClaimable = SumOf(claimableOf)
  <2>1. claimableOf[o.account] + c.due \in Nat
    BY <1>8, <1>11
  <2> QED
    BY <1>1, <1>3, <2>1, ClaimableChange
<1>13. /\ totals' \in [totalClaimable: Nat, reservedPnl: Nat, totalEarnedFunding: Nat]
       /\ totals'.totalClaimable = totals.totalClaimable + c.due
       /\ totals'.reservedPnl = totals.reservedPnl - pos.reserveShare + after.reserveShare
       /\ totals'.totalEarnedFunding = totals.totalEarnedFunding - pos.earnedFunding
                                         + after.earnedFunding
  <2>1. TypeOK /\ totals' = exchangeShares(creditClaimable(totals, c.due), pos, after)
    BY <1>1 DEF Core
  <2> QED
    BY <1>4, <1>8, <1>9, <2>1, SharesExchanged
<1>14. totals'.totalClaimable = SumOf(claimableOf')
  BY <1>8, <1>11, <1>12, <1>13
<1>15. /\ gusd' \in [engine: Nat, vault: Nat, ledger: Nat, wallets: Nat, stray: Nat]
       /\ gusd'.engine = gusd.engine - c.released - o.fee
  <2> DEFINE e == gusd.engine - c.released - o.fee
             v == gusd.vault + c.released - c.paidLedger
             l == gusd.ledger + c.paidLedger
             w == gusd.wallets + o.fee
  <2>1. e \in Nat /\ v \in Nat /\ l \in Nat /\ w \in Nat
    BY <1>2, <1>3, <1>4, <1>8, <1>11
  <2>2. gusd' = [gusd EXCEPT !.engine = e, !.vault = v, !.ledger = l, !.wallets = w]
    BY <1>1
  <2> HIDE DEF e, v, l, w
  <2>3. gusd' \in [engine: Nat, vault: Nat, ledger: Nat, wallets: Nat, stray: Nat] /\ gusd'.engine = e
    BY <1>11, <2>1, <2>2, BalancesTyped
  <2> QED
    BY <2>3 DEF e
<1>16. /\ positions' \in [PositionKeys -> Position] /\ positions'[key] = after
       /\ \A k \in PositionKeys \ {key} : positions'[k] = positions[k]
  BY <1>1, <1>2, <1>9, <1>11
<1>17. market' \in [GpuIds -> Market] /\ activeTrigger' \in [TriggerKeys -> 0..MaxOrders]
  BY <1>1, <1>2, <1>3, <1>10, <1>11, WithoutTriggerTyped
<1>18. perpReserved' \in Nat
  BY <1>1, <1>13 DEF reservation
<1>19. TypeOK'
  BY <1>1, <1>2, <1>7, <1>12, <1>13, <1>15, <1>16, <1>17, <1>18 DEF Core, TypeOK, adminVars
<1>20. WellFormed'
  <2>1. \A k \in PositionKeys : positions'[k].size > 0 => positions'[k].entry > 0
    BY <1>9, <1>16 DEF Core, WellFormed
  <2> QED
    BY <1>1, <1>2, <2>1 DEF WellFormed
<1>21. /\ n.openLong = market[key[2]].openLong
            + IF key[3] THEN positions'[key].size - positions[key].size ELSE 0
       /\ n.openShort = market[key[2]].openShort
            + IF key[3] THEN 0 ELSE positions'[key].size - positions[key].size
  <2>1. positions'[key].size - positions[key].size = -delta
    BY <1>4, <1>6, <1>9, <1>16 DEF pos
  <2> QED
    BY <1>3, <1>5, <1>10, <2>1
<1>22. gusd'.engine = SumOf(openCollateral) - positions[key].collateral
                        + positions'[key].collateral + SumOf(pendingEscrow)'
  BY <1>2, <1>3, <1>4, <1>8, <1>9, <1>15, <1>16 DEF pos
<1>23. /\ totals'.reservedPnl = totals.reservedPnl - positions[key].reserveShare
                                  + positions'[key].reserveShare
       /\ totals'.totalEarnedFunding = totals.totalEarnedFunding - positions[key].earnedFunding
                                         + positions'[key].earnedFunding
  BY <1>13, <1>16 DEF pos
<1>24. /\ n.chargeLong >= market[key[2]].chargeLong /\ n.chargeShort >= market[key[2]].chargeShort
       /\ n.creditLong >= market[key[2]].creditLong /\ n.creditShort >= market[key[2]].creditShort
       /\ n.borrow >= market[key[2]].borrow /\ market' = [market EXCEPT ![key[2]] = n]
  BY <1>1, <1>3, <1>5, <1>10
<1>25. positions'[key].size > 0 => Behind(n, positions'[key], key[3])
  BY <1>3, <1>9, <1>10, <1>16
<1> QED
  BY <1>1, <1>2, <1>10, <1>14, <1>16, <1>19, <1>20, <1>21, <1>22, <1>23, <1>24, <1>25,
     SettlementStep

(* The size-weighted entry price of an open position is positive.          *)
LEMMA EntryPositive ==
  ASSUME NEW pos \in Position, NEW isLong \in BOOLEAN, NEW size \in Nat,
         NEW price \in Nat, price > 0, pos.size > 0 => pos.entry > 0
  PROVE  newEntry(pos, isLong, size, price) \in Nat \ {0}
<1> DEFINE weighted == pos.size * pos.entry + size * price
           total == pos.size + size
<1>1. pos.size \in Nat /\ pos.entry \in Nat
  BY DEF Position
<1>2. CASE pos.size = 0
  BY <1>2 DEF newEntry
<1>3. CASE pos.size # 0
  <2>1. pos.entry > 0
    BY <1>1, <1>3
  <2>2. pos.size * pos.entry >= pos.size /\ pos.size * pos.entry \in Nat
    BY <1>1, <2>1
  <2>3. size * price >= size /\ size * price \in Nat
    OBVIOUS
  <2>4. weighted \in Nat \ {0} /\ total \in Nat \ {0} /\ weighted >= total
    BY <1>1, <1>3, <2>2, <2>3
  <2> HIDE DEF weighted, total
  <2>5. /\ MulDivFloor(weighted, 1, total) \in Nat /\ MulDivCeil(weighted, 1, total) \in Nat
        /\ MulDivFloor(weighted, 1, total) >= 1 /\ MulDivCeil(weighted, 1, total) >= 1
    BY <2>4, MulDivNat, FloorPositive, CeilPositive
  <2>6. newEntry(pos, isLong, size, price)
          = IF isLong THEN MulDivCeil(weighted, 1, total) ELSE MulDivFloor(weighted, 1, total)
    BY <1>3 DEF newEntry, weighted, total
  <2> QED
    BY <2>5, <2>6
<1> QED
  BY <1>2, <1>3

(* _executeIncrease keeps the invariant: the escrowed collateral becomes   *)
(* the position's, less the open fee and the funding charged.              *)
LEMMA IncreaseStep ==
  ASSUME Core, NEW id \in OrderIds, NEW price \in Prices, executeIncrease(id, price)
  PROVE  Core'
<1> DEFINE o == orders[id]
           key == KeyOf(o)
           pos == positions[key]
           m == accrue(market[o.market], now)
           t == touched(m, pos, o.isLong)
           openFee == feeBps(o.size, m.params.openFeeBps)
           entry == newEntry(pos, o.isLong, o.size, price)
           newSize == pos.size + o.size
           uPnl == pnl(newSize, entry, o.isLong, price)
           collateral == t.pos.collateral + o.collateral - openFee
           after == [t.pos EXCEPT !.size = newSize, !.collateral = collateral,
                                  !.entry = entry, !.reserveShare = PosPart(uPnl)]
           n == addOpenInterest(m, o.isLong, o.size)
<1>1. /\ o.kind = "MarketIncrease" /\ o.status = "Pending" /\ Consume(o.market, price)
      /\ collateral >= 0
      /\ gusd' = [gusd EXCEPT !.engine = gusd.engine - o.fee - openFee - t.charged,
                              !.vault = gusd.vault + t.charged,
                              !.ledger = gusd.ledger + openFee,
                              !.wallets = gusd.wallets + o.fee]
      /\ positions' = [positions EXCEPT ![key] = after]
      /\ totals' = setReserveShare(
                     [totals EXCEPT !.totalEarnedFunding = totals.totalEarnedFunding + t.earned],
                     pos, uPnl)
      /\ market' = [market EXCEPT ![o.market] = n]
      /\ orders' = [orders EXCEPT ![id].status = "Executed"]
      /\ perpReserved' = reservation(totals')
      /\ UNCHANGED <<now, orderNonce, activeTrigger, claimableOf, adminVars,
                     withdrawCap, withdrawn>>
  BY DEF executeIncrease, Executable, pushReservation
<1>2. /\ o \in Order /\ orders' \in [OrderIds -> Order] /\ key \in PositionKeys
      /\ escrow(o) \in Nat
      /\ SumOf(pendingEscrow)' = SumOf(pendingEscrow) - escrow(o)
      /\ SumOf(pendingEscrow) \in Nat /\ SumOf(openCollateral) \in Nat
      /\ escrow(o) <= SumOf(pendingEscrow)
      /\ gusd.engine = SumOf(openCollateral) + SumOf(pendingEscrow)
      /\ \A j \in OrderIds : j <= orderNonce <=> orders'[j].status # "None"
  <2>1. "Executed" \in {"Executed", "Cancelled"}
    OBVIOUS
  <2> QED
    BY <1>1, <2>1, SpentOrder
<1>3. /\ key[2] = o.market /\ key[3] = o.isLong /\ o.market \in GpuIds /\ o.isLong \in BOOLEAN
      /\ o.account \in Accounts /\ o.fee \in Nat /\ o.size \in Nat /\ o.collateral \in Nat
      /\ escrow(o) = o.fee + o.collateral
  <2>1. key[2] = o.market /\ key[3] = o.isLong
    BY DEF KeyOf
  <2>2. /\ o.market \in GpuIds /\ o.isLong \in BOOLEAN /\ o.account \in Accounts
        /\ o.fee \in Nat /\ o.size \in Nat /\ o.collateral \in Nat
    BY <1>2 DEF Order
  <2>3. escrow(o) = o.fee + o.collateral
    BY <1>1 DEF escrow
  <2> QED
    BY <2>1, <2>2, <2>3
<1>4. /\ pos \in Position /\ pos.size \in Nat /\ pos.collateral \in Nat
      /\ pos.earnedFunding \in Nat /\ pos.reserveShare \in Nat
      /\ pos.size > 0 => pos.entry > 0
      /\ pos.collateral <= SumOf(openCollateral) /\ pos.reserveShare <= totals.reservedPnl
  <2>1. /\ positions[key] \in Position
        /\ positions[key].collateral <= SumOf(openCollateral)
        /\ positions[key].reserveShare <= totals.reservedPnl
    BY <1>2, PartsBounded
  <2>2. pos.size > 0 => pos.entry > 0
    BY <1>2 DEF Core, WellFormed
  <2>3. /\ pos.size \in Nat /\ pos.collateral \in Nat
        /\ pos.earnedFunding \in Nat /\ pos.reserveShare \in Nat
    BY <2>1 DEF Position
  <2> QED
    BY <2>1, <2>2, <2>3
<1>5. /\ m \in Market /\ market[o.market] \in Market
      /\ m.openLong = market[o.market].openLong /\ m.openShort = market[o.market].openShort
      /\ m.chargeLong >= market[o.market].chargeLong
      /\ m.chargeShort >= market[o.market].chargeShort
      /\ m.creditLong >= market[o.market].creditLong
      /\ m.creditShort >= market[o.market].creditShort
      /\ m.borrow >= market[o.market].borrow
  BY <1>2, <1>3, AccruedAt
<1> HIDE DEF o, key, pos, m
<1>6. epochPrice' \in [GpuIds -> Prices \cup {0}] /\ price \in Nat /\ price > 0
  BY <1>1, <1>3, ConsumeTyped
<1>7. /\ t.charged \in Nat /\ t.earned \in Nat
      /\ t.pos \in Position /\ Behind(m, t.pos, o.isLong)
      /\ t.pos.collateral = pos.collateral - t.charged
      /\ t.pos.earnedFunding = pos.earnedFunding + t.earned
  BY <1>3, <1>4, <1>5, TouchedFacts
<1> HIDE DEF t
<1>8. openFee \in Nat
  <2>1. m.params.openFeeBps \in Nat
    BY <1>5 DEF Market, MarketParams
  <2> QED
    BY <1>3, <2>1, FeeNat
<1>9. entry \in Nat \ {0}
  BY <1>3, <1>4, <1>6, EntryPositive
<1> HIDE DEF entry, openFee
<1>10. newSize \in Nat /\ PosPart(uPnl) \in Nat
  <2>1. newSize \in Nat
    BY <1>3, <1>4
  <2> HIDE DEF newSize
  <2>2. uPnl \in Int
    BY <1>3, <1>6, <1>9, <2>1, PnlInt
  <2> QED
    BY <2>1, <2>2 DEF PosPart
<1>11. /\ collateral \in Nat
       /\ collateral = pos.collateral - t.charged + o.collateral - openFee
  <2>1. t.pos.collateral \in Nat
    BY <1>7 DEF Position
  <2> QED
    BY <1>1, <1>3, <1>4, <1>7, <1>8, <2>1
<1> HIDE DEF newSize, uPnl, collateral
<1>12. /\ after \in Position /\ after.size = newSize /\ after.collateral = collateral
       /\ after.entry = entry /\ after.reserveShare = PosPart(uPnl)
       /\ after.earnedFunding = t.pos.earnedFunding /\ Behind(m, after, o.isLong)
  <2>1. entry \in Nat
    BY <1>9
  <2> DEFINE share == PosPart(uPnl)
             p == t.pos
             r == [p EXCEPT !.size = newSize, !.collateral = collateral]
  <2>2. share \in Nat /\ p \in Position /\ Behind(m, p, o.isLong)
    BY <1>7, <1>10
  <2>3. newSize \in Nat /\ collateral \in Nat
    BY <1>10, <1>11
  <2>4. after = [r EXCEPT !.entry = entry, !.reserveShare = share]
    BY <2>2 DEF Position
  <2> HIDE DEF share, p, after
  <2>5. /\ r \in Position /\ r.size = newSize /\ r.collateral = collateral
        /\ r.earnedFunding = p.earnedFunding /\ Behind(m, r, o.isLong)
    BY <2>2, <2>3 DEF Position, Behind
  <2> HIDE DEF r
  <2>6. /\ after \in Position /\ after.size = newSize /\ after.collateral = collateral
        /\ after.entry = entry /\ after.reserveShare = share
        /\ after.earnedFunding = p.earnedFunding /\ Behind(m, after, o.isLong)
    BY <2>1, <2>2, <2>4, <2>5 DEF Position, Behind
  <2> QED
    BY <2>6 DEF share, p
<1> HIDE DEF after
<1>13. /\ n \in Market
       /\ n.openLong = m.openLong + IF o.isLong THEN o.size ELSE 0
       /\ n.openShort = m.openShort + IF o.isLong THEN 0 ELSE o.size
       /\ n.chargeLong = m.chargeLong /\ n.chargeShort = m.chargeShort
       /\ n.creditLong = m.creditLong /\ n.creditShort = m.creditShort
       /\ n.borrow = m.borrow
       /\ Behind(m, after, o.isLong) => Behind(n, after, o.isLong)
  <2>1. o.size \in Int /\ 0 <= o.size + IF o.isLong THEN m.openLong ELSE m.openShort
    BY <1>3, <1>5 DEF Market
  <2> QED
    BY <1>3, <1>5, <2>1, OpenInterestAdded
<1> HIDE DEF n
<1>14. /\ market \in [GpuIds -> Market] /\ positions \in [PositionKeys -> Position]
       /\ gusd \in [engine: Nat, vault: Nat, ledger: Nat, wallets: Nat, stray: Nat]
       /\ totals \in [totalClaimable: Nat, reservedPnl: Nat, totalEarnedFunding: Nat]
  BY DEF Core, TypeOK
<1>15. /\ totals' \in [totalClaimable: Nat, reservedPnl: Nat, totalEarnedFunding: Nat]
       /\ totals'.totalClaimable = totals.totalClaimable
       /\ totals'.reservedPnl = totals.reservedPnl - pos.reserveShare + PosPart(uPnl)
       /\ totals'.totalEarnedFunding = totals.totalEarnedFunding + t.earned
  <2> DEFINE ef == totals.totalEarnedFunding + t.earned
             rp == totals.reservedPnl - pos.reserveShare + PosPart(uPnl)
  <2>1. ef \in Nat /\ rp \in Nat
    BY <1>4, <1>7, <1>10, <1>14
  <2>2. totals' = [totals EXCEPT !.totalEarnedFunding = ef, !.reservedPnl = rp]
    BY <1>1, <1>14 DEF setReserveShare
  <2> HIDE DEF ef, rp
  <2>3. /\ totals' \in [totalClaimable: Nat, reservedPnl: Nat, totalEarnedFunding: Nat]
        /\ totals'.totalClaimable = totals.totalClaimable
        /\ totals'.reservedPnl = rp /\ totals'.totalEarnedFunding = ef
    BY <1>14, <2>1, <2>2
  <2> QED
    BY <2>3 DEF ef, rp
<1>16. totals'.totalClaimable = SumOf(claimableOf')
  BY <1>1, <1>15 DEF Core, TotalsAreSums
<1>17. /\ gusd' \in [engine: Nat, vault: Nat, ledger: Nat, wallets: Nat, stray: Nat]
       /\ gusd'.engine = gusd.engine - o.fee - openFee - t.charged
  <2> DEFINE e == gusd.engine - o.fee - openFee - t.charged
             v == gusd.vault + t.charged
             l == gusd.ledger + openFee
             w == gusd.wallets + o.fee
  <2>1. e \in Nat /\ v \in Nat /\ l \in Nat /\ w \in Nat
    BY <1>2, <1>3, <1>4, <1>7, <1>8, <1>11, <1>14
  <2>2. gusd' = [gusd EXCEPT !.engine = e, !.vault = v, !.ledger = l, !.wallets = w]
    BY <1>1
  <2> HIDE DEF e, v, l, w
  <2>3. gusd' \in [engine: Nat, vault: Nat, ledger: Nat, wallets: Nat, stray: Nat] /\ gusd'.engine = e
    BY <1>14, <2>1, <2>2, BalancesTyped
  <2> QED
    BY <2>3 DEF e
<1>18. /\ positions' \in [PositionKeys -> Position] /\ positions'[key] = after
       /\ \A k \in PositionKeys \ {key} : positions'[k] = positions[k]
  BY <1>1, <1>2, <1>12, <1>14
<1>19. market' \in [GpuIds -> Market]
  BY <1>1, <1>3, <1>13, <1>14
<1>20. perpReserved' \in Nat
  BY <1>1, <1>15 DEF reservation
<1>21. TypeOK'
  BY <1>1, <1>2, <1>6, <1>15, <1>17, <1>18, <1>19, <1>20 DEF Core, TypeOK, adminVars
<1>22. WellFormed'
  <2>1. \A k \in PositionKeys : positions'[k].size > 0 => positions'[k].entry > 0
    BY <1>9, <1>12, <1>18 DEF Core, WellFormed
  <2> QED
    BY <1>1, <1>2, <2>1 DEF WellFormed
<1>23. /\ n.openLong = market[key[2]].openLong
            + IF key[3] THEN positions'[key].size - positions[key].size ELSE 0
       /\ n.openShort = market[key[2]].openShort
            + IF key[3] THEN 0 ELSE positions'[key].size - positions[key].size
  <2>1. positions'[key].size - positions[key].size = o.size
    BY <1>3, <1>4, <1>12, <1>18 DEF pos, newSize
  <2> QED
    BY <1>3, <1>5, <1>13, <2>1
<1>24. gusd'.engine = SumOf(openCollateral) - positions[key].collateral
                        + positions'[key].collateral + SumOf(pendingEscrow)'
  BY <1>2, <1>3, <1>4, <1>7, <1>8, <1>11, <1>12, <1>17, <1>18 DEF pos
<1>25. /\ totals'.reservedPnl = totals.reservedPnl - positions[key].reserveShare
                                  + positions'[key].reserveShare
       /\ totals'.totalEarnedFunding = totals.totalEarnedFunding - positions[key].earnedFunding
                                         + positions'[key].earnedFunding
  <2>1. positions'[key].earnedFunding = pos.earnedFunding + t.earned
    BY <1>7, <1>12, <1>18
  <2>2. totals.totalEarnedFunding \in Nat
    BY <1>14
  <2> QED
    BY <1>4, <1>7, <1>12, <1>15, <1>18, <2>1, <2>2 DEF pos
<1>26. /\ n.chargeLong >= market[key[2]].chargeLong /\ n.chargeShort >= market[key[2]].chargeShort
       /\ n.creditLong >= market[key[2]].creditLong /\ n.creditShort >= market[key[2]].creditShort
       /\ n.borrow >= market[key[2]].borrow /\ market' = [market EXCEPT ![key[2]] = n]
  BY <1>1, <1>3, <1>5, <1>13
<1>27. positions'[key].size > 0 => Behind(n, positions'[key], key[3])
  BY <1>3, <1>12, <1>13, <1>18
<1> QED
  BY <1>1, <1>2, <1>13, <1>16, <1>18, <1>21, <1>22, <1>23, <1>24, <1>25, <1>26, <1>27,
     SettlementStep

-----------------------------------------------------------------------------
(* Stuttering changes nothing the invariant reads.                         *)
LEMMA StutterStep ==
  ASSUME Core, UNCHANGED vars
  PROVE  Core'
<1>1. /\ market' = market /\ gusd' = gusd
      /\ UNCHANGED <<now, engineVars, adminVars, epochPrice, vaultVars, gusd>>
      /\ UNCHANGED <<orders, orderNonce, positions, claimableOf, totals, perpReserved>>
  BY DEF vars, engineVars, vaultVars
<1>2. TypeOK'
  BY <1>1 DEF Core, TypeOK, engineVars, adminVars, vaultVars
<1> QED
  BY <1>1, <1>2, QuietStep, SameMarkets DEF Core

(* Every step of the engine, the traders, the keepers, the owner, the LPs  *)
(* and the clock preserves the inductive invariant.                        *)
LEMMA CoreNext ==
  ASSUME Core, [Next]_vars
  PROVE  Core'
<1>1. CASE OwnerStep
  <2>1. CASE \E g \in GpuIds, p \in ParamChoices : createMarket(g, p) \/ setMarketParams(g, p)
    BY <2>1, OwnerMarkets
  <2>2. CASE \E g \in GpuIds, b \in BOOLEAN : setMarketEnabled(g, b)
    BY <2>2, OwnerMarkets
  <2>3. CASE \/ \E d \in Delays : setMinOrderDelay(d)
             \/ \E c \in Caps : setEngineMaxWithdrawPerBlock(c)
             \/ pause
             \/ unpause
    BY <2>3, OwnerSettings
  <2> QED
    BY <1>1, <2>1, <2>2, <2>3 DEF OwnerStep
<1>2. CASE TraderStep
  <2>1. CASE \E a \in Accounts, g \in GpuIds, l \in BOOLEAN, s \in Sizes,
               p \in LimitPrices, f \in ExecFees :
               \/ \E c \in Collaterals : createIncrease(a, g, l, s, c, p, f)
               \/ createDecrease(a, g, l, s, p, f)
    BY <2>1, MarketOrders
  <2>2. CASE \E a \in Accounts, g \in GpuIds, l \in BOOLEAN, s \in Sizes,
               p \in LimitPrices, f \in ExecFees, k \in TriggerKinds :
               createTrigger(a, g, l, k, s, p, f)
    BY <2>2, TriggerOrders
  <2>3. CASE \E id \in OrderIds : cancelOrder(id)
    BY <2>3, Cancellation
  <2>4. CASE \E a \in Accounts, x \in ClaimAmounts, to \in Payees : claim(a, x, to)
    BY <2>4, ClaimStep
  <2> QED
    BY <1>2, <2>1, <2>2, <2>3, <2>4, Zenon DEF TraderStep
<1>3. CASE KeeperStep
  <2>1. CASE \E p \in Prices, id \in OrderIds : executeIncrease(id, p)
    BY <2>1, IncreaseStep
  <2>2. CASE \E p \in Prices, id \in OrderIds : executeDecreaseGone(id, p)
    BY <2>2, Cancellation
  <2>3. CASE \E p \in Prices, id \in OrderIds : executeDecrease(id, p)
    BY <2>3, DecreaseStep
  <2>4. CASE \E p \in Prices, a \in Accounts, g \in GpuIds, l \in BOOLEAN : liquidate(a, g, l, p)
    BY <2>4, LiquidateStep
  <2> QED
    BY <1>3, <2>1, <2>2, <2>3, <2>4 DEF KeeperStep
<1>4. CASE EnvironmentStep
  <2>1. CASE \E x \in LpAmounts : VaultDeposit(x) \/ VaultRedeem(x)
    BY <2>1, VaultUsers
  <2>2. CASE \E dt \in BlockTimes : NextBlock(dt)
    BY <2>2, BlockStep
  <2> QED
    BY <1>4, <2>1, <2>2 DEF EnvironmentStep
<1>5. CASE UNCHANGED vars
  BY <1>5, StutterStep
<1> QED
  BY <1>1, <1>2, <1>3, <1>4, <1>5 DEF Next

(* The inductive invariant holds in every reachable state.                 *)
THEOREM CoreInvariant == Spec => []Core
<1>1. Init => Core
  BY CoreInit
<1>2. Core /\ [Next]_vars => Core'
  BY CoreNext
<1> QED
  BY <1>1, <1>2, PTL DEF Spec

(* Every amount stays natural: no checked subtraction of a settlement,     *)
(* cancellation or claim underflows, for every set of traders, markets,    *)
(* prices and parameters.                                                  *)
THEOREM TypeCorrect == Spec => []TypeOK
<1>1. Core => TypeOK
  BY DEF Core
<1> QED
  BY <1>1, CoreInvariant, PTL

(* The engine's books balance: its gUSD is exactly the open collateral and *)
(* the escrow of the pending orders, the three totals and each side's open *)
(* interest are the sums they stand for, and no checkpoint runs ahead of   *)
(* its market.                                                             *)
THEOREM BooksExact == Spec => []BooksBalance
<1>1. Core => BooksBalance
  BY DEF Core, BooksBalance
<1> QED
  BY <1>1, CoreInvariant, PTL

(* The reservation the vault withholds from redemptions is never stale.    *)
THEOREM ReservationFresh == Spec => []ReservationPushed
<1>1. Core => ReservationPushed
  BY DEF Core
<1> QED
  BY <1>1, CoreInvariant, PTL

-----------------------------------------------------------------------------
(* The trigger index, the accrual discipline and the vault's reserve       *)

(* TriggerIndexExact, one order at a time.                                 *)
Pending(k, id) == orders[id].status = "Pending" /\ TriggerKeyOf(orders[id]) = k
Index == \A k \in TriggerKeys, id \in OrderIds : Pending(k, id) <=> activeTrigger[k] = id

(* The two statements of the index agree.                                  *)
LEMMA IndexExact == TypeOK /\ Index => TriggerIndexExact
<1> SUFFICES ASSUME TypeOK, Index, NEW k \in TriggerKeys
             PROVE  {id \in OrderIds : orders[id].status = "Pending"
                                         /\ TriggerKeyOf(orders[id]) = k}
                      = {activeTrigger[k]} \ {0}
  BY DEF TriggerIndexExact
<1>1. activeTrigger[k] \in 0..MaxOrders /\ MaxOrders \in Nat
  BY PerpConstants DEF TypeOK
<1>2. \A id \in OrderIds : Pending(k, id) <=> activeTrigger[k] = id
  BY DEF Index
<1>3. \A id : id \in OrderIds <=> id \in 0..MaxOrders /\ id # 0
  BY <1>1 DEF OrderIds
<1> QED
  BY <1>1, <1>2, <1>3, Zenon DEF Pending

(* An indexed order has the kind of its key.                               *)
LEMMA KeyKind ==
  ASSUME NEW o, TriggerKeyOf(o) \in TriggerKeys
  PROVE  o.kind \in TriggerKinds
BY DEF TriggerKeyOf, TriggerKeys

(* A trigger order's key is a key.                                         *)
LEMMA KeyTyped ==
  ASSUME NEW o \in Order, o.kind \in TriggerKinds
  PROVE  TriggerKeyOf(o) \in TriggerKeys
BY DEF TriggerKeyOf, KeyOf, TriggerKeys, PositionKeys, Order

(* No entry of the index is order id once id is spent and its entry is     *)
(* cleared: the other entries never held it.                               *)
LEMMA SpentKeepsIndex ==
  ASSUME TypeOK, Index, NEW id \in OrderIds, orders[id].status = "Pending",
         NEW st, st # "Pending", orders' = [orders EXCEPT ![id].status = st],
         activeTrigger' = withoutTrigger(orders[id])
  PROVE  Index'
<1> DEFINE o == orders[id]
           key == TriggerKeyOf(o)
<1>1. o \in Order /\ id # 0 /\ activeTrigger \in [TriggerKeys -> 0..MaxOrders]
  <2>1. orders \in [OrderIds -> Order] /\ activeTrigger \in [TriggerKeys -> 0..MaxOrders]
    BY DEF TypeOK
  <2>2. id # 0
    BY DEF OrderIds
  <2> QED BY <2>1, <2>2
<1>2. o.kind \in TriggerKinds => key \in TriggerKeys
  BY <1>1, KeyTyped
<1>3. \A k \in TriggerKeys : activeTrigger[k] = id => k = key /\ o.kind \in TriggerKinds
  BY KeyKind DEF Index, Pending
<1>4. o.kind \in TriggerKinds => activeTrigger[key] = id
  BY <1>2 DEF Index, Pending
<1>5. orders'[id].status # "Pending"
  BY DEF TypeOK
<1>6. \A j \in OrderIds : j # id => orders'[j] = orders[j]
  BY DEF TypeOK
<1>7. activeTrigger' = IF o.kind \in TriggerKinds
                       THEN [activeTrigger EXCEPT ![key] = 0] ELSE activeTrigger
  BY DEF withoutTrigger
<1> HIDE DEF o, key
<1> SUFFICES ASSUME NEW k \in TriggerKeys, NEW j \in OrderIds
             PROVE  Pending(k, j)' <=> activeTrigger'[k] = j
  BY DEF Index
<1>8. 0 \notin OrderIds
  BY DEF OrderIds
<1>9. CASE j = id
  <2>1. activeTrigger'[k] # id
    BY <1>1, <1>2, <1>3, <1>4, <1>7
  <2> QED BY <1>5, <1>9, <2>1 DEF Pending
<1>10. CASE j # id
  <2>1. Pending(k, j)' <=> Pending(k, j)
    BY <1>6, <1>10 DEF Pending
  <2>2. Pending(k, j) <=> activeTrigger[k] = j
    BY DEF Index
  <2>3. activeTrigger'[k] = j <=> activeTrigger[k] = j
    BY <1>1, <1>2, <1>4, <1>7, <1>8, <1>10
  <2> QED BY <2>1, <2>2, <2>3
<1> QED BY <1>9, <1>10

(* A new market order is no trigger, and its number was not in use.        *)
LEMMA MarketOrderKeepsIndex ==
  ASSUME TypeOK, WellFormed, Index, NEW o, o.kind \notin TriggerKinds, orderNonce < MaxOrders,
         orders' = [orders EXCEPT ![orderNonce + 1] = o], UNCHANGED activeTrigger
  PROVE  Index'
<1> DEFINE n == orderNonce + 1
<1>1. n \in OrderIds /\ orders[n].status = "None"
  <2>1. orderNonce \in 0..MaxOrders /\ MaxOrders \in Nat
    BY PerpConstants DEF TypeOK
  <2>2. n \in OrderIds /\ ~(n <= orderNonce)
    BY <2>1 DEF OrderIds
  <2> QED BY <2>2 DEF WellFormed
<1>2. orders' = [orders EXCEPT ![n] = o] /\ orders \in [OrderIds -> Order]
  BY DEF TypeOK
<1> HIDE DEF n
<1> SUFFICES ASSUME NEW k \in TriggerKeys, NEW j \in OrderIds
             PROVE  Pending(k, j)' <=> activeTrigger[k] = j
  BY DEF Index
<1>3. Pending(k, j) <=> activeTrigger[k] = j
  BY DEF Index
<1>4. CASE j = n
  <2>1. ~Pending(k, j)
    BY <1>1, <1>4 DEF Pending
  <2>2. orders'[j] = o
    BY <1>2, <1>4
  <2>3. ~Pending(k, j)'
    BY <2>2, KeyKind DEF Pending
  <2> QED BY <1>3, <2>1, <2>3
<1>5. CASE j # n
  <2>1. orders'[j] = orders[j]
    BY <1>2, <1>5
  <2> QED BY <1>3, <2>1 DEF Pending
<1> QED BY <1>4, <1>5

(* A new trigger takes the place of the one it cancels.                    *)
LEMMA TriggerKeepsIndex ==
  ASSUME TypeOK, WellFormed, Index,
         NEW a \in Accounts, NEW g \in GpuIds, NEW l \in BOOLEAN, NEW kind \in TriggerKinds,
         NEW s, NEW p, NEW f, createTrigger(a, g, l, kind, s, p, f)
  PROVE  Index'
<1> DEFINE o == NewOrder(a, g, l, kind, s, 0, 0, p, f)
           key == TriggerKeyOf(o)
           old == activeTrigger[key]
           n == orderNonce + 1
           kept == IF old # 0 THEN cancelled(orders, old) ELSE orders
<1>1. key \in TriggerKeys /\ o.status = "Pending"
  <2>1. /\ o.account = a /\ o.market = g /\ o.isLong = l /\ o.kind = kind
        /\ o.status = "Pending"
    BY DEF NewOrder
  <2> HIDE DEF o
  <2>2. key = <<<<a, g, l>>, kind>>
    BY <2>1 DEF TriggerKeyOf, KeyOf
  <2> QED BY <2>1, <2>2 DEF TriggerKeys, PositionKeys
<1>2. n \in OrderIds /\ orders[n].status = "None"
  <2>1. orderNonce \in 0..MaxOrders /\ MaxOrders \in Nat /\ orderNonce < MaxOrders
    BY PerpConstants DEF TypeOK, createTrigger, Enter
  <2>2. n \in OrderIds /\ ~(n <= orderNonce)
    BY <2>1 DEF OrderIds
  <2> QED BY <2>2 DEF WellFormed
<1>3. orders' = [kept EXCEPT ![n] = o] /\ activeTrigger' = [activeTrigger EXCEPT ![key] = n]
  BY DEF createTrigger
<1>4. orders \in [OrderIds -> Order] /\ activeTrigger \in [TriggerKeys -> 0..MaxOrders]
      /\ 0 \notin OrderIds /\ (old = 0 \/ old \in OrderIds)
  <2>1. orders \in [OrderIds -> Order] /\ activeTrigger \in [TriggerKeys -> 0..MaxOrders]
    BY DEF TypeOK
  <2> HIDE DEF key
  <2>2. old \in 0..MaxOrders /\ MaxOrders \in Nat
    BY <1>1, <2>1, PerpConstants
  <2> HIDE DEF old
  <2>3. 0 \notin OrderIds /\ (old = 0 \/ old \in OrderIds)
    BY <2>2 DEF OrderIds
  <2> QED BY <2>1, <2>3
<1> HIDE DEF o, key, n
<1>5. old # n
  BY <1>1, <1>2, <1>4 DEF Index, Pending
<1>6. orders'[n] = o
  BY <1>2, <1>3, <1>4 DEF cancelled
<1>7. \A j \in OrderIds : j # n /\ j # old => orders'[j] = orders[j]
  BY <1>2, <1>3, <1>4 DEF cancelled
<1>8. old # 0 => orders'[old].status = "Cancelled"
  <2> HIDE DEF old
  <2> SUFFICES ASSUME old # 0 PROVE orders'[old].status = "Cancelled"
    OBVIOUS
  <2>1. orders[old] \in Order /\ orders' = [cancelled(orders, old) EXCEPT ![n] = o]
    BY <1>3, <1>4
  <2>2. cancelled(orders, old)[old] = [orders[old] EXCEPT !.status = "Cancelled"]
    BY <1>4 DEF cancelled
  <2>3. [orders[old] EXCEPT !.status = "Cancelled"].status = "Cancelled"
    BY <2>1 DEF Order
  <2>4. orders'[old] = cancelled(orders, old)[old]
    BY <1>2, <1>4, <1>5, <2>1 DEF cancelled
  <2> QED BY <2>2, <2>3, <2>4
<1> HIDE DEF old
<1> SUFFICES ASSUME NEW k \in TriggerKeys, NEW j \in OrderIds
             PROVE  Pending(k, j)' <=> activeTrigger'[k] = j
  BY DEF Index
<1>9. Pending(k, j) <=> activeTrigger[k] = j
  BY DEF Index
<1>10. CASE j = n
  <2>1. Pending(k, j)' <=> k = key
    BY <1>1, <1>6, <1>10 DEF Pending, key
  <2>2. activeTrigger[k] # n
    BY <1>2, <1>9, <1>10 DEF Pending
  <2> QED BY <1>1, <1>3, <1>4, <1>10, <2>1, <2>2
<1>11. CASE j = old
  <2>1. old # 0 /\ ~Pending(k, j)'
    BY <1>4, <1>8, <1>11 DEF Pending
  <2>2. Pending(key, j)
    BY <1>1, <1>11 DEF Index, old
  <2>3. k # key => activeTrigger[k] # j
    BY <1>9, <2>2 DEF Pending
  <2> QED BY <1>1, <1>3, <1>4, <1>5, <1>11, <2>1, <2>3
<1>12. CASE j # n /\ j # old
  <2>1. orders'[j] = orders[j]
    BY <1>7, <1>12
  <2>2. Pending(k, j)' <=> Pending(k, j)
    BY <2>1 DEF Pending
  <2>3. activeTrigger'[k] = j <=> activeTrigger[k] = j
    BY <1>1, <1>3, <1>4, <1>12 DEF old
  <2> QED BY <1>9, <2>2, <2>3
<1> QED BY <1>10, <1>11, <1>12

(* Every step keeps the index.                                             *)
LEMMA IndexNext ==
  ASSUME Core, Index, [Next]_vars
  PROVE  Index'
<1>1. TypeOK /\ WellFormed
  BY DEF Core
<1>2. ASSUME UNCHANGED <<orders, activeTrigger>> PROVE Index'
  BY <1>2 DEF Index, Pending
<1>3. CASE OwnerStep \/ EnvironmentStep \/ UNCHANGED vars
  BY <1>2, <1>3
     DEF OwnerStep, EnvironmentStep, createMarket, setMarketParams, setMarketEnabled,
         setMinOrderDelay, setEngineMaxWithdrawPerBlock, pause, unpause, VaultDeposit,
         VaultRedeem, NextBlock, engineVars, vars
<1>4. ASSUME NEW a \in Accounts, NEW g \in GpuIds, NEW l \in BOOLEAN, NEW s \in Sizes,
             NEW p \in LimitPrices, NEW f \in ExecFees, NEW c \in Collaterals,
             createIncrease(a, g, l, s, c, p, f)
      PROVE  Index'
  <2> DEFINE o == NewOrder(a, g, l, "MarketIncrease", s, c, p, 0, f)
  <2>1. o.kind \notin TriggerKinds
    BY DEF NewOrder, TriggerKinds
  <2>2. orderNonce < MaxOrders /\ orders' = [orders EXCEPT ![orderNonce + 1] = o]
        /\ UNCHANGED activeTrigger
    BY <1>4 DEF createIncrease, Enter
  <2> HIDE DEF o
  <2> QED BY <1>1, <2>1, <2>2, MarketOrderKeepsIndex
<1>5. ASSUME NEW a \in Accounts, NEW g \in GpuIds, NEW l \in BOOLEAN, NEW s \in Sizes,
             NEW p \in LimitPrices, NEW f \in ExecFees, createDecrease(a, g, l, s, p, f)
      PROVE  Index'
  <2> DEFINE o == NewOrder(a, g, l, "MarketDecrease", s, 0, p, 0, f)
  <2>1. o.kind \notin TriggerKinds
    BY DEF NewOrder, TriggerKinds
  <2>2. orderNonce < MaxOrders /\ orders' = [orders EXCEPT ![orderNonce + 1] = o]
        /\ UNCHANGED activeTrigger
    BY <1>5 DEF createDecrease, Enter
  <2> HIDE DEF o
  <2> QED BY <1>1, <2>1, <2>2, MarketOrderKeepsIndex
<1>6. ASSUME NEW a \in Accounts, NEW g \in GpuIds, NEW l \in BOOLEAN, NEW s \in Sizes,
             NEW p \in LimitPrices, NEW f \in ExecFees, NEW kind \in TriggerKinds,
             createTrigger(a, g, l, kind, s, p, f)
      PROVE  Index'
  BY <1>1, <1>6, TriggerKeepsIndex
<1>7. ASSUME NEW id \in OrderIds, cancelOrder(id) PROVE Index'
  <2>1. orders[id].status = "Pending" /\ orders' = [orders EXCEPT ![id].status = "Cancelled"]
        /\ activeTrigger' = withoutTrigger(orders[id])
    BY <1>7 DEF cancelOrder, cancelled
  <2> QED BY <1>1, <2>1, SpentKeepsIndex
<1>8. ASSUME NEW a \in Accounts, NEW x \in ClaimAmounts, NEW to \in Payees, claim(a, x, to) PROVE Index'
  BY <1>2, <1>8 DEF claim
<1>9. ASSUME NEW id \in OrderIds, NEW p \in Prices, executeIncrease(id, p) PROVE Index'
  <2>1. orders[id].status = "Pending" /\ orders' = [orders EXCEPT ![id].status = "Executed"]
        /\ activeTrigger' = activeTrigger /\ orders[id].kind = "MarketIncrease"
    BY <1>9 DEF executeIncrease, Executable
  <2>2. activeTrigger' = withoutTrigger(orders[id])
    BY <2>1 DEF withoutTrigger, TriggerKinds
  <2> QED BY <1>1, <2>1, <2>2, SpentKeepsIndex
<1>10. ASSUME NEW id \in OrderIds, NEW p \in Prices, executeDecreaseGone(id, p) PROVE Index'
  <2>1. orders[id].status = "Pending" /\ orders' = [orders EXCEPT ![id].status = "Cancelled"]
        /\ activeTrigger' = withoutTrigger(orders[id])
    BY <1>10 DEF executeDecreaseGone, Executable, cancelled
  <2> QED BY <1>1, <2>1, SpentKeepsIndex
<1>11. ASSUME NEW id \in OrderIds, NEW p \in Prices, executeDecrease(id, p) PROVE Index'
  <2>1. orders[id].status = "Pending" /\ orders' = [orders EXCEPT ![id].status = "Executed"]
        /\ activeTrigger' = withoutTrigger(orders[id])
    BY <1>11 DEF executeDecrease, Executable
  <2> QED BY <1>1, <2>1, SpentKeepsIndex
<1>12. ASSUME NEW p \in Prices, NEW a \in Accounts, NEW g \in GpuIds, NEW l \in BOOLEAN,
              liquidate(a, g, l, p)
       PROVE  Index'
  BY <1>2, <1>12 DEF liquidate
<1>13. CASE TraderStep
  BY <1>4, <1>5, <1>6, <1>7, <1>8, <1>13, Zenon DEF TraderStep
<1>14. CASE KeeperStep
  BY <1>9, <1>10, <1>11, <1>12, <1>14, Zenon DEF KeeperStep
<1> QED BY <1>3, <1>13, <1>14 DEF Next

(* createOrder, cancelOrder, executeOrder and liquidate: _activeTrigger    *)
(* indexes exactly the pending stop losses and take profits.               *)
THEOREM TriggersIndexed == Spec => []TriggerIndexExact
<1>1. Init => Core /\ Index
  <2> SUFFICES ASSUME Init PROVE Core /\ Index
    OBVIOUS
  <2>1. Core
    BY CoreInit
  <2>2. ASSUME NEW k \in TriggerKeys, NEW id \in OrderIds
        PROVE  ~Pending(k, id) /\ activeTrigger[k] # id
    <3>1. orders[id].status = "None" /\ activeTrigger[k] = 0
      BY DEF Init, NoOrder
    <3> QED BY <3>1 DEF Pending, OrderIds
  <2> QED BY <2>1, <2>2 DEF Index
<1>2. Core /\ Index /\ [Next]_vars => Core' /\ Index'
  BY CoreNext, IndexNext
<1>3. Core /\ Index => TriggerIndexExact
  BY IndexExact DEF Core
<1> QED BY <1>1, <1>2, <1>3, PTL DEF Spec

-----------------------------------------------------------------------------
(* No market is stamped later than the current block.                      *)
Stamped == \A g \in GpuIds : market[g].updatedAt <= now

(* An accrual to the current block leaves the market stamped with it.      *)
LEMMA AccrueStamps ==
  ASSUME NEW m \in Market, NEW t \in Nat, m.updatedAt <= t
  PROVE  accrue(m, t).updatedAt = t
<1>1. CASE t <= m.updatedAt
  <2>1. accrue(m, t) = m /\ m.updatedAt \in Nat
    BY <1>1 DEF accrue, Market
  <2> QED BY <1>1, <2>1
<1>2. CASE ~(t <= m.updatedAt)
  BY <1>2 DEF accrue, Market
<1> QED BY <1>1, <1>2

(* What AccruedBeforeChange asks of one step.                              *)
Disciplined ==
  \A g \in GpuIds :
    \/ market'[g].updatedAt = now
    \/ /\ market'[g].params = market[g].params
       /\ market'[g].openLong = market[g].openLong
       /\ market'[g].openShort = market[g].openShort

(* A step that rewrites one market, stamped now, is disciplined.           *)
LEMMA OneMarketStamped ==
  ASSUME Core, Stamped, NEW g \in GpuIds, NEW n, n.updatedAt = now,
         market' = [market EXCEPT ![g] = n], now' = now
  PROVE  Stamped' /\ Disciplined
<1>1. market \in [GpuIds -> Market] /\ now \in Nat
  BY DEF Core, TypeOK
<1>2. \A h \in GpuIds : market'[h] = IF h = g THEN n ELSE market[h]
  BY <1>1
<1>3. \A h \in GpuIds : market'[h].updatedAt = now \/ market'[h] = market[h]
  BY <1>2
<1>4. now <= now
  BY <1>1
<1> QED BY <1>2, <1>3, <1>4 DEF Stamped, Disciplined

(* The same, for the accrued market with a side's open interest moved.     *)
LEMMA AccruedStamped ==
  ASSUME Core, Stamped, NEW g \in GpuIds, NEW isLong \in BOOLEAN, NEW delta
  PROVE  /\ accrue(market[g], now).updatedAt = now
         /\ addOpenInterest(accrue(market[g], now), isLong, delta).updatedAt = now
<1>1. market[g] \in Market /\ now \in Nat /\ market[g].updatedAt <= now
  BY DEF Core, TypeOK, Stamped
<1> DEFINE n == accrue(market[g], now)
<1>2. n.updatedAt = now
  BY <1>1, AccrueStamps
<1>3. n \in Market
  BY <1>1, AccrueFacts
<1> HIDE DEF n
<1>4. addOpenInterest(n, isLong, delta).updatedAt = now
  BY <1>2, <1>3 DEF addOpenInterest, Market
<1> QED BY <1>2, <1>4 DEF n

(* Every step keeps the stamps and the discipline.                         *)
LEMMA AccrualStep ==
  ASSUME Core, Stamped, [Next]_vars
  PROVE  Stamped' /\ Disciplined
<1>1. market \in [GpuIds -> Market] /\ now \in Nat
  BY DEF Core, TypeOK
<1>2. ASSUME market' = market, now' \in Nat, now' >= now PROVE Stamped' /\ Disciplined
  <2>1. \A h \in GpuIds : market[h].updatedAt \in Nat /\ market[h].updatedAt <= now
    BY <1>1 DEF Stamped, Market
  <2> QED BY <1>1, <1>2, <2>1 DEF Stamped, Disciplined
<1>3. ASSUME NEW g \in GpuIds, NEW p \in ParamChoices, createMarket(g, p)
      PROVE  Stamped' /\ Disciplined
  <2> DEFINE n == [market[g] EXCEPT !.exists = TRUE, !.enabled = TRUE, !.params = p,
                                    !.updatedAt = now]
  <2>1. n.updatedAt = now
    BY <1>1 DEF Market
  <2>2. market' = [market EXCEPT ![g] = n] /\ now' = now
    BY <1>1, <1>3 DEF createMarket
  <2> HIDE DEF n
  <2> QED BY <2>1, <2>2, OneMarketStamped
<1>4. ASSUME NEW g \in GpuIds, NEW p \in ParamChoices, setMarketParams(g, p)
      PROVE  Stamped' /\ Disciplined
  <2> DEFINE m == accrue(market[g], now)
             n == [m EXCEPT !.params = p]
  <2>1. m \in Market /\ m.updatedAt = now
    BY <1>1, AccrueFacts, AccruedStamped
  <2>2. market' = [market EXCEPT ![g] = n] /\ now' = now
    BY <1>4 DEF setMarketParams
  <2> HIDE DEF m
  <2>3. n.updatedAt = now
    BY <2>1 DEF Market
  <2> HIDE DEF n
  <2> QED BY <2>2, <2>3, OneMarketStamped
<1>5. ASSUME NEW g \in GpuIds, NEW b \in BOOLEAN, setMarketEnabled(g, b)
      PROVE  Stamped' /\ Disciplined
  <2>1. market' = [market EXCEPT ![g].enabled = b] /\ now' = now
    BY <1>5 DEF setMarketEnabled
  <2>2. \A h \in GpuIds : /\ market'[h].updatedAt = market[h].updatedAt
                          /\ market'[h].params = market[h].params
                          /\ market'[h].openLong = market[h].openLong
                          /\ market'[h].openShort = market[h].openShort
    BY <1>1, <2>1 DEF Market
  <2> QED BY <2>1, <2>2 DEF Stamped, Disciplined
<1>6. ASSUME NEW id \in OrderIds, NEW p \in Prices,
             executeIncrease(id, p) \/ executeDecrease(id, p) \/ executeDecreaseGone(id, p)
      PROVE  Stamped' /\ Disciplined
  <2> DEFINE o == orders[id]
             m == accrue(market[o.market], now)
  <2>1. o \in Order /\ o.market \in GpuIds /\ o.isLong \in BOOLEAN
    BY DEF Core, TypeOK, Order
  <2>2. PICK d : \/ market' = [market EXCEPT ![o.market] = addOpenInterest(m, o.isLong, d)]
                 \/ market' = [market EXCEPT ![o.market] = m]
    BY <1>6 DEF executeIncrease, executeDecrease, executeDecreaseGone
  <2>3. now' = now
    BY <1>6 DEF executeIncrease, executeDecrease, executeDecreaseGone
  <2>4. m.updatedAt = now /\ addOpenInterest(m, o.isLong, d).updatedAt = now
    BY <2>1, AccruedStamped
  <2> HIDE DEF m, o
  <2> QED BY <2>1, <2>2, <2>3, <2>4, OneMarketStamped
<1>7. ASSUME NEW p \in Prices, NEW a \in Accounts, NEW g \in GpuIds, NEW l \in BOOLEAN,
             liquidate(a, g, l, p)
      PROVE  Stamped' /\ Disciplined
  <2> DEFINE n == addOpenInterest(accrue(market[g], now), l, -positions[<<a, g, l>>].size)
  <2>1. market' = [market EXCEPT ![g] = n] /\ now' = now
    BY <1>7 DEF liquidate
  <2>2. n.updatedAt = now
    BY AccruedStamped
  <2> HIDE DEF n
  <2> QED BY <2>1, <2>2, OneMarketStamped
<1>8. CASE OwnerStep
  <2>1. CASE \/ \E d \in Delays : setMinOrderDelay(d)
             \/ \E c \in Caps : setEngineMaxWithdrawPerBlock(c)
             \/ pause
             \/ unpause
    <3>1. market' = market /\ now' = now
      BY <2>1 DEF setMinOrderDelay, setEngineMaxWithdrawPerBlock, pause, unpause, engineVars
    <3> QED BY <1>1, <1>2, <3>1
  <2> QED BY <1>3, <1>4, <1>5, <1>8, <2>1 DEF OwnerStep
<1>9. CASE TraderStep
  <2>1. ASSUME NEW a \in Accounts, NEW g \in GpuIds, NEW l \in BOOLEAN, NEW s \in Sizes,
               NEW p \in LimitPrices, NEW f \in ExecFees, NEW c \in Collaterals,
               createIncrease(a, g, l, s, c, p, f)
        PROVE  market' = market /\ now' = now
    BY <2>1 DEF createIncrease, Enter
  <2>2. ASSUME NEW a \in Accounts, NEW g \in GpuIds, NEW l \in BOOLEAN, NEW s \in Sizes,
               NEW p \in LimitPrices, NEW f \in ExecFees, createDecrease(a, g, l, s, p, f)
        PROVE  market' = market /\ now' = now
    BY <2>2 DEF createDecrease, Enter
  <2>3. ASSUME NEW a \in Accounts, NEW g \in GpuIds, NEW l \in BOOLEAN, NEW s \in Sizes,
               NEW p \in LimitPrices, NEW f \in ExecFees, NEW k \in TriggerKinds,
               createTrigger(a, g, l, k, s, p, f)
        PROVE  market' = market /\ now' = now
    BY <2>3 DEF createTrigger, Enter
  <2>4. ASSUME NEW id \in OrderIds, cancelOrder(id) PROVE market' = market /\ now' = now
    BY <2>4 DEF cancelOrder
  <2>5. ASSUME NEW a \in Accounts, NEW x \in ClaimAmounts, NEW to \in Payees, claim(a, x, to)
        PROVE  market' = market /\ now' = now
    BY <2>5 DEF claim
  <2>6. market' = market /\ now' = now
    BY <1>9, <2>1, <2>2, <2>3, <2>4, <2>5, Zenon DEF TraderStep
  <2> QED BY <1>1, <1>2, <2>6
<1>10. CASE KeeperStep
  BY <1>6, <1>7, <1>10 DEF KeeperStep
<1>11. CASE EnvironmentStep
  <2>1. ASSUME NEW x \in LpAmounts, VaultDeposit(x) \/ VaultRedeem(x)
        PROVE  Stamped' /\ Disciplined
    <3>1. market' = market /\ now' = now
      BY <2>1 DEF VaultDeposit, VaultRedeem, engineVars
    <3> QED BY <1>1, <1>2, <3>1
  <2>2. ASSUME NEW dt \in BlockTimes, NextBlock(dt) PROVE Stamped' /\ Disciplined
    <3>1. market' = market /\ now' = now + dt /\ dt \in Nat
      BY <2>2, PerpConstants DEF NextBlock, engineVars
    <3>2. now' \in Nat /\ now' >= now
      BY <1>1, <3>1
    <3> QED BY <1>2, <3>1, <3>2
  <2> QED BY <1>11, <2>1, <2>2 DEF EnvironmentStep
<1>12. CASE UNCHANGED vars
  <2>1. market' = market /\ now' = now
    BY <1>12 DEF vars, engineVars
  <2> QED BY <1>1, <1>2, <2>1
<1> QED BY <1>8, <1>9, <1>10, <1>11, <1>12 DEF Next

(* setMarketParams, fills and liquidations: no rate or open interest       *)
(* changes over a window that has not been accrued.                        *)
THEOREM AccrualFirst == Spec => AccruedBeforeChange
<1>1. Init => Core /\ Stamped
  <2>1. Init => Stamped
    BY DEF Init, Stamped, NoMarket
  <2> QED BY <2>1, CoreInit
<1>2. Core /\ Stamped /\ [Next]_vars => Core' /\ Stamped' /\ [Disciplined]_vars
  BY CoreNext, AccrualStep
<1>3. Spec => [][Disciplined]_vars
  BY <1>1, <1>2, PTL DEF Spec
<1> QED BY <1>3 DEF AccruedBeforeChange, Disciplined

-----------------------------------------------------------------------------
(* What RedemptionsKeepReserve asks of one step.                           *)
ReserveKept ==
  gusd'.vault < gusd.vault =>
    \/ gusd'.vault >= perpReserved
    \/ gusd.vault - gusd'.vault = totals.totalClaimable - totals'.totalClaimable

(* A step that takes nothing from the vault keeps the reserve.             *)
LEMMA VaultGains ==
  ASSUME gusd.vault \in Nat, gusd'.vault \in Nat, gusd'.vault >= gusd.vault
  PROVE  ReserveKept
BY DEF ReserveKept

(* A fill that closes pays the ledger out of what it releases.             *)
LEMMA DecreasePays ==
  ASSUME Core, NEW id \in OrderIds, NEW price \in Prices, executeDecrease(id, price)
  PROVE  gusd'.vault \in Nat /\ gusd'.vault >= gusd.vault
<1> DEFINE o == orders[id]
           key == KeyOf(o)
           pos == positions[key]
           m == accrue(market[o.market], now)
           delta == closedSize(o, pos)
           c == closeSlice(m, pos, o.isLong, delta, price)
<1>1. /\ pos.size > 0
      /\ gusd' = [gusd EXCEPT !.engine = gusd.engine - c.released - o.fee,
                              !.vault = gusd.vault + c.released - c.paidLedger,
                              !.ledger = gusd.ledger + c.paidLedger,
                              !.wallets = gusd.wallets + o.fee]
  BY DEF executeDecrease
<1>2. /\ o \in Order /\ o.market \in GpuIds /\ o.isLong \in BOOLEAN /\ o.size \in Nat
      /\ key \in PositionKeys
  BY DEF Core, TypeOK, Order, KeyOf, PositionKeys
<1>3. /\ pos \in Position /\ pos.size \in Nat /\ pos.entry > 0 /\ price \in Nat
      /\ market[o.market] \in Market /\ now \in Nat
      /\ gusd \in [engine: Nat, vault: Nat, ledger: Nat, wallets: Nat, stray: Nat]
  BY <1>1, <1>2, PerpConstants DEF Core, TypeOK, WellFormed, Position
<1>4. m \in Market
  BY <1>3, AccrueFacts
<1> HIDE DEF m, pos, o, key
<1>5. delta \in 1..pos.size
  BY <1>1, <1>2, <1>3 DEF closedSize, Lesser
<1> HIDE DEF delta
<1>6. c.released \in 0..pos.collateral /\ c.paidLedger \in 0..c.released
      /\ pos.collateral \in Nat
  <2>1. c.released \in 0..pos.collateral /\ c.paidLedger \in 0..c.released
    BY <1>2, <1>3, <1>4, <1>5, CloseFacts
  <2> QED BY <1>3, <2>1 DEF Position
<1> HIDE DEF c
<1>7. gusd'.vault = gusd.vault + c.released - c.paidLedger
  BY <1>1, <1>3
<1> QED BY <1>3, <1>6, <1>7

(* A fill that opens or adds pays the vault what the position owed.        *)
LEMMA IncreasePays ==
  ASSUME Core, NEW id \in OrderIds, NEW price \in Prices, executeIncrease(id, price)
  PROVE  gusd'.vault \in Nat /\ gusd'.vault >= gusd.vault
<1> DEFINE o == orders[id]
           key == KeyOf(o)
           m == accrue(market[o.market], now)
           t == touched(m, positions[key], o.isLong)
           openFee == feeBps(o.size, m.params.openFeeBps)
<1>1. gusd' = [gusd EXCEPT !.engine = gusd.engine - o.fee - openFee - t.charged,
                           !.vault = gusd.vault + t.charged,
                           !.ledger = gusd.ledger + openFee,
                           !.wallets = gusd.wallets + o.fee]
  BY DEF executeIncrease
<1>2. o \in Order /\ o.market \in GpuIds /\ o.isLong \in BOOLEAN /\ key \in PositionKeys
  BY DEF Core, TypeOK, Order, KeyOf, PositionKeys
<1>3. /\ positions[key] \in Position /\ market[o.market] \in Market /\ now \in Nat
      /\ gusd \in [engine: Nat, vault: Nat, ledger: Nat, wallets: Nat, stray: Nat]
  BY <1>2 DEF Core, TypeOK
<1>4. m \in Market
  BY <1>3, AccrueFacts
<1> HIDE DEF m, key, o
<1>5. t.charged \in Nat
  BY <1>2, <1>3, <1>4, TouchedFacts
<1> HIDE DEF t, openFee
<1> QED BY <1>1, <1>3, <1>5

(* A liquidation pays its fee out of the collateral it moves.              *)
LEMMA LiquidationPays ==
  ASSUME Core, NEW a \in Accounts, NEW g \in GpuIds, NEW l \in BOOLEAN, NEW price \in Prices,
         liquidate(a, g, l, price)
  PROVE  gusd'.vault \in Nat /\ gusd'.vault >= gusd.vault
<1> DEFINE pos == positions[<<a, g, l>>]
           m == accrue(market[g], now)
           fee == feeBps(pos.size, m.params.liquidationFeeBps)
           liqFee == Lesser(fee, pos.collateral)
<1>1. gusd' = [gusd EXCEPT !.engine = gusd.engine - pos.collateral,
                           !.vault = gusd.vault + pos.collateral - liqFee,
                           !.wallets = gusd.wallets + liqFee]
  BY DEF liquidate
<1>2. /\ pos \in Position /\ market[g] \in Market /\ now \in Nat
      /\ gusd \in [engine: Nat, vault: Nat, ledger: Nat, wallets: Nat, stray: Nat]
  BY DEF Core, TypeOK, PositionKeys
<1>3. m \in Market
  BY <1>2, AccrueFacts
<1>4. pos.size \in Nat /\ pos.collateral \in Nat /\ m.params.liquidationFeeBps \in Nat
  BY <1>2, <1>3 DEF Position, Market, MarketParams
<1> HIDE DEF m, pos
<1>5. fee \in Nat
  BY <1>4, FeeNat
<1> HIDE DEF fee
<1>6. liqFee \in 0..pos.collateral
  BY <1>4, <1>5 DEF Lesser
<1> HIDE DEF liqFee
<1> QED BY <1>1, <1>2, <1>4, <1>6

(* Every step keeps what is reserved, or pays a claim out of it.           *)
LEMMA ReserveStep ==
  ASSUME Core, [Next]_vars
  PROVE  ReserveKept
<1>1. /\ gusd \in [engine: Nat, vault: Nat, ledger: Nat, wallets: Nat, stray: Nat] /\ gusd.vault \in Nat
      /\ totals \in [totalClaimable: Nat, reservedPnl: Nat, totalEarnedFunding: Nat]
      /\ perpReserved \in Nat
  BY DEF Core, TypeOK
<1>2. ASSUME gusd'.vault = gusd.vault PROVE ReserveKept
  BY <1>1, <1>2, VaultGains
<1>3. ASSUME NEW a \in Accounts, NEW x \in ClaimAmounts, NEW to \in Payees, claim(a, x, to) PROVE ReserveKept
  <2> DEFINE paid == payable(Lesser(x, claimableOf[a]))
             received(holder) == IF to = holder THEN paid ELSE 0
  <2>1. x \in Nat /\ claimableOf[a] \in Nat /\ withdrawCap \in Nat /\ withdrawn \in Nat
    BY PerpConstants DEF Core, TypeOK
  <2>2. paid \in Nat
    BY <1>1, <2>1 DEF payable, Lesser, PosPart
  <2>3. /\ gusd' = [gusd EXCEPT !.vault = gusd.vault - paid + received("vault"),
                                !.ledger = gusd.ledger + received("ledger"),
                                !.wallets = gusd.wallets + received("wallets"),
                                !.stray = gusd.stray + received("engine")]
        /\ totals' = [totals EXCEPT !.totalClaimable = totals.totalClaimable - paid]
    BY <1>3 DEF claim
  <2> HIDE DEF paid
  <2>4. /\ gusd'.vault = gusd.vault \/ gusd'.vault = gusd.vault - paid
        /\ totals'.totalClaimable = totals.totalClaimable - paid
    BY <1>1, <2>2, <2>3
  <2>5. totals.totalClaimable \in Nat
    BY <1>1
  <2> QED BY <1>1, <2>2, <2>4, <2>5 DEF ReserveKept
<1>4. ASSUME NEW x \in LpAmounts, VaultRedeem(x) PROVE ReserveKept
  <2>1. x \in Nat /\ x > 0 /\ x <= PosPart(gusd.vault - perpReserved)
        /\ gusd' = [gusd EXCEPT !.vault = gusd.vault - x, !.wallets = gusd.wallets + x]
    BY <1>4, PerpConstants DEF VaultRedeem, availableForRedemption
  <2>2. gusd'.vault = gusd.vault - x
    BY <1>1, <2>1
  <2>3. gusd'.vault >= perpReserved
    BY <1>1, <2>1, <2>2 DEF PosPart
  <2> QED BY <2>3 DEF ReserveKept
<1>5. ASSUME NEW x \in LpAmounts, VaultDeposit(x) PROVE ReserveKept
  <2>1. x \in Nat /\ gusd' = [gusd EXCEPT !.wallets = gusd.wallets - x, !.vault = gusd.vault + x]
    BY <1>5, PerpConstants DEF VaultDeposit
  <2>2. gusd'.vault = gusd.vault + x
    BY <1>1, <2>1
  <2> QED BY <1>1, <2>1, <2>2, VaultGains
<1>6. CASE OwnerStep
  <2>1. gusd' = gusd
    BY <1>6 DEF OwnerStep, createMarket, setMarketParams, setMarketEnabled, setMinOrderDelay,
                setEngineMaxWithdrawPerBlock, pause, unpause
  <2> QED BY <1>2, <2>1
<1>7. ASSUME NEW o, NEW refund, Enter(o, refund) PROVE ReserveKept
  <2>1. gusd' = [gusd EXCEPT !.wallets = gusd.wallets - escrow(o) + refund,
                             !.engine = gusd.engine + escrow(o) - refund]
    BY <1>7 DEF Enter
  <2> QED BY <1>1, <1>2, <2>1
<1>8. ASSUME NEW id \in OrderIds, NEW p \in Prices, cancelOrder(id) \/ executeDecreaseGone(id, p)
      PROVE  ReserveKept
  <2>1. gusd' = [gusd EXCEPT !.engine = gusd.engine - escrow(orders[id]),
                             !.wallets = gusd.wallets + escrow(orders[id])]
    BY <1>8 DEF cancelOrder, executeDecreaseGone
  <2> QED BY <1>1, <1>2, <2>1
<1>9. CASE KeeperStep
  <2>1. ASSUME NEW id \in OrderIds, NEW p \in Prices, executeIncrease(id, p) PROVE ReserveKept
    BY <1>1, <2>1, IncreasePays, VaultGains
  <2>2. ASSUME NEW id \in OrderIds, NEW p \in Prices, executeDecrease(id, p) PROVE ReserveKept
    BY <1>1, <2>2, DecreasePays, VaultGains
  <2>3. ASSUME NEW p \in Prices, NEW a \in Accounts, NEW g \in GpuIds, NEW l \in BOOLEAN,
               liquidate(a, g, l, p)
        PROVE  ReserveKept
    BY <1>1, <2>3, LiquidationPays, VaultGains
  <2> QED BY <1>8, <1>9, <2>1, <2>2, <2>3, Zenon DEF KeeperStep
<1>10. CASE EnvironmentStep
  <2>1. ASSUME NEW dt \in BlockTimes, NextBlock(dt) PROVE ReserveKept
    BY <1>2, <2>1 DEF NextBlock
  <2> QED BY <1>4, <1>5, <1>10, <2>1, Zenon DEF EnvironmentStep
<1>11. CASE UNCHANGED vars
  BY <1>2, <1>11 DEF vars
<1>12. CASE TraderStep
  <2>1. ASSUME NEW id \in OrderIds, cancelOrder(id) PROVE ReserveKept
    <3>1. gusd' = [gusd EXCEPT !.engine = gusd.engine - escrow(orders[id]),
                               !.wallets = gusd.wallets + escrow(orders[id])]
      BY <2>1 DEF cancelOrder
    <3> QED BY <1>1, <1>2, <3>1
  <2>2. ASSUME NEW a \in Accounts, NEW g \in GpuIds, NEW l \in BOOLEAN, NEW s \in Sizes,
               NEW p \in LimitPrices, NEW f \in ExecFees, NEW c \in Collaterals,
               createIncrease(a, g, l, s, c, p, f)
        PROVE  ReserveKept
    BY <1>7, <2>2 DEF createIncrease
  <2>3. ASSUME NEW a \in Accounts, NEW g \in GpuIds, NEW l \in BOOLEAN, NEW s \in Sizes,
               NEW p \in LimitPrices, NEW f \in ExecFees, createDecrease(a, g, l, s, p, f)
        PROVE  ReserveKept
    BY <1>7, <2>3 DEF createDecrease
  <2>4. ASSUME NEW a \in Accounts, NEW g \in GpuIds, NEW l \in BOOLEAN, NEW s \in Sizes,
               NEW p \in LimitPrices, NEW f \in ExecFees, NEW k \in TriggerKinds,
               createTrigger(a, g, l, k, s, p, f)
        PROVE  ReserveKept
    BY <1>7, <2>4 DEF createTrigger
  <2> QED BY <1>3, <1>12, <2>1, <2>2, <2>3, <2>4, Zenon DEF TraderStep
<1> QED BY <1>6, <1>9, <1>10, <1>11, <1>12 DEF Next

(* sgUSD._withdraw against the engine's reservation: an ordinary           *)
(* redemption leaves all that is reserved for traders; only a claim may    *)
(* take the balance below it, by what it pays.                             *)
THEOREM ReserveProtected == Spec => RedemptionsKeepReserve
<1>1. Core /\ [Next]_vars => [ReserveKept]_vars
  BY ReserveStep
<1>2. Spec => [][ReserveKept]_vars
  BY <1>1, CoreInvariant, PTL DEF Spec
<1> QED BY <1>2 DEF RedemptionsKeepReserve, ReserveKept

-----------------------------------------------------------------------------
(* What splitting an amount does to its roundings                          *)

(* Rounded up, two parts of an amount come to at least the whole.          *)
LEMMA CeilSplit ==
  ASSUME NEW x \in Nat, NEW y \in Nat, NEW b \in Nat, NEW c \in Nat \ {0}
  PROVE  MulDivCeil(x + y, b, c) <= MulDivCeil(x, b, c) + MulDivCeil(y, b, c)
<1> DEFINE u == MulDivCeil(x, b, c)
           v == MulDivCeil(y, b, c)
<1>0. u \in Nat /\ u * c >= x * b
  BY CeilAbove
<1>1. /\ u \in Nat /\ v \in Nat /\ x + y \in Nat
      /\ u * c >= x * b /\ v * c >= y * b
  <2>1. v \in Nat /\ v * c >= y * b
    BY CeilAbove
  <2> QED BY <1>0, <2>1
<1> HIDE DEF u, v
<1>2. (x + y) * b = x * b + y * b /\ (u + v) * c = u * c + v * c
  BY <1>1
<1>3. x * b \in Nat /\ y * b \in Nat /\ u * c \in Nat /\ v * c \in Nat
  BY <1>1
<1>4. (x + y) * b <= (u + v) * c
  BY <1>1, <1>2, <1>3
<1>5. u + v \in Nat
  BY <1>1
<1>6. MulDivCeil(x + y, b, c) <= u + v
  BY <1>1, <1>4, <1>5, CeilAbove
<1> QED BY <1>6 DEF u, v

(* Rounded down, they come to at most the whole.                           *)
LEMMA FloorSplit ==
  ASSUME NEW x \in Nat, NEW y \in Nat, NEW b \in Nat, NEW c \in Nat \ {0}
  PROVE  MulDivFloor(x, b, c) + MulDivFloor(y, b, c) <= MulDivFloor(x + y, b, c)
<1> DEFINE u == MulDivFloor(x, b, c)
           v == MulDivFloor(y, b, c)
           w == MulDivFloor(x + y, b, c)
<1>1. /\ u \in Nat /\ v \in Nat /\ w \in Nat /\ x + y \in Nat
      /\ u * c <= x * b /\ v * c <= y * b /\ (x + y) * b < w * c + c
  <2>1. u \in Nat /\ u * c <= x * b
    BY FloorBelow
  <2>2. v \in Nat /\ v * c <= y * b
    BY FloorBelow
  <2>3. x + y \in Nat
    OBVIOUS
  <2>4. w \in Nat /\ (x + y) * b < w * c + c
    BY <2>3, FloorBelow
  <2> QED BY <2>1, <2>2, <2>3, <2>4
<1> HIDE DEF u, v, w
<1>2. (x + y) * b = x * b + y * b /\ (u + v) * c = u * c + v * c /\ (w + 1) * c = w * c + c
  BY <1>1
<1>3. x * b \in Nat /\ y * b \in Nat /\ u * c \in Nat /\ v * c \in Nat /\ w * c \in Nat
  BY <1>1
<1>4. (u + v) * c < (w + 1) * c
  BY <1>1, <1>2, <1>3
<1>5. u + v < w + 1
  BY <1>1, <1>4, CancelFactor
<1> QED BY <1>1, <1>5 DEF u, v, w

(* Two parts of a position owe at least what the whole owes.               *)
LEMMA OwedSplit ==
  ASSUME NEW x \in Nat, NEW y \in Nat, NEW cum \in Nat, NEW ckpt \in Nat
  PROVE  fundingOwed(x + y, cum, ckpt) <= fundingOwed(x, cum, ckpt) + fundingOwed(y, cum, ckpt)
<1>1. CASE cum <= ckpt
  BY <1>1 DEF fundingOwed
<1>2. CASE ~(cum <= ckpt)
  <2> DEFINE b == cum - ckpt
  <2>1. b \in Nat
    BY <1>2
  <2>2. /\ fundingOwed(x + y, cum, ckpt) = MulDivCeil(x + y, b, SCALE)
        /\ fundingOwed(x, cum, ckpt) = MulDivCeil(x, b, SCALE)
        /\ fundingOwed(y, cum, ckpt) = MulDivCeil(y, b, SCALE)
    BY <1>2 DEF fundingOwed
  <2> HIDE DEF b
  <2> QED BY <2>1, <2>2, CeilSplit, DenominatorsPositive
<1> QED BY <1>1, <1>2

(* The gains of two parts, marked at one price, come to at most the        *)
(* position's.                                                             *)
LEMMA PnlSplit ==
  ASSUME NEW x \in Nat, NEW y \in Nat, NEW entry \in Nat \ {0}, NEW isLong \in BOOLEAN,
         NEW price \in Nat
  PROVE  pnl(x, entry, isLong, price) + pnl(y, entry, isLong, price)
           <= pnl(x + y, entry, isLong, price)
<1> DEFINE move == IF isLong THEN price - entry ELSE entry - price
<1>1. move \in Int
  OBVIOUS
<1>2. \A s \in Nat : pnl(s, entry, isLong, price) =
        CASE s = 0 \/ move = 0 -> 0
          [] s # 0 /\ move > 0 -> MulDivFloor(s, move, entry)
          [] s # 0 /\ move < 0 -> -MulDivCeil(s, -move, entry)
  BY DEF pnl
<1> HIDE DEF move
<1>3. pnl(x, entry, isLong, price) \in Int /\ pnl(y, entry, isLong, price) \in Int
  BY PnlInt
<1>4. CASE x = 0 \/ y = 0
  <2>1. pnl(0, entry, isLong, price) = 0
    BY <1>2
  <2>2. x + 0 = x /\ 0 + y = y
    OBVIOUS
  <2>3. CASE x = 0
    BY <1>3, <2>1, <2>2, <2>3
  <2>4. CASE y = 0
    BY <1>3, <2>1, <2>2, <2>4
  <2> QED BY <1>4, <2>3, <2>4
<1>5. CASE move = 0
  BY <1>2, <1>5
<1>6. CASE x # 0 /\ y # 0 /\ move > 0
  <2>1. /\ pnl(x, entry, isLong, price) = MulDivFloor(x, move, entry)
        /\ pnl(y, entry, isLong, price) = MulDivFloor(y, move, entry)
        /\ pnl(x + y, entry, isLong, price) = MulDivFloor(x + y, move, entry)
    BY <1>1, <1>2, <1>6
  <2>2. move \in Nat
    BY <1>1, <1>6
  <2> QED BY <2>1, <2>2, FloorSplit
<1>7. CASE x # 0 /\ y # 0 /\ move < 0
  <2> DEFINE b == -move
  <2>1. /\ pnl(x, entry, isLong, price) = -MulDivCeil(x, b, entry)
        /\ pnl(y, entry, isLong, price) = -MulDivCeil(y, b, entry)
        /\ pnl(x + y, entry, isLong, price) = -MulDivCeil(x + y, b, entry)
    BY <1>1, <1>2, <1>7
  <2>2. b \in Nat
    BY <1>1, <1>7
  <2> HIDE DEF b
  <2>3. /\ MulDivCeil(x, b, entry) \in Nat /\ MulDivCeil(y, b, entry) \in Nat
        /\ MulDivCeil(x + y, b, entry) \in Nat
    <3>1. x + y \in Nat
      OBVIOUS
    <3> QED BY <2>2, <3>1, MulDivNat
  <2>4. MulDivCeil(x + y, b, entry) <= MulDivCeil(x, b, entry) + MulDivCeil(y, b, entry)
    BY <2>2, CeilSplit
  <2> QED BY <2>1, <2>3, <2>4
<1> QED BY <1>1, <1>4, <1>5, <1>6, <1>7

(* A debt put back into the checkpoint of a smaller size is owed again in  *)
(* full, as long as the size stays below SCALE and the debt below what the *)
(* whole delta makes that size owe.                                        *)
LEMMA RewindKeeps ==
  ASSUME NEW cum \in Nat, NEW ckpt \in Nat, ckpt <= cum, NEW rem \in Nat,
         NEW left \in Nat \ {0}, left <= SCALE, rem <= fundingOwed(left, cum, ckpt)
  PROVE  rem <= fundingOwed(left, cum, rewound(cum, ckpt, rem, left))
<1> DEFINE q == MulDivFloor(rem, SCALE, left)
           b == cum - ckpt
           new == rewound(cum, ckpt, rem, left)
<1>1. /\ q \in Nat /\ rem * SCALE < q * left + left /\ SCALE \in Nat \ {0} /\ b \in Nat
  <2>1. SCALE \in Nat \ {0} /\ b \in Nat /\ SCALE \in Nat
    BY DenominatorsPositive
  <2>2. q \in Nat /\ rem * SCALE < q * left + left
    BY <2>1, FloorBelow
  <2> QED BY <2>1, <2>2
<1>2. new = IF q < b THEN cum - q ELSE cum - b
  BY DEF rewound, Lesser
<1> HIDE DEF q
<1>3. CASE ~(q < b)
  <2>1. new = ckpt
    BY <1>2, <1>3
  <2> QED BY <2>1 DEF new
<1>4. CASE q < b
  <2>1. new = cum - q /\ new \in Nat
    BY <1>1, <1>2, <1>4
  <2> HIDE DEF new, b
  <2>2. fundingOwed(left, cum, new) \in Nat
    BY <2>1, FundingNat
  <2>3. CASE q = 0
    <3>1. rem * SCALE < SCALE
      BY <1>1, <2>3
    <3>2. rem * SCALE < 1 * SCALE
      BY <1>1, <3>1
    <3>3. rem < 1
      BY <1>1, <3>2, CancelFactor
    <3> QED BY <2>2, <3>3 DEF new
  <2>4. CASE q # 0
    <3> DEFINE u == MulDivCeil(left, q, SCALE)
    <3>1. fundingOwed(left, cum, new) = u
      <4>1. ~(cum <= new) /\ cum - new = q
        BY <1>1, <2>1, <2>4
      <4> QED BY <4>1 DEF fundingOwed
    <3>2. u \in Nat /\ u * SCALE >= left * q
      BY <1>1, CeilAbove
    <3> HIDE DEF u
    <3>3. left * q = q * left /\ q * left \in Nat /\ u * SCALE \in Nat /\ rem * SCALE \in Nat
      BY <1>1, <3>2
    <3>4. rem * SCALE < u * SCALE + SCALE
      BY <1>1, <3>2, <3>3
    <3>5. (u + 1) * SCALE = u * SCALE + SCALE
      BY <1>1, <3>2
    <3>6. rem * SCALE < (u + 1) * SCALE
      BY <3>4, <3>5
    <3>7. rem < u + 1
      BY <1>1, <3>2, <3>6, CancelFactor
    <3> QED BY <3>1, <3>2, <3>7 DEF new
  <2> QED BY <2>3, <2>4
<1> QED BY <1>3, <1>4

(* A long's gain is its size in units of the entry, revalued, less itself. *)
LEMMA LongPnl ==
  ASSUME NEW s \in Nat, NEW e \in Nat \ {0}, NEW p \in Nat
  PROVE  pnl(s, e, TRUE, p) = MulDivFloor(s, p, e) - s
<1> DEFINE r == MulDivFloor(s, p, e)
<1>1. r \in Nat /\ r * e <= s * p /\ s * p < r * e + e
  BY FloorBelow
<1> HIDE DEF r
<1>2. s * p \in Nat /\ s * e \in Nat /\ r * e \in Nat
  BY <1>1
<1>3. (r + 1) * e = r * e + e
  BY <1>1
<1>4. ASSUME NEW g \in Int, g * e <= s * p - s * e, s * p - s * e < g * e + e
      PROVE  g = r - s
  <2>1. (g + s) * e = g * e + s * e /\ (g + s + 1) * e = g * e + s * e + e
    OBVIOUS
  <2> DEFINE ge == g * e
  <2>2. ge \in Int /\ (g + s) * e = ge + s * e /\ (g + s + 1) * e = ge + s * e + e
        /\ ge <= s * p - s * e /\ s * p - s * e < ge + e
    BY <1>4, <2>1
  <2> HIDE DEF ge
  <2>3. (g + s) * e < (r + 1) * e /\ r * e < (g + s + 1) * e
    BY <1>1, <1>2, <1>3, <2>2
  <2>4. g + s < r + 1 /\ r < g + s + 1
    BY <1>1, <2>3, CancelFactor
  <2> QED BY <1>1, <2>4
<1>5. CASE s = 0
  <2>1. 0 * p = 0 /\ 0 \div e = 0
    OBVIOUS
  <2>2. MulDivFloor(s, p, e) = 0
    BY <1>5, <2>1 DEF MulDivFloor
  <2> QED BY <1>5, <2>2 DEF pnl
<1>6. CASE s # 0 /\ p = e
  <2>1. pnl(s, e, TRUE, p) = 0
    BY <1>6 DEF pnl
  <2>2. 0 * e <= s * p - s * e /\ s * p - s * e < 0 * e + e
    BY <1>6
  <2>3. 0 = r - s
    BY <1>4, <2>2
  <2> QED BY <2>1, <2>3 DEF r
<1>7. CASE s # 0 /\ p > e
  <2> DEFINE g == MulDivFloor(s, p - e, e)
  <2>1. pnl(s, e, TRUE, p) = g
    BY <1>7 DEF pnl
  <2>2. p - e \in Nat
    BY <1>7
  <2>3. g \in Nat /\ g * e <= s * (p - e) /\ s * (p - e) < g * e + e
    BY <2>2, FloorBelow
  <2> HIDE DEF g
  <2>4. s * (p - e) = s * p - s * e
    OBVIOUS
  <2>5. g = r - s
    BY <1>4, <2>3, <2>4
  <2> QED BY <2>1, <2>5 DEF r
<1>8. CASE s # 0 /\ p < e
  <2> DEFINE u == MulDivCeil(s, e - p, e)
             g == -u
  <2>1. pnl(s, e, TRUE, p) = g
    <3>1. -(p - e) = e - p
      OBVIOUS
    <3> QED BY <1>8, <3>1 DEF pnl
  <2>2. e - p \in Nat
    BY <1>8
  <2>3. u \in Nat /\ u * e >= s * (e - p) /\ u * e < s * (e - p) + e
    BY <2>2, CeilAbove
  <2> HIDE DEF u
  <2>4. s * (e - p) = s * e - s * p /\ g * e = -(u * e) /\ g \in Int
    BY <2>3
  <2> DEFINE ue == u * e
  <2>5. ue \in Nat /\ ue >= s * e - s * p /\ ue < s * e - s * p + e /\ g * e = -ue
    BY <2>3, <2>4
  <2> HIDE DEF ue
  <2>6. g * e <= s * p - s * e /\ s * p - s * e < g * e + e
    BY <1>2, <2>5
  <2> HIDE DEF g
  <2>7. g = r - s
    BY <1>4, <2>3, <2>4, <2>6 DEF g
  <2> QED BY <2>1, <2>7 DEF r
<1>9. s = 0 \/ (s # 0 /\ p = e) \/ (s # 0 /\ p > e) \/ (s # 0 /\ p < e)
  OBVIOUS
<1> QED BY <1>5, <1>6, <1>7, <1>8, <1>9, Zenon

(* The revalued sizes at two entry prices against the whole at a price     *)
(* that averages them: the arithmetic mean is above the harmonic one.      *)
LEMMA MeansOrdered ==
  ASSUME NEW x \in Nat, NEW y \in Nat, NEW e \in Nat, NEW p \in Nat
  PROVE  (x * p + y * e) * (x * e + y * p) >= (x + y) * (x + y) * (p * e)
<1> DEFINE a == x * e
           b == y * p
           c == x * p
           d == y * e
           s == x * y
           q == p * e
<1>1. (c + d) * (a + b) = c * a + c * b + d * a + d * b
  OBVIOUS
<1>2. c * a = (x * x) * q /\ d * b = (y * y) * q /\ c * b = s * (p * p) /\ d * a = s * (e * e)
  OBVIOUS
<1>3. (x + y) * (x + y) = x * x + 2 * s + y * y
  OBVIOUS
<1>4. (x + y) * (x + y) * q = (x * x) * q + 2 * (s * q) + (y * y) * q
  BY <1>3
<1>5. (p - e) * (p - e) = p * p - 2 * q + e * e
  OBVIOUS
<1>6. (p - e) * (p - e) >= 0
  OBVIOUS
<1>7. s \in Nat /\ q \in Nat /\ p * p \in Nat /\ e * e \in Nat
  OBVIOUS
<1> DEFINE pp == p * p
           ee == e * e
<1>8. s * (pp + ee) >= s * (2 * q)
  <2>1. pp + ee >= 2 * q
    BY <1>5, <1>6, <1>7
  <2>2. pp + ee \in Nat /\ 2 * q \in Nat
    BY <1>7
  <2> HIDE DEF pp, ee, q, s
  <2> QED BY <1>7, <2>1, <2>2, ProductMonotone
<1>9. s * (pp + ee) = s * pp + s * ee /\ s * (2 * q) = 2 * (s * q)
  BY <1>7
<1>10. (c + d) * (a + b) = (x * x) * q + s * pp + s * ee + (y * y) * q
  BY <1>1, <1>2
<1>11. /\ (x * x) * q \in Nat /\ (y * y) * q \in Nat /\ s * pp \in Nat /\ s * ee \in Nat
       /\ s * q \in Nat
  BY <1>7
<1>12. (c + d) * (a + b) >= (x + y) * (x + y) * q
  <2> DEFINE l == (c + d) * (a + b)
             r == (x + y) * (x + y) * q
             u == (x * x) * q
             v == (y * y) * q
             w == s * pp
             z == s * ee
             t == s * q
  <2>1. l = u + w + z + v /\ r = u + 2 * t + v /\ w + z >= 2 * t
    BY <1>4, <1>8, <1>9, <1>10
  <2>2. u \in Nat /\ v \in Nat /\ w \in Nat /\ z \in Nat /\ t \in Nat
    BY <1>11
  <2> HIDE DEF l, r, u, v, w, z, t
  <2> QED BY <2>1, <2>2
<1> QED BY <1>12 DEF a, b, c, d, q

(* _newEntry for a long: at the fill price, the enlarged position is worth *)
(* no more than the old one was.                                           *)
LEMMA AverageHurtsLong ==
  ASSUME NEW x \in Nat, NEW y \in Nat, NEW e \in Nat \ {0}, NEW p \in Nat \ {0},
         x + y > 0
  PROVE  LET new == MulDivCeil(x * e + y * p, 1, x + y)
         IN  new > 0 /\ pnl(x + y, new, TRUE, p) <= pnl(x, e, TRUE, p)
<1> DEFINE n == x + y
           w == x * e + y * p
           new == MulDivCeil(w, 1, n)
           q == MulDivFloor(n, p, new)
           r == MulDivFloor(x, p, e)
           h == x * p + y * e
           k == r + 1 + y
<1>1. n \in Nat \ {0} /\ w \in Nat /\ h \in Nat
  BY ProductNat
<1>2. w > 0
  <2>1. x > 0 \/ y > 0
    OBVIOUS
  <2>2. x > 0 => x * e > 0
    OBVIOUS
  <2>3. y > 0 => y * p > 0
    OBVIOUS
  <2>4. x * e \in Nat /\ y * p \in Nat
    OBVIOUS
  <2> QED BY <2>1, <2>2, <2>3, <2>4
<1>3. new \in Nat /\ new * n >= w
  <2> HIDE DEF n, w
  <2> QED BY <1>1, CeilAbove
<1>4. new > 0
  <2> HIDE DEF new, n, w
  <2>1. new = 0 => new * n = 0
    BY <1>1
  <2> QED BY <1>1, <1>2, <1>3, <2>1
<1>5. h * w >= n * n * (p * e)
  BY MeansOrdered
<1> HIDE DEF new
<1>6. q \in Nat /\ q * new <= n * p
  <2> HIDE DEF n
  <2> QED BY <1>1, <1>3, <1>4, FloorBelow
<1>7. r \in Nat /\ x * p < r * e + e
  BY FloorBelow
<1> HIDE DEF q, r
<1>8. k \in Nat
  BY <1>7
<1>9. k * e >= h + 1
  <2>1. k * e = r * e + e + y * e
    BY <1>7
  <2>2. r * e \in Nat /\ y * e \in Nat /\ x * p \in Nat
    BY <1>7
  <2> QED BY <1>7, <2>1, <2>2
<1>10. ASSUME q >= k PROVE FALSE
  <2> HIDE DEF n, w, h, k
  <2>1. k * new <= n * p
    <3>1. k * new <= q * new
      BY <1>3, <1>6, <1>8, <1>10, ProductMonotone
    <3>2. k * new \in Nat /\ q * new \in Nat /\ n * p \in Nat
      BY <1>1, <1>3, <1>6, <1>8
    <3> QED BY <1>6, <3>1, <3>2
  <2>2. (k * new) * n <= (n * p) * n
    <3>1. k * new \in Nat /\ n * p \in Nat
      BY <1>1, <1>3, <1>8
    <3> QED BY <1>1, <2>1, <3>1, ProductMonotone
  <2>3. k * w <= k * (new * n)
    <3>1. new * n \in Nat
      BY <1>1, <1>3
    <3> QED BY <1>1, <1>3, <1>8, <3>1, ProductMonotone
  <2>4. (k * new) * n = k * (new * n) /\ (n * p) * n = n * n * p
    BY <1>1, <1>3, <1>8
  <2>5. k * w <= n * n * p
    <3>1. k * w \in Nat /\ k * (new * n) \in Nat /\ n * n * p \in Nat
      BY <1>1, <1>3, <1>8
    <3> QED BY <2>2, <2>3, <2>4, <3>1
  <2>6. (k * w) * e <= (n * n * p) * e
    <3>1. k * w \in Nat /\ n * n * p \in Nat
      BY <1>1, <1>8
    <3> QED BY <2>5, <3>1, ProductMonotone
  <2>7. (k * w) * e = (k * e) * w /\ (n * n * p) * e = n * n * (p * e)
    BY <1>1, <1>8
  <2>8. (h + 1) * w <= (k * e) * w
    <3>1. h + 1 \in Nat /\ k * e \in Nat
      BY <1>1, <1>8
    <3> QED BY <1>1, <1>9, <3>1, ProductMonotone
  <2>9. (h + 1) * w = h * w + w
    BY <1>1
  <2>10. h * w \in Nat /\ (k * e) * w \in Nat /\ n * n * (p * e) \in Nat
    BY <1>1, <1>8
  <2> QED BY <1>1, <1>2, <1>5, <2>6, <2>7, <2>8, <2>9, <2>10
<1>11. q < k
  BY <1>6, <1>8, <1>10
<1>12. pnl(n, new, TRUE, p) = q - n /\ pnl(x, e, TRUE, p) = r - x
  <2>1. pnl(n, new, TRUE, p) = MulDivFloor(n, p, new) - n
    <3> HIDE DEF n
    <3>1. n \in Nat /\ new \in Nat \ {0}
      BY <1>1, <1>3, <1>4
    <3> HIDE DEF n
    <3> QED BY <3>1, LongPnl
  <2>2. pnl(x, e, TRUE, p) = MulDivFloor(x, p, e) - x
    BY LongPnl
  <2> QED BY <2>1, <2>2 DEF q, r
<1>13. q - n <= r - x
  BY <1>6, <1>7, <1>11
<1> QED BY <1>4, <1>12, <1>13 DEF new

(* Averaging prices that are all the same gives that price.                *)
LEMMA AverageOfSame ==
  ASSUME NEW x \in Nat, NEW y \in Nat, NEW e \in Nat, x + y > 0
  PROVE  /\ MulDivFloor(x * e + y * e, 1, x + y) = e
         /\ MulDivCeil(x * e + y * e, 1, x + y) = e
<1> DEFINE n == x + y
<1>1. n \in Nat \ {0} /\ x * e + y * e = e * n
  OBVIOUS
<1> HIDE DEF n
<1>2. e * n \in Nat /\ (e * n) * 1 = e * n /\ e * n + n - 1 = e * n + (n - 1)
  BY <1>1
<1> DEFINE f == MulDivFloor(e * n, 1, n)
           c == MulDivCeil(e * n, 1, n)
<1>3. f \in Nat /\ f * n <= e * n /\ e * n < f * n + n
  BY <1>1, <1>2, FloorBelow
<1>4. c \in Nat /\ c * n >= e * n /\ c * n < e * n + n
  BY <1>1, <1>2, CeilAbove
<1> HIDE DEF f, c
<1>5. (f + 1) * n = f * n + n /\ (e + 1) * n = e * n + n
  BY <1>1, <1>3
<1>6. f <= e /\ e < f + 1
  BY <1>1, <1>3, <1>5, CancelFactor
<1>7. e <= c /\ c < e + 1
  BY <1>1, <1>4, <1>5, CancelFactor
<1> QED BY <1>1, <1>3, <1>4, <1>6, <1>7 DEF f, c, n

-----------------------------------------------------------------------------
(* What a fill does to debt and equity                                     *)

(* Open interest plays no part in what a position owes or is worth.        *)
LEMMA CumulativesAgree ==
  ASSUME NEW m \in Market, NEW side \in BOOLEAN, NEW d \in Int, NEW isLong \in BOOLEAN
  PROVE  LET n == addOpenInterest(m, side, d)
         IN  /\ chargeCum(n, isLong) = chargeCum(m, isLong)
             /\ creditCum(n, isLong) = creditCum(m, isLong)
             /\ n.borrow = m.borrow /\ n.params = m.params
BY DEF addOpenInterest, chargeCum, creditCum, Market

(* The equity in its parts.                                                *)
LEMMA EquityParts ==
  ASSUME NEW m, NEW pos, NEW isLong, NEW price
  PROVE  equityOf(m, pos, isLong, price) =
           pos.collateral + pnl(pos.size, pos.entry, isLong, price)
             + pos.earnedFunding + fundingEarned(pos.size, creditCum(m, isLong), pos.creditCkpt)
             - (fundingOwed(pos.size, chargeCum(m, isLong), pos.feeCkpt)
                  + fundingOwed(pos.size, m.borrow, pos.borrowCkpt))
BY DEF equityOf, settle

(* A debt is natural.                                                      *)
LEMMA DebtNat ==
  ASSUME NEW m \in Market, NEW pos \in Position, NEW isLong \in BOOLEAN, NEW size \in Nat
  PROVE  debt(m, pos, isLong, size) \in Nat
<1>1. pos.feeCkpt \in Nat /\ pos.borrowCkpt \in Nat
  BY DEF Position
<1>2. chargeCum(m, isLong) \in Nat /\ m.borrow \in Nat
  BY CumNat
<1>3. /\ fundingOwed(size, chargeCum(m, isLong), pos.feeCkpt) \in Nat
      /\ fundingOwed(size, m.borrow, pos.borrowCkpt) \in Nat
  BY <1>1, <1>2, FundingNat
<1> QED BY <1>3 DEF debt

(* What is left after a partial close, field by field.                     *)
LEMMA RemainderFields ==
  ASSUME NEW m \in Market, NEW pos \in Position, NEW isLong \in BOOLEAN, NEW price \in Nat,
         NEW delta \in 1..pos.size, pos.entry > 0, Behind(m, pos, isLong), delta < pos.size
  PROVE  LET c == closeSlice(m, pos, isLong, delta, price)
             after == remainder(m, pos, isLong, delta, price, c)
             left == pos.size - delta
         IN  /\ after.size = left /\ after.entry = pos.entry
             /\ after.collateral = pos.collateral - c.released
             /\ after.earnedFunding = c.carried
             /\ after.creditCkpt = creditCum(m, isLong)
             /\ after.feeCkpt = rewound(chargeCum(m, isLong), pos.feeCkpt, c.owedRem, left)
             /\ after.borrowCkpt = rewound(m.borrow, pos.borrowCkpt, c.borrowRem, left)
<1> DEFINE c == closeSlice(m, pos, isLong, delta, price)
           after == remainder(m, pos, isLong, delta, price, c)
           left == pos.size - delta
           p0 == snapshot(m, pos, isLong)
           fee == rewound(chargeCum(m, isLong), pos.feeCkpt, c.owedRem, left)
           bor == rewound(m.borrow, pos.borrowCkpt, c.borrowRem, left)
           r == [p0 EXCEPT !.feeCkpt = fee, !.borrowCkpt = bor]
           u == PosPart(pnl(left, pos.entry, isLong, price))
<1>1. c.pos = p0
  BY CloseFacts
<1>2. left \in Nat \ {0}
  BY DEF Position
<1>3. /\ p0 \in Position /\ p0.creditCkpt = creditCum(m, isLong)
      /\ p0.collateral = pos.collateral /\ p0.entry = pos.entry
  BY SettleFacts
<1> HIDE DEF c, p0
<1>4. after = [r EXCEPT !.size = left, !.collateral = @ - c.released,
                        !.earnedFunding = c.carried, !.reserveShare = u]
  BY <1>1, <1>2 DEF remainder, rewindFunding
<1> HIDE DEF fee, bor, u, left
<1>5. /\ DOMAIN r = DOMAIN p0 /\ r.feeCkpt = fee /\ r.borrowCkpt = bor
      /\ r.creditCkpt = p0.creditCkpt /\ r.collateral = p0.collateral /\ r.entry = p0.entry
  BY <1>3 DEF Position
<1> HIDE DEF r
<1>6. /\ after.size = left /\ after.collateral = r.collateral - c.released
      /\ after.earnedFunding = c.carried /\ after.creditCkpt = r.creditCkpt
      /\ after.feeCkpt = r.feeCkpt /\ after.borrowCkpt = r.borrowCkpt
      /\ after.entry = r.entry
  BY <1>3, <1>4, <1>5 DEF Position
<1> QED BY <1>3, <1>5, <1>6 DEF c, fee, bor, left

(* _rewindFunding forgives nothing: the slice's debt and the remainder's   *)
(* add up to at least the whole debt, while the remainder is below SCALE.  *)
LEMMA SliceKeepsDebt ==
  ASSUME NEW m \in Market, NEW pos \in Position, NEW isLong \in BOOLEAN, NEW price \in Nat,
         NEW delta \in 1..pos.size, pos.entry > 0, Behind(m, pos, isLong), delta < pos.size,
         pos.size <= SCALE
  PROVE  LET c == closeSlice(m, pos, isLong, delta, price)
             after == remainder(m, pos, isLong, delta, price, c)
         IN  debt(m, pos, isLong, pos.size)
               <= debt(m, pos, isLong, delta) + debt(m, after, isLong, pos.size - delta)
<1> DEFINE c == closeSlice(m, pos, isLong, delta, price)
           after == remainder(m, pos, isLong, delta, price, c)
           left == pos.size - delta
           cum == chargeCum(m, isLong)
           bor == m.borrow
<1>1. /\ after.feeCkpt = rewound(cum, pos.feeCkpt, c.owedRem, left)
      /\ after.borrowCkpt = rewound(bor, pos.borrowCkpt, c.borrowRem, left)
  BY RemainderFields
<1>2. /\ c.owedRem = fundingOwed(pos.size, cum, pos.feeCkpt)
                      - fundingOwed(delta, cum, pos.feeCkpt)
      /\ c.borrowRem = fundingOwed(pos.size, bor, pos.borrowCkpt)
                       - fundingOwed(delta, bor, pos.borrowCkpt)
      /\ c.owedRem \in Nat /\ c.borrowRem \in Nat
  <2>1. c.owedRem \in Nat /\ c.borrowRem \in Nat
    BY CloseFacts
  <2> QED BY <2>1 DEF closeSlice, settle
<1> HIDE DEF c, after
<1>3. /\ pos.size \in Nat \ {0} /\ pos.feeCkpt \in Nat /\ pos.borrowCkpt \in Nat
      /\ delta \in Nat /\ left \in Nat \ {0} /\ pos.size = delta + left /\ left <= SCALE
  BY DenominatorsPositive DEF Position
<1>4. cum \in Nat /\ bor \in Nat /\ pos.feeCkpt <= cum /\ pos.borrowCkpt <= bor
  BY CumNat DEF Behind
<1> HIDE DEF left, cum, bor
<1>5. ASSUME NEW t \in Nat, NEW ckpt \in Nat, ckpt <= t, NEW rem \in Nat,
             rem = fundingOwed(pos.size, t, ckpt) - fundingOwed(delta, t, ckpt)
      PROVE  fundingOwed(pos.size, t, ckpt)
               <= fundingOwed(delta, t, ckpt) + fundingOwed(left, t, rewound(t, ckpt, rem, left))
  <2>1. fundingOwed(pos.size, t, ckpt) <= fundingOwed(delta, t, ckpt) + fundingOwed(left, t, ckpt)
    BY <1>3, OwedSplit
  <2>2. /\ fundingOwed(pos.size, t, ckpt) \in Nat /\ fundingOwed(delta, t, ckpt) \in Nat
        /\ fundingOwed(left, t, ckpt) \in Nat
    BY <1>3, FundingNat
  <2>3. rem <= fundingOwed(left, t, ckpt)
    BY <1>5, <2>1, <2>2
  <2> DEFINE new == rewound(t, ckpt, rem, left)
  <2>4. rem <= fundingOwed(left, t, new)
    BY <1>3, <1>5, <2>3, RewindKeeps
  <2>5. new \in ckpt..t
    BY <1>3, <1>5, RewoundRange
  <2>6. new \in Nat
    BY <1>5, <2>5
  <2> HIDE DEF new
  <2>7. fundingOwed(left, t, new) \in Nat
    BY <1>3, <2>6, FundingNat
  <2> QED BY <1>5, <2>2, <2>4, <2>7 DEF new
<1>6. fundingOwed(pos.size, cum, pos.feeCkpt)
        <= fundingOwed(delta, cum, pos.feeCkpt) + fundingOwed(left, cum, after.feeCkpt)
  BY <1>1, <1>2, <1>3, <1>4, <1>5
<1>7. fundingOwed(pos.size, bor, pos.borrowCkpt)
        <= fundingOwed(delta, bor, pos.borrowCkpt) + fundingOwed(left, bor, after.borrowCkpt)
  BY <1>1, <1>2, <1>3, <1>4, <1>5
<1>8. /\ fundingOwed(pos.size, cum, pos.feeCkpt) \in Nat
      /\ fundingOwed(delta, cum, pos.feeCkpt) \in Nat
      /\ fundingOwed(pos.size, bor, pos.borrowCkpt) \in Nat
      /\ fundingOwed(delta, bor, pos.borrowCkpt) \in Nat
  BY <1>3, <1>4, FundingNat
<1>9. fundingOwed(left, cum, after.feeCkpt) \in Nat
      /\ fundingOwed(left, bor, after.borrowCkpt) \in Nat
  <2>0. rewound(cum, pos.feeCkpt, c.owedRem, left) \in pos.feeCkpt..cum
    BY <1>2, <1>3, <1>4, RewoundRange
  <2>1. rewound(bor, pos.borrowCkpt, c.borrowRem, left) \in pos.borrowCkpt..bor
    BY <1>2, <1>3, <1>4, RewoundRange
  <2>2. after.feeCkpt \in Nat /\ after.borrowCkpt \in Nat
    BY <1>1, <1>3, <1>4, <2>0, <2>1
  <2> QED BY <1>3, <1>4, <2>2, FundingNat
<1>10. debt(m, pos, isLong, pos.size)
         <= debt(m, pos, isLong, delta) + debt(m, after, isLong, left)
  BY <1>6, <1>7, <1>8, <1>9 DEF debt, cum, bor
<1> QED BY <1>10 DEF left, after, c

(* Nothing is owed or earned since a fresh checkpoint, or by no size.      *)
LEMMA NothingSince ==
  ASSUME NEW size \in Nat, NEW cum \in Nat, NEW ckpt \in Nat, cum = ckpt \/ size = 0
  PROVE  fundingOwed(size, cum, ckpt) = 0 /\ fundingEarned(size, cum, ckpt) = 0
<1>1. CASE cum <= ckpt
  BY <1>1 DEF fundingOwed, fundingEarned
<1>2. CASE ~(cum <= ckpt)
  <2> DEFINE b == cum - ckpt
  <2>1. size = 0 /\ b \in Nat
    BY <1>2
  <2>2. /\ fundingOwed(0, cum, ckpt) = MulDivCeil(0, b, SCALE)
        /\ fundingEarned(0, cum, ckpt) = MulDivFloor(0, b, SCALE)
    BY <1>2 DEF fundingOwed, fundingEarned
  <2> HIDE DEF b
  <2>3. 0 * b = 0 /\ SCALE \in Nat \ {0}
    BY <2>1, DenominatorsPositive
  <2>4. (0 + SCALE - 1) \div SCALE = 0 /\ 0 \div SCALE = 0
    BY <2>3
  <2> QED BY <2>1, <2>2, <2>3, <2>4 DEF MulDivFloor, MulDivCeil
<1> QED BY <1>1, <1>2

(* A close that pays something leaves the trader with at most the equity   *)
(* there was, less the fee.                                                *)
LEMMA DecreaseGain ==
  ASSUME NEW m \in Market, NEW pos \in Position, NEW isLong \in BOOLEAN, NEW price \in Nat,
         NEW delta \in 1..pos.size, pos.entry > 0, Behind(m, pos, isLong), pos.size <= SCALE,
         closeSlice(m, pos, isLong, delta, price).due > 0
  PROVE  LET c == closeSlice(m, pos, isLong, delta, price)
             after == remainder(m, pos, isLong, delta, price, c)
         IN  equityOf(m, after, isLong, price) + c.due
               <= equityOf(m, pos, isLong, price) - feeBps(delta, m.params.closeFeeBps)
<1> DEFINE c == closeSlice(m, pos, isLong, delta, price)
           after == remainder(m, pos, isLong, delta, price, c)
           left == pos.size - delta
           cum == chargeCum(m, isLong)
           e == fundingEarned(pos.size, creditCum(m, isLong), pos.creditCkpt)
           b == pos.earnedFunding + e
           rel == MulDivFloor(pos.collateral, delta, pos.size)
           fee == feeBps(delta, m.params.closeFeeBps)
           slice == MulDivFloor(b, delta, pos.size)
           gain == pnl(delta, pos.entry, isLong, price)
           whole == pnl(pos.size, pos.entry, isLong, price)
           d == debt(m, pos, isLong, delta)
           dAll == debt(m, pos, isLong, pos.size)
           raw == rel + gain - fee - d + slice
<1>1. /\ pos.size \in Nat \ {0} /\ pos.collateral \in Nat /\ pos.entry \in Nat \ {0}
      /\ pos.earnedFunding \in Nat /\ pos.creditCkpt \in Nat /\ m.params.closeFeeBps \in Nat
      /\ delta \in Nat \ {0} /\ left \in Nat /\ pos.size = delta + left /\ delta <= pos.size
  BY DEF Position, Market, MarketParams
<1>2. cum \in Nat /\ creditCum(m, isLong) \in Nat /\ m.borrow \in Nat
  BY CumNat
<1>3. c.released = rel /\ c.carried = b - slice /\ c.due = PosPart(raw)
  BY DEF closeSlice, settle, debt
<1>4. e \in Nat /\ b \in Nat /\ fee \in Nat
  BY <1>1, <1>2, FundingNat, FeeNat
<1>5. gain \in Int /\ whole \in Int
  BY <1>1, PnlInt
<1>6. d \in Nat /\ dAll \in Nat
  BY <1>1, DebtNat
<1> HIDE DEF e, b
<1>7. rel \in Nat /\ slice \in Nat /\ slice <= b
  BY <1>1, <1>4, MulDivNat, FloorShare
<1> HIDE DEF rel, slice, gain, fee, d
<1>8. c.due = raw
  BY <1>3, <1>4, <1>5, <1>6, <1>7 DEF PosPart
<1>9. equityOf(m, pos, isLong, price) = pos.collateral + whole + b - dAll
  <2>1. equityOf(m, pos, isLong, price) =
          pos.collateral + whole + pos.earnedFunding + e - dAll
    BY EquityParts DEF debt, e, cum
  <2> HIDE DEF whole, dAll
  <2> QED BY <1>1, <1>4, <1>5, <1>6, <2>1 DEF b
<1> HIDE DEF whole
<1>10. CASE left = 0
  <2>1. after = NoPosition
    BY <1>10 DEF remainder
  <2>2. equityOf(m, after, isLong, price) = 0
    <3>1. /\ after.size = 0 /\ after.collateral = 0 /\ after.entry = 0
          /\ after.earnedFunding = 0 /\ after.creditCkpt = 0 /\ after.feeCkpt = 0
          /\ after.borrowCkpt = 0
      BY <2>1 DEF NoPosition
    <3>2. pnl(0, 0, isLong, price) = 0
      BY DEF pnl
    <3>3. /\ fundingEarned(0, creditCum(m, isLong), 0) = 0
          /\ fundingOwed(0, cum, 0) = 0 /\ fundingOwed(0, m.borrow, 0) = 0
      BY <1>2, NothingSince
    <3>4. equityOf(m, after, isLong, price) = 0 + 0 + 0 + 0 - (0 + 0)
      BY <3>1, <3>2, <3>3, EquityParts DEF cum
    <3> QED BY <3>4
  <2>3. delta = pos.size
    BY <1>1, <1>10
  <2>4. d = dAll /\ gain = whole
    BY <2>3 DEF d, gain, whole
  <2>5. rel = pos.collateral /\ slice = b
    <3>1. (pos.collateral * pos.size) \div pos.size = pos.collateral
          /\ (b * pos.size) \div pos.size = b
      BY <1>1, <1>4
    <3> QED BY <2>3, <3>1 DEF rel, slice, MulDivFloor
  <2> HIDE DEF dAll, left
  <2> QED BY <1>1, <1>4, <1>5, <1>6, <1>8, <1>9, <2>2, <2>4, <2>5 DEF fee, c, after
<1>11. CASE left # 0
  <2> DEFINE rest == pnl(left, pos.entry, isLong, price)
             dLeft == debt(m, after, isLong, left)
  <2>1. delta < pos.size
    BY <1>1, <1>11
  <2>2. /\ after.size = left /\ after.entry = pos.entry
        /\ after.collateral = pos.collateral - c.released
        /\ after.earnedFunding = c.carried /\ after.creditCkpt = creditCum(m, isLong)
    BY <2>1, RemainderFields
  <2>3. dAll <= d + dLeft
    BY <2>1, SliceKeepsDebt DEF d
  <2>4. after \in Position
    BY RemainderFacts
  <2>5. dLeft \in Nat
    BY <1>1, <2>4, DebtNat
  <2>6. rest \in Int /\ gain + rest <= whole
    <3>1. rest \in Int
      BY <1>1, PnlInt
    <3>2. pnl(delta, pos.entry, isLong, price) + pnl(left, pos.entry, isLong, price)
            <= pnl(delta + left, pos.entry, isLong, price)
      BY <1>1, PnlSplit
    <3>3. pnl(delta + left, pos.entry, isLong, price) = whole
      BY <1>1 DEF whole
    <3> QED BY <3>1, <3>2, <3>3 DEF gain
  <2>7. fundingEarned(left, creditCum(m, isLong), after.creditCkpt) = 0
    BY <1>1, <1>2, <2>2, NothingSince
  <2>8. equityOf(m, after, isLong, price)
          = after.collateral + rest + after.earnedFunding
              + fundingEarned(left, creditCum(m, isLong), after.creditCkpt) - dLeft
    BY <2>2, EquityParts DEF debt
  <2> HIDE DEF after, c, rest, dLeft, dAll, left, cum
  <2>9. equityOf(m, after, isLong, price) = (pos.collateral - rel) + rest + (b - slice) + 0 - dLeft
    BY <1>3, <2>2, <2>7, <2>8
  <2>10. equityOf(m, after, isLong, price) + c.due <= equityOf(m, pos, isLong, price) - fee
    BY <1>1, <1>4, <1>5, <1>6, <1>7, <1>8, <1>9, <2>3, <2>5, <2>6, <2>9
  <2> QED BY <2>10 DEF fee, c, after
<1> QED BY <1>10, <1>11

(* A top-up whose debt the collateral covers pays all of it: the           *)
(* checkpoints are fresh afterwards.                                       *)
LEMMA TouchedPays ==
  ASSUME NEW m \in Market, NEW pos \in Position, NEW isLong \in BOOLEAN,
         debt(m, pos, isLong, pos.size) <= pos.collateral
  PROVE  LET t == touched(m, pos, isLong)
         IN  /\ t.pos \in Position
             /\ t.pos.collateral = pos.collateral - debt(m, pos, isLong, pos.size)
             /\ t.pos.earnedFunding =
                  pos.earnedFunding
                    + fundingEarned(pos.size, creditCum(m, isLong), pos.creditCkpt)
             /\ t.pos.feeCkpt = chargeCum(m, isLong)
             /\ t.pos.creditCkpt = creditCum(m, isLong)
             /\ t.pos.borrowCkpt = m.borrow
<1>1. /\ pos.size \in Nat /\ pos.collateral \in Nat /\ pos.earnedFunding \in Nat
      /\ pos.feeCkpt \in Nat /\ pos.creditCkpt \in Nat /\ pos.borrowCkpt \in Nat
  BY DEF Position
<1>2. chargeCum(m, isLong) \in Nat /\ creditCum(m, isLong) \in Nat /\ m.borrow \in Nat
  BY CumNat
<1>3. touched(m, pos, isLong).pos \in Position
  BY TouchedFacts
<1> DEFINE s == settle(m, pos, isLong)
           e == fundingEarned(pos.size, creditCum(m, isLong), pos.creditCkpt)
           all == debt(m, pos, isLong, pos.size)
<1>4. /\ s.owed \in Nat /\ s.borrow \in Nat /\ all = s.owed + s.borrow
      /\ s.pos \in Position /\ s.pos.collateral = pos.collateral
      /\ s.pos.earnedFunding = pos.earnedFunding
      /\ s.pos.feeCkpt = chargeCum(m, isLong) /\ s.pos.creditCkpt = creditCum(m, isLong)
      /\ s.pos.borrowCkpt = m.borrow /\ s.pos = snapshot(m, pos, isLong)
  BY SettleFacts DEF debt
<1>5. s.earned = e
  BY DEF settle
<1>6. e \in Nat
  BY <1>1, <1>2, FundingNat
<1>7. CASE pos.size > 0
  <2> DEFINE funding == Lesser(s.owed, pos.collateral)
             borrow == Lesser(s.borrow, pos.collateral - funding)
             fee == IF funding < s.owed
                    THEN rewound(chargeCum(m, isLong), s.pos.feeCkpt, s.owed - funding, pos.size)
                    ELSE s.pos.feeCkpt
             bor == IF borrow < s.borrow
                    THEN rewound(m.borrow, s.pos.borrowCkpt, s.borrow - borrow, pos.size)
                    ELSE s.pos.borrowCkpt
             r == [s.pos EXCEPT !.feeCkpt = fee, !.borrowCkpt = bor]
             after == [r EXCEPT !.earnedFunding = r.earnedFunding + s.earned,
                                !.collateral = r.collateral - (funding + borrow)]
  <2>1. chargeFunding(m, pos, isLong) = [charged |-> funding + borrow, earned |-> s.earned, pos |-> r]
    BY DEF chargeFunding
  <2>2. DOMAIN r = DOMAIN s.pos
    OBVIOUS
  <2> HIDE DEF s, e, all, r
  <2>3. touched(m, pos, isLong).pos = after
    <3>1. touched(m, pos, isLong).pos =
            [chargeFunding(m, pos, isLong).pos EXCEPT
               !.earnedFunding = @ + chargeFunding(m, pos, isLong).earned,
               !.collateral = @ - chargeFunding(m, pos, isLong).charged]
      BY <1>7 DEF touched
    <3>2. /\ chargeFunding(m, pos, isLong).pos = r
          /\ chargeFunding(m, pos, isLong).earned = s.earned
          /\ chargeFunding(m, pos, isLong).charged = funding + borrow
      BY <2>1
    <3> QED BY <1>4, <2>2, <3>1, <3>2 DEF Position
  <2>4. funding = s.owed /\ borrow = s.borrow
    BY <1>1, <1>4 DEF Lesser, all
  <2>5. fee = chargeCum(m, isLong) /\ bor = m.borrow
    BY <1>4, <2>4
  <2>6. /\ r.feeCkpt = fee /\ r.borrowCkpt = bor /\ r.creditCkpt = s.pos.creditCkpt
        /\ r.collateral = s.pos.collateral /\ r.earnedFunding = s.pos.earnedFunding
    BY <1>4 DEF r, Position
  <2> HIDE DEF fee, bor
  <2>7. /\ after.feeCkpt = r.feeCkpt /\ after.borrowCkpt = r.borrowCkpt
        /\ after.creditCkpt = r.creditCkpt
        /\ after.collateral = r.collateral - (funding + borrow)
        /\ after.earnedFunding = r.earnedFunding + s.earned
    BY <1>4, <2>2 DEF Position
  <2> HIDE DEF after, funding, borrow
  <2>8. after.collateral = pos.collateral - all /\ after.earnedFunding = pos.earnedFunding + e
    BY <1>4, <1>5, <2>4, <2>6, <2>7
  <2> QED BY <1>3, <1>4, <2>3, <2>5, <2>6, <2>7, <2>8 DEF e, all
<1>8. CASE ~(pos.size > 0)
  <2>1. touched(m, pos, isLong).pos = s.pos
    BY <1>4, <1>8 DEF touched
  <2>2. pos.size = 0
    BY <1>1, <1>8
  <2>3. /\ fundingOwed(pos.size, chargeCum(m, isLong), pos.feeCkpt) = 0
        /\ fundingOwed(pos.size, m.borrow, pos.borrowCkpt) = 0 /\ e = 0
    BY <1>1, <1>2, <2>2, NothingSince
  <2>4. all = 0
    BY <2>3 DEF debt
  <2> HIDE DEF s, e, all
  <2>5. pos.collateral - 0 = pos.collateral /\ pos.earnedFunding + 0 = pos.earnedFunding
    BY <1>1
  <2> QED BY <1>3, <1>4, <2>1, <2>3, <2>4, <2>5 DEF e, all
<1> QED BY <1>7, <1>8

(* An increase, other than of a short away from its entry, leaves the      *)
(* trader with at most the equity there was and the collateral, less the   *)
(* fee.                                                                    *)
LEMMA IncreaseGain ==
  ASSUME NEW m \in Market, NEW pos \in Position, NEW isLong \in BOOLEAN,
         NEW price \in Nat \ {0}, NEW add \in Nat, NEW coll \in Nat, NEW fee \in Nat,
         pos.size > 0 => pos.entry > 0,
         debt(m, pos, isLong, pos.size) <= pos.collateral,
         isLong \/ pos.size = 0 \/ price = pos.entry,
         NEW after,
         after.size = pos.size + add,
         after.entry = newEntry(pos, isLong, add, price),
         after.collateral = touched(m, pos, isLong).pos.collateral + coll - fee,
         after.earnedFunding = touched(m, pos, isLong).pos.earnedFunding,
         after.feeCkpt = touched(m, pos, isLong).pos.feeCkpt,
         after.creditCkpt = touched(m, pos, isLong).pos.creditCkpt,
         after.borrowCkpt = touched(m, pos, isLong).pos.borrowCkpt
  PROVE  equityOf(m, after, isLong, price) <= equityOf(m, pos, isLong, price) + coll - fee
<1> DEFINE e == fundingEarned(pos.size, creditCum(m, isLong), pos.creditCkpt)
           all == debt(m, pos, isLong, pos.size)
           n == pos.size + add
           entry == newEntry(pos, isLong, add, price)
           old == pnl(pos.size, pos.entry, isLong, price)
           new == pnl(n, entry, isLong, price)
<1>1. /\ pos.size \in Nat /\ pos.collateral \in Nat /\ pos.earnedFunding \in Nat
      /\ pos.creditCkpt \in Nat /\ pos.entry \in Nat /\ n \in Nat
  BY DEF Position
<1>2. chargeCum(m, isLong) \in Nat /\ creditCum(m, isLong) \in Nat /\ m.borrow \in Nat
  BY CumNat
<1>3. e \in Nat /\ all \in Nat
  BY <1>1, <1>2, FundingNat, DebtNat
<1>4. /\ after.size = n /\ after.entry = entry
      /\ after.collateral = pos.collateral - all + coll - fee
      /\ after.earnedFunding = pos.earnedFunding + e
      /\ after.feeCkpt = chargeCum(m, isLong) /\ after.creditCkpt = creditCum(m, isLong)
      /\ after.borrowCkpt = m.borrow
  BY TouchedPays
<1>5. equityOf(m, pos, isLong, price) = pos.collateral + old + pos.earnedFunding + e - all
  BY EquityParts DEF debt
<1>6. equityOf(m, after, isLong, price) = after.collateral + new + after.earnedFunding
  <2>1. /\ fundingEarned(n, creditCum(m, isLong), after.creditCkpt) = 0
        /\ fundingOwed(n, chargeCum(m, isLong), after.feeCkpt) = 0
        /\ fundingOwed(n, m.borrow, after.borrowCkpt) = 0
    BY <1>1, <1>2, <1>4, NothingSince
  <2>2. equityOf(m, after, isLong, price) = after.collateral + new + after.earnedFunding + 0 - (0 + 0)
    BY <1>4, <2>1, EquityParts
  <2>3. new \in Int
    <3>1. entry \in Nat /\ (n > 0 => entry > 0)
      BY <1>1, EntryPositive
    <3> QED BY <1>1, <3>1, PnlInt
  <2> HIDE DEF new, n, all, e
  <2> QED BY <1>1, <1>3, <1>4, <2>2, <2>3
<1>7. old \in Int /\ new \in Int /\ new <= old
  <2>1. CASE pos.size = 0
    <3>1. entry = price
      BY <2>1 DEF newEntry
    <3>2. \A s \in Nat : pnl(s, price, isLong, price) = 0
      BY DEF pnl
    <3>3. pnl(0, pos.entry, isLong, price) = 0
      BY DEF pnl
    <3> QED BY <1>1, <2>1, <3>1, <3>2, <3>3
  <2>2. CASE pos.size # 0 /\ price = pos.entry
    <3>1. entry = price
      <4>1. /\ MulDivFloor(pos.size * price + add * price, 1, n) = price
            /\ MulDivCeil(pos.size * price + add * price, 1, n) = price
        <5>1. pos.size + add > 0 /\ price \in Nat
          BY <1>1, <2>2
        <5> QED BY <1>1, <5>1, AverageOfSame
      <4> QED BY <2>2, <4>1 DEF newEntry
    <3>2. \A s \in Nat : pnl(s, price, isLong, price) = 0
      BY DEF pnl
    <3> QED BY <1>1, <2>2, <3>1, <3>2
  <2>3. CASE pos.size # 0 /\ isLong = TRUE
    <3> DEFINE x == MulDivCeil(pos.size * pos.entry + add * price, 1, n)
    <3>1. entry = x
      BY <2>3 DEF newEntry
    <3>2. pos.entry \in Nat \ {0}
      BY <1>1, <2>3
    <3>3. x > 0 /\ pnl(n, x, TRUE, price) <= pnl(pos.size, pos.entry, TRUE, price)
      <4>1. pos.size + add > 0
        BY <1>1, <2>3
      <4> QED BY <1>1, <3>2, <4>1, AverageHurtsLong
    <3>4. entry \in Nat
      BY <1>1, EntryPositive
    <3> HIDE DEF entry, x, n
    <3>5. pnl(n, x, TRUE, price) \in Int /\ pnl(pos.size, pos.entry, TRUE, price) \in Int
      BY <1>1, <3>1, <3>2, <3>3, <3>4, PnlInt
    <3> QED BY <2>3, <3>1, <3>3, <3>5
  <2> QED BY <2>1, <2>2, <2>3
<1> HIDE DEF e, all, old, new
<1> QED BY <1>1, <1>3, <1>4, <1>5, <1>6, <1>7

-----------------------------------------------------------------------------
(* What a fill changes                                                     *)

(* The accrued market of a position, and the position behind it.           *)
LEMMA AccruedBehind ==
  ASSUME Core, NEW key \in PositionKeys
  PROVE  LET m == accrue(market[key[2]], now)
         IN  /\ m \in Market /\ m.params = market[key[2]].params
             /\ positions[key] \in Position
             /\ positions[key].size > 0 =>
                  positions[key].entry > 0 /\ Behind(m, positions[key], key[3])
<1>1. /\ market[key[2]] \in Market /\ now \in Nat /\ positions[key] \in Position
      /\ key[2] \in GpuIds /\ key[3] \in BOOLEAN
  BY FiniteIndices DEF Core, TypeOK
<1> DEFINE m == accrue(market[key[2]], now)
<1>2. /\ m \in Market /\ m.params = market[key[2]].params
      /\ m.chargeLong >= market[key[2]].chargeLong /\ m.chargeShort >= market[key[2]].chargeShort
      /\ m.creditLong >= market[key[2]].creditLong /\ m.creditShort >= market[key[2]].creditShort
      /\ m.borrow >= market[key[2]].borrow
  BY <1>1, AccrueFacts
<1> HIDE DEF m
<1>3. ASSUME positions[key].size > 0
      PROVE  positions[key].entry > 0 /\ Behind(m, positions[key], key[3])
  <2>1. Behind(market[key[2]], positions[key], key[3])
    BY <1>3 DEF Core, CheckpointsBehind, Behind
  <2>2. Behind(m, positions[key], key[3])
    BY <1>1, <1>2, <2>1, BehindStays
  <2>3. positions[key].entry > 0
    BY <1>3 DEF Core, WellFormed
  <2> QED BY <2>2, <2>3
<1> QED BY <1>1, <1>2, <1>3 DEF m

(* executeDecrease, read as what it does to the position it closes.        *)
LEMMA DecreaseFill ==
  ASSUME Core, NEW id \in OrderIds, NEW price \in Prices, executeDecrease(id, price)
  PROVE  LET o == orders[id]
             key == KeyOf(o)
             pos == positions[key]
             m == accrue(market[o.market], now)
             delta == closedSize(o, pos)
             c == closeSlice(m, pos, o.isLong, delta, price)
             after == remainder(m, pos, o.isLong, delta, price, c)
         IN  /\ o.kind # "MarketIncrease" /\ o.market \in GpuIds /\ o.isLong \in BOOLEAN
             /\ key \in PositionKeys /\ key[2] = o.market /\ key[3] = o.isLong
             /\ pos \in Position /\ pos.entry > 0 /\ m \in Market /\ price \in Nat \ {0}
             /\ delta \in 1..pos.size /\ Behind(m, pos, o.isLong)
             /\ c.due \in Nat
             /\ positions' = [positions EXCEPT ![key] = after]
             /\ market' = [market EXCEPT ![o.market] = addOpenInterest(m, o.isLong, -delta)]
             /\ claimableOf'[o.account] - claimableOf[o.account] = c.due
             /\ epochPrice'[o.market] = price
<1> DEFINE o == orders[id]
           key == KeyOf(o)
           pos == positions[key]
           m == accrue(market[o.market], now)
           delta == closedSize(o, pos)
           c == closeSlice(m, pos, o.isLong, delta, price)
           after == remainder(m, pos, o.isLong, delta, price, c)
<1>1. /\ o.kind # "MarketIncrease" /\ Consume(o.market, price) /\ pos.size > 0
      /\ claimableOf' = [claimableOf EXCEPT ![o.account] = claimableOf[o.account] + c.due]
      /\ market' = [market EXCEPT ![o.market] = addOpenInterest(m, o.isLong, -delta)]
      /\ positions' = [positions EXCEPT ![key] = after]
  BY DEF executeDecrease
<1>2. /\ o \in Order /\ o.market \in GpuIds /\ o.isLong \in BOOLEAN /\ o.account \in Accounts
      /\ o.size \in Nat /\ key \in PositionKeys /\ key[2] = o.market /\ key[3] = o.isLong
  BY DEF Core, TypeOK, Order, KeyOf, PositionKeys
<1>3. price \in Nat \ {0} /\ claimableOf \in [Accounts -> Nat]
      /\ epochPrice \in [GpuIds -> Prices \cup {0}]
  BY PerpConstants DEF Core, TypeOK
<1>4. /\ m \in Market /\ pos \in Position /\ pos.entry > 0 /\ Behind(m, pos, o.isLong)
  BY <1>1, <1>2, AccruedBehind
<1>5. epochPrice'[o.market] = price
  BY <1>1, <1>2, <1>3 DEF Consume
<1> HIDE DEF m, pos, o, key
<1>6. delta \in 1..pos.size
  <2>1. pos.size \in Nat \ {0}
    BY <1>1, <1>4 DEF Position
  <2> QED BY <1>2, <2>1 DEF closedSize, Lesser
<1> HIDE DEF delta
<1>7. c.due \in Nat
  BY <1>2, <1>3, <1>4, <1>6, CloseFacts
<1> HIDE DEF c
<1>8. claimableOf'[o.account] - claimableOf[o.account] = c.due
  BY <1>1, <1>2, <1>3, <1>7
<1> HIDE DEF after
<1> QED BY <1>1, <1>2, <1>3, <1>4, <1>5, <1>6, <1>7, <1>8 DEF after, c, delta, m, pos, o, key

(* executeIncrease, likewise.                                              *)
LEMMA IncreaseFill ==
  ASSUME Core, NEW id \in OrderIds, NEW price \in Prices, executeIncrease(id, price)
  PROVE  LET o == orders[id]
             key == KeyOf(o)
             pos == positions[key]
             m == accrue(market[o.market], now)
             t == touched(m, pos, o.isLong)
             after == positions'[key]
         IN  /\ o.kind = "MarketIncrease" /\ o.market \in GpuIds /\ o.isLong \in BOOLEAN
             /\ o.size \in Nat /\ o.collateral \in Nat
             /\ key \in PositionKeys /\ key[2] = o.market /\ key[3] = o.isLong
             /\ pos \in Position /\ (pos.size > 0 => pos.entry > 0)
             /\ m \in Market /\ price \in Nat \ {0}
             /\ after.size = pos.size + o.size /\ after.size <= market[o.market].params.maxPositionUsd
             /\ after.entry = newEntry(pos, o.isLong, o.size, price)
             /\ after.collateral = t.pos.collateral + o.collateral
                                     - feeBps(o.size, m.params.openFeeBps)
             /\ after.earnedFunding = t.pos.earnedFunding
             /\ after.feeCkpt = t.pos.feeCkpt /\ after.creditCkpt = t.pos.creditCkpt
             /\ after.borrowCkpt = t.pos.borrowCkpt
             /\ \A k \in PositionKeys \ {key} : positions'[k] = positions[k]
             /\ market' = [market EXCEPT ![o.market] = addOpenInterest(m, o.isLong, o.size)]
             /\ claimableOf' = claimableOf
             /\ epochPrice'[o.market] = price
<1> DEFINE o == orders[id]
           key == KeyOf(o)
           pos == positions[key]
           m == accrue(market[o.market], now)
           t == touched(m, pos, o.isLong)
           size == pos.size + o.size
           coll == t.pos.collateral + o.collateral - feeBps(o.size, m.params.openFeeBps)
           entry == newEntry(pos, o.isLong, o.size, price)
           share == PosPart(pnl(size, entry, o.isLong, price))
           after == [t.pos EXCEPT !.size = size, !.collateral = coll, !.entry = entry,
                                  !.reserveShare = share]
<1>1. /\ o.kind = "MarketIncrease" /\ Consume(o.market, price)
      /\ size <= m.params.maxPositionUsd
      /\ positions' = [positions EXCEPT ![key] = after]
      /\ market' = [market EXCEPT ![o.market] = addOpenInterest(m, o.isLong, o.size)]
      /\ claimableOf' = claimableOf
  BY DEF executeIncrease
<1>2. /\ o \in Order /\ o.market \in GpuIds /\ o.isLong \in BOOLEAN /\ o.size \in Nat
      /\ o.collateral \in Nat /\ key \in PositionKeys /\ key[2] = o.market /\ key[3] = o.isLong
  BY DEF Core, TypeOK, Order, KeyOf, PositionKeys
<1>3. price \in Nat \ {0} /\ epochPrice \in [GpuIds -> Prices \cup {0}]
      /\ positions \in [PositionKeys -> Position]
  BY PerpConstants DEF Core, TypeOK
<1>4. /\ m \in Market /\ m.params = market[o.market].params /\ pos \in Position
      /\ pos.size > 0 => pos.entry > 0
  BY <1>1, <1>2, AccruedBehind
<1>5. epochPrice'[o.market] = price
  BY <1>1, <1>2, <1>3 DEF Consume
<1>6. t.pos \in Position
  BY <1>2, <1>4, TouchedFacts
<1> HIDE DEF t, size, coll, entry, share
<1>7. /\ after.size = size /\ after.collateral = coll /\ after.entry = entry
      /\ after.earnedFunding = t.pos.earnedFunding /\ after.feeCkpt = t.pos.feeCkpt
      /\ after.creditCkpt = t.pos.creditCkpt /\ after.borrowCkpt = t.pos.borrowCkpt
  BY <1>6 DEF Position
<1> HIDE DEF after
<1>8. positions'[key] = after /\ \A k \in PositionKeys \ {key} : positions'[k] = positions[k]
  BY <1>1, <1>2, <1>3
<1> QED BY <1>1, <1>2, <1>3, <1>4, <1>5, <1>7, <1>8 DEF size, coll, entry, t

(* A position changes only by a fill of its own or by a liquidation, which *)
(* deletes it.                                                             *)
LEMMA PositionMoves ==
  ASSUME Core, [Next]_vars, NEW k \in PositionKeys, positions'[k] # positions[k]
  PROVE  \/ \E id \in OrderIds, p \in Prices :
              KeyOf(orders[id]) = k /\ (executeIncrease(id, p) \/ executeDecrease(id, p))
         \/ positions'[k] = NoPosition
<1>1. positions \in [PositionKeys -> Position] /\ positions' # positions
  BY DEF Core, TypeOK
<1>2. ~OwnerStep
  BY <1>1, Zenon DEF OwnerStep, createMarket, setMarketParams, setMarketEnabled, setMinOrderDelay,
              setEngineMaxWithdrawPerBlock, pause, unpause, engineVars
<1>3. ~EnvironmentStep
  BY <1>1, Zenon DEF EnvironmentStep, VaultDeposit, VaultRedeem, NextBlock, engineVars
<1>4. ~TraderStep
  <2>1. ASSUME NEW a, NEW g, NEW l, NEW s, NEW c, NEW p, NEW f, createIncrease(a, g, l, s, c, p, f)
        PROVE  FALSE
    BY <1>1, <2>1 DEF createIncrease, Enter
  <2>2. ASSUME NEW a, NEW g, NEW l, NEW s, NEW p, NEW f, createDecrease(a, g, l, s, p, f)
        PROVE  FALSE
    BY <1>1, <2>2 DEF createDecrease, Enter
  <2>3. ASSUME NEW a, NEW g, NEW l, NEW t, NEW s, NEW p, NEW f, createTrigger(a, g, l, t, s, p, f)
        PROVE  FALSE
    BY <1>1, <2>3 DEF createTrigger, Enter
  <2>4. ASSUME NEW id, cancelOrder(id) PROVE FALSE
    BY <1>1, <2>4 DEF cancelOrder
  <2>5. ASSUME NEW a, NEW x, NEW to, claim(a, x, to) PROVE FALSE
    BY <1>1, <2>5 DEF claim
  <2> QED BY <2>1, <2>2, <2>3, <2>4, <2>5, Zenon DEF TraderStep
<1>5. ~UNCHANGED vars
  BY <1>1, Zenon DEF vars, engineVars
<1>6. KeeperStep
  BY <1>2, <1>3, <1>4, <1>5 DEF Next
<1>7. ASSUME NEW id, NEW p, executeIncrease(id, p) PROVE KeyOf(orders[id]) = k
  <2>1. PICK n : positions' = [positions EXCEPT ![KeyOf(orders[id])] = n]
    BY <1>7 DEF executeIncrease
  <2> QED BY <1>1, <2>1
<1>8. ASSUME NEW id, NEW p, executeDecrease(id, p) PROVE KeyOf(orders[id]) = k
  <2>1. PICK n : positions' = [positions EXCEPT ![KeyOf(orders[id])] = n]
    BY <1>8 DEF executeDecrease
  <2> QED BY <1>1, <2>1
<1>9. ASSUME NEW id, NEW p, executeDecreaseGone(id, p) PROVE FALSE
  BY <1>1, <1>9 DEF executeDecreaseGone
<1>10. ASSUME NEW a, NEW g, NEW l, NEW p, liquidate(a, g, l, p) PROVE positions'[k] = NoPosition
  <2>1. positions' = [positions EXCEPT ![<<a, g, l>>] = NoPosition]
    BY <1>10 DEF liquidate
  <2> QED BY <1>1, <2>1
<1> QED BY <1>6, <1>7, <1>8, <1>9, <1>10, Zenon DEF KeeperStep

(* An order goes from pending to executed only by its own execution.       *)
LEMMA ExecutedByFill ==
  ASSUME Core, [Next]_vars, NEW id \in OrderIds, orders[id].status = "Pending",
         orders'[id].status = "Executed"
  PROVE  \E p \in Prices : executeIncrease(id, p) \/ executeDecrease(id, p)
<1>1. /\ orders \in [OrderIds -> Order] /\ orderNonce \in Nat
      /\ orders' # orders
  BY DEF Core, TypeOK
<1>2. ~OwnerStep
  BY <1>1, Zenon DEF OwnerStep, createMarket, setMarketParams, setMarketEnabled, setMinOrderDelay,
              setEngineMaxWithdrawPerBlock, pause, unpause, engineVars
<1>3. ~EnvironmentStep
  BY <1>1, Zenon DEF EnvironmentStep, VaultDeposit, VaultRedeem, NextBlock, engineVars
<1>4. ~TraderStep
  <2>1. ASSUME NEW o, o.status = "Pending", orders' = [orders EXCEPT ![orderNonce + 1] = o]
        PROVE  FALSE
    BY <1>1, <2>1
  <2>2. ASSUME NEW o, o.status = "Pending", NEW old,
               orders' = [cancelled(orders, old) EXCEPT ![orderNonce + 1] = o]
        PROVE  FALSE
    <3>1. CASE id = orderNonce + 1
      BY <1>1, <2>2, <3>1 DEF cancelled
    <3>2. CASE id # orderNonce + 1 /\ id = old
      <4>1. orders'[id] = [orders[id] EXCEPT !.status = "Cancelled"]
        BY <1>1, <2>2, <3>2 DEF cancelled
      <4>2. orders[id] \in Order
        BY <1>1
      <4> QED BY <4>1, <4>2 DEF Order
    <3>3. CASE id # orderNonce + 1 /\ id # old
      <4>1. orders'[id] = orders[id]
        BY <1>1, <2>2, <3>3 DEF cancelled
      <4> QED BY <4>1
    <3> QED BY <3>1, <3>2, <3>3
  <2>3. ASSUME NEW a, NEW g, NEW l, NEW s, NEW p, NEW f, NEW c,
               createIncrease(a, g, l, s, c, p, f)
        PROVE  FALSE
    BY <2>1, <2>3 DEF createIncrease, NewOrder
  <2>4. ASSUME NEW a, NEW g, NEW l, NEW s, NEW p, NEW f, createDecrease(a, g, l, s, p, f)
        PROVE  FALSE
    BY <2>1, <2>4 DEF createDecrease, NewOrder
  <2>5. ASSUME NEW a, NEW g, NEW l, NEW s, NEW p, NEW f, NEW k,
               createTrigger(a, g, l, k, s, p, f)
        PROVE  FALSE
    <3> DEFINE o == NewOrder(a, g, l, k, s, 0, 0, p, f)
               old == activeTrigger[TriggerKeyOf(o)]
    <3>1. orders' = [(IF old # 0 THEN cancelled(orders, old) ELSE orders)
                       EXCEPT ![orderNonce + 1] = o]
      BY <2>5 DEF createTrigger
    <3>2. o.status = "Pending"
      BY DEF NewOrder
    <3> HIDE DEF o, old
    <3>3. CASE old # 0
      BY <2>2, <3>1, <3>2, <3>3
    <3>4. CASE old = 0
      BY <2>1, <3>1, <3>2, <3>4
    <3> QED BY <3>3, <3>4
  <2>6. ASSUME NEW j \in OrderIds, orders' = cancelled(orders, j)
        PROVE  FALSE
    <3>1. orders[id] \in Order
      BY <1>1
    <3>2. CASE j = id
      <4>1. orders'[id] = [orders[id] EXCEPT !.status = "Cancelled"]
        BY <1>1, <2>6, <3>2 DEF cancelled
      <4> QED BY <3>1, <4>1 DEF Order
    <3>3. CASE j # id
      BY <1>1, <2>6, <3>3 DEF cancelled
    <3> QED BY <3>2, <3>3
  <2>7. ASSUME NEW j \in OrderIds, cancelOrder(j) PROVE FALSE
    BY <2>6, <2>7 DEF cancelOrder
  <2>8. ASSUME NEW a, NEW x, NEW to, claim(a, x, to) PROVE FALSE
    BY <1>1, <2>8 DEF claim
  <2> QED BY <2>3, <2>4, <2>5, <2>7, <2>8, Zenon DEF TraderStep
<1>5. ~UNCHANGED vars
  BY <1>1 DEF vars, engineVars
<1>6. KeeperStep
  BY <1>2, <1>3, <1>4, <1>5 DEF Next
<1>7. ASSUME NEW p \in Prices, NEW j \in OrderIds, executeIncrease(j, p) PROVE j = id
  <2>1. orders' = [orders EXCEPT ![j].status = "Executed"]
    BY <1>7 DEF executeIncrease
  <2> QED BY <1>1, <2>1
<1>8. ASSUME NEW p \in Prices, NEW j \in OrderIds, executeDecreaseGone(j, p) PROVE FALSE
  <2>1. orders' = cancelled(orders, j)
    BY <1>8 DEF executeDecreaseGone
  <2>2. orders[id] \in Order
    BY <1>1
  <2>3. CASE j = id
    <3>1. orders'[id] = [orders[id] EXCEPT !.status = "Cancelled"]
      BY <1>1, <2>1, <2>3 DEF cancelled
    <3> QED BY <2>2, <3>1 DEF Order
  <2>4. CASE j # id
    BY <1>1, <2>1, <2>4 DEF cancelled
  <2> QED BY <2>3, <2>4
<1>9. ASSUME NEW p \in Prices, NEW a, NEW g, NEW l, liquidate(a, g, l, p) PROVE FALSE
  BY <1>1, <1>9 DEF liquidate
<1>10. ASSUME NEW p \in Prices, NEW j \in OrderIds, executeDecrease(j, p) PROVE j = id
  <2>1. orders' = [orders EXCEPT ![j].status = "Executed"]
    BY <1>10 DEF executeDecrease
  <2> QED BY <1>1, <2>1
<1> QED BY <1>6, <1>7, <1>8, <1>9, <1>10 DEF KeeperStep

-----------------------------------------------------------------------------
(* Sizes stay below SCALE: the denominator of the per-unit cumulatives,    *)
(* 1e18, is a million million gUSD, and the owner's cap on a position is   *)
(* taken to be no larger.                                                  *)
CapsBelowScale == \A p \in ParamChoices : p.maxPositionUsd <= SCALE

SizesCapped ==
  /\ \A g \in GpuIds : market[g].params.maxPositionUsd <= SCALE
  /\ \A k \in PositionKeys : positions[k].size <= SCALE

(* A market's parameters are what the owner last submitted.                *)
LEMMA ParamsMove ==
  ASSUME Core, [Next]_vars, NEW g \in GpuIds
  PROVE  market'[g].params = market[g].params \/ market'[g].params \in ParamChoices
<1>1. market \in [GpuIds -> Market] /\ now \in Nat
  BY DEF Core, TypeOK
<1> DEFINE Fine == market'[g].params = market[g].params \/ market'[g].params \in ParamChoices
<1>2. ASSUME NEW h \in GpuIds, NEW d \in Int, NEW l \in BOOLEAN,
             market' = [market EXCEPT ![h] = addOpenInterest(accrue(market[h], now), l, d)]
      PROVE  Fine
  <2> DEFINE m == accrue(market[h], now)
  <2>1. m \in Market /\ m.params = market[h].params
    BY <1>1, AccrueFacts
  <2> HIDE DEF m
  <2>2. addOpenInterest(m, l, d).params = m.params
    BY <2>1, CumulativesAgree
  <2> QED BY <1>1, <1>2, <2>1, <2>2 DEF m
<1>3. ASSUME NEW h \in GpuIds, NEW p \in ParamChoices, createMarket(h, p) PROVE Fine
  <2>1. market' = [market EXCEPT ![h] = [market[h] EXCEPT !.exists = TRUE, !.enabled = TRUE,
                                                          !.params = p, !.updatedAt = now]]
    BY <1>1, <1>3 DEF createMarket
  <2>2. [market[h] EXCEPT !.exists = TRUE, !.enabled = TRUE, !.params = p,
                          !.updatedAt = now].params = p
    BY <1>1 DEF Market
  <2> QED BY <1>1, <2>1, <2>2
<1>4. ASSUME NEW h \in GpuIds, NEW p \in ParamChoices, setMarketParams(h, p) PROVE Fine
  <2> DEFINE m == accrue(market[h], now)
  <2>1. m \in Market
    BY <1>1, AccrueFacts
  <2>2. market' = [market EXCEPT ![h] = [m EXCEPT !.params = p]]
    BY <1>4 DEF setMarketParams
  <2> HIDE DEF m
  <2>3. [m EXCEPT !.params = p].params = p
    BY <2>1 DEF Market
  <2> QED BY <1>1, <2>2, <2>3
<1>5. ASSUME NEW h \in GpuIds, NEW b \in BOOLEAN, setMarketEnabled(h, b) PROVE Fine
  <2>1. market' = [market EXCEPT ![h].enabled = b]
    BY <1>5 DEF setMarketEnabled
  <2> QED BY <1>1, <2>1 DEF Market
<1>6. CASE OwnerStep
  <2>1. ASSUME \/ \E d \in Delays : setMinOrderDelay(d)
               \/ \E c \in Caps : setEngineMaxWithdrawPerBlock(c)
               \/ pause
               \/ unpause
        PROVE  Fine
    <3>1. market' = market
      BY <2>1 DEF setMinOrderDelay, setEngineMaxWithdrawPerBlock, pause, unpause, engineVars
    <3> QED BY <3>1
  <2> HIDE DEF Fine
  <2> QED BY <1>3, <1>4, <1>5, <1>6, <2>1 DEF OwnerStep, Fine
<1>7. CASE TraderStep
  <2>1. ASSUME NEW a, NEW h, NEW l, NEW s, NEW c, NEW p, NEW f, createIncrease(a, h, l, s, c, p, f)
        PROVE  market' = market
    BY <2>1 DEF createIncrease, Enter
  <2>2. ASSUME NEW a, NEW h, NEW l, NEW s, NEW p, NEW f, createDecrease(a, h, l, s, p, f)
        PROVE  market' = market
    BY <2>2 DEF createDecrease, Enter
  <2>3. ASSUME NEW a, NEW h, NEW l, NEW t, NEW s, NEW p, NEW f, createTrigger(a, h, l, t, s, p, f)
        PROVE  market' = market
    BY <2>3 DEF createTrigger, Enter
  <2>4. ASSUME NEW id, cancelOrder(id) PROVE market' = market
    BY <2>4 DEF cancelOrder
  <2>5. ASSUME NEW a, NEW x, NEW to, claim(a, x, to) PROVE market' = market
    BY <2>5 DEF claim
  <2>6. market' = market
    BY <1>7, <2>1, <2>2, <2>3, <2>4, <2>5, Zenon DEF TraderStep
  <2> QED BY <2>6
<1>8. ASSUME NEW id \in OrderIds, NEW p \in Prices,
             executeIncrease(id, p) \/ executeDecrease(id, p) \/ executeDecreaseGone(id, p)
      PROVE  Fine
  <2>1. CASE executeIncrease(id, p)
    BY <1>2, <2>1, IncreaseFill
  <2>2. CASE executeDecrease(id, p)
    <3> DEFINE o == orders[id]
               delta == closedSize(o, positions[KeyOf(o)])
    <3>1. /\ o.market \in GpuIds /\ o.isLong \in BOOLEAN
          /\ delta \in 1..positions[KeyOf(o)].size /\ positions[KeyOf(o)] \in Position
          /\ market' = [market EXCEPT ![o.market] =
                          addOpenInterest(accrue(market[o.market], now), o.isLong, -delta)]
      BY <2>2, DecreaseFill
    <3> HIDE DEF delta
    <3>2. -delta \in Int
      BY <3>1 DEF Position
    <3> HIDE DEF Fine, o
    <3> QED BY <1>2, <3>1, <3>2
  <2>3. CASE executeDecreaseGone(id, p)
    <3>1. market' = [market EXCEPT ![orders[id].market] = accrue(market[orders[id].market], now)]
      BY <1>1, <2>3 DEF executeDecreaseGone
    <3>2. orders[id].market \in GpuIds
      BY DEF Core, TypeOK, Order
    <3> DEFINE m == accrue(market[orders[id].market], now)
    <3>3. m.params = market[orders[id].market].params
      BY <1>1, <3>2, AccrueFacts
    <3>4. market' = [market EXCEPT ![orders[id].market] = m]
      BY <3>1
    <3> HIDE DEF m
    <3> QED BY <1>1, <3>2, <3>3, <3>4
  <2> QED BY <1>8, <2>1, <2>2, <2>3
<1>9. ASSUME NEW p \in Prices, NEW a \in Accounts, NEW h \in GpuIds, NEW l \in BOOLEAN,
             liquidate(a, h, l, p)
      PROVE  Fine
  <2>1. market' = [market EXCEPT ![h] = addOpenInterest(accrue(market[h], now), l,
                                                        -positions[<<a, h, l>>].size)]
    BY <1>9 DEF liquidate
  <2>2. positions[<<a, h, l>>].size \in Nat
    BY DEF Core, TypeOK, PositionKeys, Position
  <2>3. -positions[<<a, h, l>>].size \in Int
    BY <2>2
  <2> HIDE DEF Fine
  <2> QED BY <1>2, <2>1, <2>3
<1>10. CASE KeeperStep
  <2> HIDE DEF Fine
  <2> QED BY <1>8, <1>9, <1>10 DEF KeeperStep, Fine
<1>11. CASE EnvironmentStep
  <2>1. market' = market
    BY <1>11, Zenon DEF EnvironmentStep, VaultDeposit, VaultRedeem, NextBlock, engineVars
  <2> QED BY <2>1
<1>12. CASE UNCHANGED vars
  <2>1. market' = market
    BY <1>12 DEF vars, engineVars
  <2> QED BY <2>1
<1> QED BY <1>6, <1>7, <1>10, <1>11, <1>12 DEF Next

(* The caps and the sizes they bound stay below SCALE.                     *)
LEMMA CappedStep ==
  ASSUME CapsBelowScale, Core, SizesCapped, [Next]_vars
  PROVE  SizesCapped'
<1>1. ASSUME NEW g \in GpuIds PROVE market'[g].params.maxPositionUsd <= SCALE
  BY ParamsMove DEF CapsBelowScale, SizesCapped
<1>2. ASSUME NEW k \in PositionKeys PROVE positions'[k].size <= SCALE
  <2>1. positions[k].size \in Nat /\ positions[k].size <= SCALE /\ SCALE \in Nat
    BY DenominatorsPositive DEF Core, TypeOK, Position, SizesCapped
  <2>2. CASE positions'[k] = positions[k]
    BY <2>1, <2>2
  <2>3. CASE positions'[k] = NoPosition
    BY <2>1, <2>3 DEF NoPosition
  <2>4. ASSUME NEW id \in OrderIds, NEW p \in Prices, KeyOf(orders[id]) = k, executeIncrease(id, p)
        PROVE  positions'[k].size <= SCALE
    <3>1. /\ positions'[k].size <= market[orders[id].market].params.maxPositionUsd
          /\ orders[id].market \in GpuIds /\ positions'[k].size = positions[k].size + orders[id].size
          /\ orders[id].size \in Nat
      BY <2>4, IncreaseFill
    <3>2. market[orders[id].market].params.maxPositionUsd \in Nat
      BY <3>1 DEF Core, TypeOK, Market, MarketParams
    <3>3. market[orders[id].market].params.maxPositionUsd <= SCALE
      BY <3>1 DEF SizesCapped
    <3> QED BY <2>1, <3>1, <3>2, <3>3
  <2>5. ASSUME NEW id \in OrderIds, NEW p \in Prices, KeyOf(orders[id]) = k, executeDecrease(id, p)
        PROVE  positions'[k].size <= SCALE
    <3> DEFINE o == orders[id]
               pos == positions[k]
               m == accrue(market[o.market], now)
               delta == closedSize(o, pos)
               c == closeSlice(m, pos, o.isLong, delta, p)
               after == remainder(m, pos, o.isLong, delta, p, c)
    <3>1. /\ o.isLong \in BOOLEAN /\ pos \in Position /\ pos.entry > 0 /\ m \in Market
          /\ p \in Nat \ {0} /\ delta \in 1..pos.size /\ Behind(m, pos, o.isLong)
          /\ positions' = [positions EXCEPT ![k] = after]
      BY <2>5, DecreaseFill
    <3> HIDE DEF m, delta, o
    <3>2. after.size = pos.size - delta
      BY <3>1, RemainderFacts
    <3>3. positions'[k] = after
      BY <3>1 DEF Core, TypeOK
    <3> HIDE DEF after
    <3> QED BY <2>1, <3>1, <3>2, <3>3
  <2> QED BY <2>2, <2>3, <2>4, <2>5, PositionMoves
<1> QED BY <1>1, <1>2 DEF SizesCapped

-----------------------------------------------------------------------------
(* What PartialCloseKeepsDebt asks of one step.                            *)
DebtKept ==
  \A k \in PositionKeys :
    LET pos == positions[k]
        m == market'[k[2]]
    IN  positions'[k].size \in 1..(pos.size - 1) =>
          debt(m, pos, k[3], pos.size)
            <= debt(m, pos, k[3], pos.size - positions'[k].size)
                 + debt(m, positions'[k], k[3], positions'[k].size)

(* A step that shrinks a position without closing it is a partial close of *)
(* an order of its own, and puts back what it does not settle.             *)
LEMMA DebtStep ==
  ASSUME Core, SizesCapped, [Next]_vars
  PROVE  DebtKept
<1> SUFFICES ASSUME NEW k \in PositionKeys, positions'[k].size \in 1..(positions[k].size - 1)
             PROVE  debt(market'[k[2]], positions[k], k[3], positions[k].size)
                      <= debt(market'[k[2]], positions[k], k[3],
                              positions[k].size - positions'[k].size)
                           + debt(market'[k[2]], positions'[k], k[3], positions'[k].size)
  BY DEF DebtKept
<1>1. /\ positions \in [PositionKeys -> Position] /\ positions[k] \in Position
      /\ positions[k].size \in Nat /\ positions[k].size <= SCALE
      /\ market \in [GpuIds -> Market]
  BY DEF Core, TypeOK, Position, SizesCapped
<1>2. positions'[k] # positions[k] /\ positions'[k] # NoPosition
  BY <1>1 DEF NoPosition
<1>3. PICK id \in OrderIds, p \in Prices :
        KeyOf(orders[id]) = k /\ (executeIncrease(id, p) \/ executeDecrease(id, p))
  BY <1>2, PositionMoves
<1>4. ~executeIncrease(id, p)
  <2>1. ASSUME executeIncrease(id, p) PROVE FALSE
    <3>1. positions'[k].size = positions[k].size + orders[id].size /\ orders[id].size \in Nat
      BY <1>3, <2>1, IncreaseFill
    <3> QED BY <1>1, <3>1
  <2> QED BY <2>1
<1> DEFINE o == orders[id]
           pos == positions[k]
           m == accrue(market[o.market], now)
           delta == closedSize(o, pos)
           c == closeSlice(m, pos, o.isLong, delta, p)
           after == remainder(m, pos, o.isLong, delta, p, c)
           n == addOpenInterest(m, o.isLong, -delta)
<1>5. /\ o.market \in GpuIds /\ o.isLong \in BOOLEAN /\ k[2] = o.market /\ k[3] = o.isLong
      /\ pos.entry > 0 /\ m \in Market /\ p \in Nat \ {0}
      /\ delta \in 1..pos.size /\ Behind(m, pos, o.isLong)
      /\ positions' = [positions EXCEPT ![k] = after]
      /\ market' = [market EXCEPT ![o.market] = n]
  BY <1>3, <1>4, DecreaseFill
<1> HIDE DEF m, delta, o
<1>6. after.size = pos.size - delta
  BY <1>1, <1>5, RemainderFacts
<1>7. positions'[k] = after /\ market'[k[2]] = n
  BY <1>1, <1>5
<1>8. delta \in Nat /\ -delta \in Int /\ delta < pos.size /\ pos.size - after.size = delta
  BY <1>1, <1>5, <1>6, <1>7
<1>9. debt(m, pos, o.isLong, pos.size)
        <= debt(m, pos, o.isLong, delta) + debt(m, after, o.isLong, pos.size - delta)
  BY <1>1, <1>5, <1>8, SliceKeepsDebt
<1>10. chargeCum(n, o.isLong) = chargeCum(m, o.isLong) /\ n.borrow = m.borrow
  BY <1>5, <1>8, CumulativesAgree
<1> HIDE DEF n, after
<1>11. \A x, s : debt(n, x, o.isLong, s) = debt(m, x, o.isLong, s)
  BY <1>10 DEF debt
<1> QED BY <1>5, <1>6, <1>7, <1>8, <1>9, <1>11

(* _rewindFunding: whatever the sizes, rates and clamps, a partial close   *)
(* forgives no debt, as long as the owner's size caps are below SCALE.     *)
THEOREM DebtSurvives == CapsBelowScale /\ Spec => PartialCloseKeepsDebt
<1>1. Init /\ CapsBelowScale => SizesCapped
  BY DenominatorsPositive DEF Init, SizesCapped, NoMarket, NoPosition
<1>2. CapsBelowScale /\ Core /\ SizesCapped /\ [Next]_vars => SizesCapped'
  BY CappedStep
<1>3. Core /\ SizesCapped /\ [Next]_vars => [DebtKept]_vars
  BY DebtStep
<1>4. CapsBelowScale /\ Spec => [][DebtKept]_vars
  <2>1. ASSUME CapsBelowScale PROVE Spec => [][DebtKept]_vars
    <3>1. Init => SizesCapped
      BY <1>1, <2>1
    <3>2. Core /\ SizesCapped /\ [Next]_vars => SizesCapped'
      BY <1>2, <2>1
    <3> QED BY <1>3, <3>1, <3>2, CoreInvariant, PTL DEF Spec
  <2> QED BY <2>1
<1> QED BY <1>4 DEF PartialCloseKeepsDebt, DebtKept

-----------------------------------------------------------------------------
(* What NoGainAtFillPrice asks of one step.                                *)
NothingGained ==
  \A id \in OrderIds :
    orders[id].status = "Pending" /\ orders'[id].status = "Executed" =>
      LET o == orders[id]
          pos == positions[KeyOf(o)]
          m == market'[o.market]
          price == epochPrice'[o.market]
          due == claimableOf'[o.account] - claimableOf[o.account]
          fee == IF o.kind = "MarketIncrease"
                 THEN feeBps(o.size, m.params.openFeeBps)
                 ELSE feeBps(pos.size - positions'[KeyOf(o)].size, m.params.closeFeeBps)
      IN  \/ o.kind # "MarketIncrease" /\ due = 0
          \/ o.kind = "MarketIncrease" /\ debt(m, pos, o.isLong, pos.size) > pos.collateral
          \/ /\ o.kind = "MarketIncrease" /\ ~o.isLong
             /\ pos.size > 0 /\ price # pos.entry
          \/ equityOf(m, positions'[KeyOf(o)], o.isLong, price) + due
               <= equityOf(m, pos, o.isLong, price) + o.collateral - fee

(* Equity does not read the open interest.                                 *)
LEMMA SameEquity ==
  ASSUME NEW m \in Market, NEW side \in BOOLEAN, NEW d \in Int
  PROVE  LET n == addOpenInterest(m, side, d)
         IN  /\ n.params = m.params
             /\ \A x, p : equityOf(n, x, side, p) = equityOf(m, x, side, p)
             /\ \A x, s : debt(n, x, side, s) = debt(m, x, side, s)
<1> DEFINE n == addOpenInterest(m, side, d)
<1>1. /\ chargeCum(n, side) = chargeCum(m, side) /\ creditCum(n, side) = creditCum(m, side)
      /\ n.borrow = m.borrow /\ n.params = m.params
  BY CumulativesAgree
<1> HIDE DEF n
<1>2. ASSUME NEW x, NEW p PROVE equityOf(n, x, side, p) = equityOf(m, x, side, p)
  BY <1>1, EquityParts
<1>3. ASSUME NEW x, NEW s PROVE debt(n, x, side, s) = debt(m, x, side, s)
  BY <1>1 DEF debt
<1> QED BY <1>1, <1>2, <1>3 DEF n

(* A pending market increase brings its collateral, other orders none.     *)
Collateralless ==
  \A id \in OrderIds : orders[id].kind # "MarketIncrease" => orders[id].collateral = 0

(* The two kinds of fill.                                                  *)
LEMMA GainStep ==
  ASSUME Core, SizesCapped, Collateralless, [Next]_vars
  PROVE  NothingGained
<1> SUFFICES ASSUME NEW id \in OrderIds, orders[id].status = "Pending",
                    orders'[id].status = "Executed"
             PROVE  LET o == orders[id]
                        pos == positions[KeyOf(o)]
                        m == market'[o.market]
                        price == epochPrice'[o.market]
                        due == claimableOf'[o.account] - claimableOf[o.account]
                        fee == IF o.kind = "MarketIncrease"
                               THEN feeBps(o.size, m.params.openFeeBps)
                               ELSE feeBps(pos.size - positions'[KeyOf(o)].size,
                                           m.params.closeFeeBps)
                    IN  \/ o.kind # "MarketIncrease" /\ due = 0
                        \/ /\ o.kind = "MarketIncrease"
                           /\ debt(m, pos, o.isLong, pos.size) > pos.collateral
                        \/ /\ o.kind = "MarketIncrease" /\ ~o.isLong
                           /\ pos.size > 0 /\ price # pos.entry
                        \/ equityOf(m, positions'[KeyOf(o)], o.isLong, price) + due
                             <= equityOf(m, pos, o.isLong, price) + o.collateral - fee
  BY DEF NothingGained
<1>1. PICK p \in Prices : executeIncrease(id, p) \/ executeDecrease(id, p)
  BY ExecutedByFill
<1> DEFINE o == orders[id]
           key == KeyOf(o)
           pos == positions[key]
           m == accrue(market[o.market], now)
           new == positions'[key]
<1>2. CASE executeDecrease(id, p)
  <2> DEFINE delta == closedSize(o, pos)
             c == closeSlice(m, pos, o.isLong, delta, p)
             after == remainder(m, pos, o.isLong, delta, p, c)
             n == addOpenInterest(m, o.isLong, -delta)
             fee == feeBps(delta, m.params.closeFeeBps)
  <2>1. /\ o.kind # "MarketIncrease" /\ o.market \in GpuIds /\ o.isLong \in BOOLEAN
        /\ key \in PositionKeys
        /\ pos \in Position /\ pos.entry > 0 /\ m \in Market /\ p \in Nat \ {0}
        /\ delta \in 1..pos.size /\ Behind(m, pos, o.isLong) /\ c.due \in Nat
        /\ positions' = [positions EXCEPT ![key] = after]
        /\ market' = [market EXCEPT ![o.market] = n]
        /\ claimableOf'[o.account] - claimableOf[o.account] = c.due
        /\ epochPrice'[o.market] = p
    BY <1>2, DecreaseFill
  <2>2. /\ pos.size <= SCALE /\ pos.size \in Nat /\ o.collateral = 0
        /\ new = after /\ market'[o.market] = n
    BY <2>1 DEF SizesCapped, Collateralless, Core, TypeOK, Position
  <2> HIDE DEF m, delta, pos, key, o, new
  <2>3. after.size = pos.size - delta
    BY <2>1, RemainderFacts
  <2>4. pos.size - new.size = delta /\ -delta \in Int
    BY <2>1, <2>2, <2>3
  <2>5. CASE c.due > 0
    <3>1. equityOf(m, after, o.isLong, p) + c.due <= equityOf(m, pos, o.isLong, p) - fee
      BY <2>1, <2>2, <2>5, DecreaseGain
    <3>2. /\ n.params = m.params
          /\ equityOf(n, after, o.isLong, p) = equityOf(m, after, o.isLong, p)
          /\ equityOf(n, pos, o.isLong, p) = equityOf(m, pos, o.isLong, p)
      BY <2>1, <2>4, SameEquity
    <3>3. equityOf(m, pos, o.isLong, p) \in Int /\ fee \in Nat
      <4>1. delta \in Nat /\ m.params.closeFeeBps \in Nat
        BY <2>1 DEF Market, MarketParams, Position
      <4> QED BY <2>1, <4>1, EquityInt, FeeNat
    <3> HIDE DEF c, after, n, fee
    <3>4. equityOf(n, new, o.isLong, p) + c.due <= equityOf(n, pos, o.isLong, p) + o.collateral - fee
      BY <2>2, <3>1, <3>2, <3>3
    <3>5. fee = feeBps(pos.size - new.size, n.params.closeFeeBps)
      BY <2>4, <3>2 DEF fee
    <3> QED BY <2>1, <2>2, <3>4, <3>5 DEF o, pos, key, new
  <2>6. CASE ~(c.due > 0)
    <3>1. c.due = 0
      BY <2>1, <2>6
    <3> HIDE DEF c
    <3> QED BY <2>1, <3>1 DEF o
  <2> QED BY <2>5, <2>6
<1>3. CASE executeIncrease(id, p)
  <2> DEFINE t == touched(m, pos, o.isLong)
             n == addOpenInterest(m, o.isLong, o.size)
             fee == feeBps(o.size, m.params.openFeeBps)
  <2>1. /\ o.kind = "MarketIncrease" /\ o.market \in GpuIds /\ o.isLong \in BOOLEAN
        /\ o.size \in Nat /\ o.collateral \in Nat /\ key \in PositionKeys
        /\ pos \in Position /\ (pos.size > 0 => pos.entry > 0)
        /\ m \in Market /\ p \in Nat \ {0}
        /\ new.size = pos.size + o.size
        /\ new.entry = newEntry(pos, o.isLong, o.size, p)
        /\ new.collateral = t.pos.collateral + o.collateral - fee
        /\ new.earnedFunding = t.pos.earnedFunding
        /\ new.feeCkpt = t.pos.feeCkpt /\ new.creditCkpt = t.pos.creditCkpt
        /\ new.borrowCkpt = t.pos.borrowCkpt
        /\ market' = [market EXCEPT ![o.market] = n]
        /\ claimableOf' = claimableOf /\ epochPrice'[o.market] = p
    BY <1>3, IncreaseFill
  <2>2. /\ market'[o.market] = n /\ claimableOf[o.account] \in Nat
        /\ pos.size \in Nat /\ pos.collateral \in Nat
    BY <2>1 DEF Core, TypeOK, Order, Position
  <2>3. m.params.openFeeBps \in Nat
    BY <2>1 DEF Market, MarketParams
  <2> HIDE DEF m, pos, key, new, o
  <2>4. fee \in Nat
    BY <2>1, <2>3, FeeNat
  <2>5. /\ n.params = m.params
        /\ equityOf(n, new, o.isLong, p) = equityOf(m, new, o.isLong, p)
        /\ equityOf(n, pos, o.isLong, p) = equityOf(m, pos, o.isLong, p)
        /\ debt(n, pos, o.isLong, pos.size) = debt(m, pos, o.isLong, pos.size)
    BY <2>1, SameEquity
  <2>6. fee = feeBps(o.size, n.params.openFeeBps)
    BY <2>5 DEF fee
  <2>7. debt(m, pos, o.isLong, pos.size) \in Nat
    BY <2>1, <2>2, DebtNat
  <2>8. CASE debt(m, pos, o.isLong, pos.size) > pos.collateral
    BY <2>1, <2>2, <2>5, <2>8 DEF o, pos, key
  <2>9. CASE ~o.isLong /\ pos.size > 0 /\ p # pos.entry
    BY <2>1, <2>2, <2>9 DEF o, pos, key
  <2>10. CASE /\ ~(debt(m, pos, o.isLong, pos.size) > pos.collateral)
              /\ ~(~o.isLong /\ pos.size > 0 /\ p # pos.entry)
    <3>1. debt(m, pos, o.isLong, pos.size) <= pos.collateral
      BY <2>2, <2>7, <2>10
    <3>2. o.isLong \/ pos.size = 0 \/ p = pos.entry
      BY <2>2, <2>10
    <3> HIDE DEF fee
    <3>3. equityOf(m, new, o.isLong, p) <= equityOf(m, pos, o.isLong, p) + o.collateral - fee
      <4>1. /\ new.collateral = touched(m, pos, o.isLong).pos.collateral + o.collateral - fee
            /\ new.earnedFunding = touched(m, pos, o.isLong).pos.earnedFunding
            /\ new.feeCkpt = touched(m, pos, o.isLong).pos.feeCkpt
            /\ new.creditCkpt = touched(m, pos, o.isLong).pos.creditCkpt
            /\ new.borrowCkpt = touched(m, pos, o.isLong).pos.borrowCkpt
        BY <2>1
      <4> HIDE DEF t, n
      <4>2. /\ m \in Market /\ pos \in Position /\ o.isLong \in BOOLEAN /\ p \in Nat \ {0}
            /\ o.size \in Nat /\ o.collateral \in Nat /\ fee \in Nat
            /\ (pos.size > 0 => pos.entry > 0)
            /\ new.size = pos.size + o.size
            /\ new.entry = newEntry(pos, o.isLong, o.size, p)
        BY <2>1, <2>4
      <4> QED BY ONLY <3>1, <3>2, <4>1, <4>2, IncreaseGain
    <3> HIDE DEF t
    <3> HIDE DEF n
    <3>4. equityOf(n, new, o.isLong, p) + 0
            <= equityOf(n, pos, o.isLong, p) + o.collateral - fee
      <4>1. equityOf(m, new, o.isLong, p) + 0 = equityOf(m, new, o.isLong, p)
        <5>1. new \in Position
          BY <2>1, CoreNext DEF Core, TypeOK, new
        <5>2. new.size > 0 => new.entry > 0
          BY <2>1, <2>2, EntryPositive
        <5>3. equityOf(m, new, o.isLong, p) \in Int
          BY <2>1, <5>1, <5>2, EquityInt
        <5> QED BY <5>3
      <4> QED BY <2>5, <3>3, <4>1
    <3>5. claimableOf'[o.account] - claimableOf[o.account] = 0
      BY <2>1, <2>2
    <3> QED BY <2>1, <2>2, <2>6, <3>4, <3>5 DEF o, pos, key, new
  <2> QED BY <2>8, <2>9, <2>10
<1> QED BY <1>1, <1>2, <1>3

(* No step gives a decrease or trigger order collateral of its own.        *)
LEMMA CollateralStep ==
  ASSUME Core, Collateralless, [Next]_vars
  PROVE  Collateralless'
<1>1. orders \in [OrderIds -> Order] /\ orderNonce \in Nat
  BY DEF Core, TypeOK
<1>2. ASSUME UNCHANGED orders PROVE Collateralless'
  BY <1>2 DEF Collateralless
<1>3. ASSUME NEW id \in OrderIds, NEW st, orders' = [orders EXCEPT ![id].status = st]
      PROVE  Collateralless'
  <2>1. \A j \in OrderIds : /\ orders'[j].kind = orders[j].kind
                            /\ orders'[j].collateral = orders[j].collateral
    BY <1>1, <1>3 DEF Order
  <2> QED BY <2>1 DEF Collateralless
<1>4. ASSUME NEW o, o.kind # "MarketIncrease" => o.collateral = 0, NEW old,
             \/ orders' = [orders EXCEPT ![orderNonce + 1] = o]
             \/ orders' = [cancelled(orders, old) EXCEPT ![orderNonce + 1] = o]
      PROVE  Collateralless'
  <2> SUFFICES ASSUME NEW j \in OrderIds, orders'[j].kind # "MarketIncrease"
               PROVE  orders'[j].collateral = 0
    BY DEF Collateralless
  <2>1. CASE j = orderNonce + 1
    <3>1. orders'[j] = o
      BY <1>1, <1>4, <2>1 DEF cancelled
    <3> QED BY <1>4, <3>1
  <2>2. CASE j # orderNonce + 1
    <3>1. orders'[j] = orders[j] \/ orders'[j] = [orders[j] EXCEPT !.status = "Cancelled"]
      BY <1>1, <1>4, <2>2 DEF cancelled
    <3>2. orders'[j].kind = orders[j].kind /\ orders'[j].collateral = orders[j].collateral
      BY <1>1, <3>1 DEF Order
    <3> QED BY <3>2 DEF Collateralless
  <2> QED BY <2>1, <2>2
<1>5. CASE OwnerStep \/ EnvironmentStep \/ UNCHANGED vars
  BY <1>2, <1>5
     DEF OwnerStep, EnvironmentStep, createMarket, setMarketParams, setMarketEnabled,
         setMinOrderDelay, setEngineMaxWithdrawPerBlock, pause, unpause, VaultDeposit,
         VaultRedeem, NextBlock, engineVars, vars
<1>6. ASSUME NEW a \in Accounts, NEW g \in GpuIds, NEW l \in BOOLEAN, NEW s \in Sizes,
             NEW p \in LimitPrices, NEW f \in ExecFees, NEW c \in Collaterals,
             createIncrease(a, g, l, s, c, p, f)
      PROVE  Collateralless'
  <2> DEFINE o == NewOrder(a, g, l, "MarketIncrease", s, c, p, 0, f)
  <2>1. o.kind = "MarketIncrease" /\ orders' = [orders EXCEPT ![orderNonce + 1] = o]
    BY <1>6 DEF createIncrease, NewOrder
  <2> HIDE DEF o
  <2> QED BY <1>4, <2>1
<1>7. ASSUME NEW a \in Accounts, NEW g \in GpuIds, NEW l \in BOOLEAN, NEW s \in Sizes,
             NEW p \in LimitPrices, NEW f \in ExecFees, createDecrease(a, g, l, s, p, f)
      PROVE  Collateralless'
  <2> DEFINE o == NewOrder(a, g, l, "MarketDecrease", s, 0, p, 0, f)
  <2>1. o.collateral = 0 /\ orders' = [orders EXCEPT ![orderNonce + 1] = o]
    BY <1>7 DEF createDecrease, NewOrder
  <2> HIDE DEF o
  <2> QED BY <1>4, <2>1
<1>8. ASSUME NEW a \in Accounts, NEW g \in GpuIds, NEW l \in BOOLEAN, NEW s \in Sizes,
             NEW p \in LimitPrices, NEW f \in ExecFees, NEW kind \in TriggerKinds,
             createTrigger(a, g, l, kind, s, p, f)
      PROVE  Collateralless'
  <2> DEFINE o == NewOrder(a, g, l, kind, s, 0, 0, p, f)
             old == activeTrigger[TriggerKeyOf(o)]
  <2>1. o.collateral = 0
    BY DEF NewOrder
  <2>2. \/ orders' = [orders EXCEPT ![orderNonce + 1] = o]
        \/ orders' = [cancelled(orders, old) EXCEPT ![orderNonce + 1] = o]
    BY <1>8 DEF createTrigger
  <2> HIDE DEF o, old
  <2> QED BY <1>4, <2>1, <2>2
<1>9. ASSUME NEW id \in OrderIds, cancelOrder(id) PROVE Collateralless'
  BY <1>3, <1>9 DEF cancelOrder, cancelled
<1>10. ASSUME NEW a \in Accounts, NEW x \in ClaimAmounts, NEW to \in Payees, claim(a, x, to) PROVE Collateralless'
  BY <1>2, <1>10 DEF claim
<1>11. ASSUME NEW id \in OrderIds, NEW p \in Prices,
              \/ executeIncrease(id, p)
              \/ executeDecreaseGone(id, p)
              \/ executeDecrease(id, p)
       PROVE  Collateralless'
  <2>1. \/ orders' = [orders EXCEPT ![id].status = "Executed"]
        \/ orders' = [orders EXCEPT ![id].status = "Cancelled"]
    BY <1>11 DEF executeIncrease, executeDecreaseGone, executeDecrease, cancelled
  <2> QED BY <1>3, <2>1
<1>12. ASSUME NEW p \in Prices, NEW a \in Accounts, NEW g \in GpuIds, NEW l \in BOOLEAN,
              liquidate(a, g, l, p)
       PROVE  Collateralless'
  BY <1>2, <1>12 DEF liquidate
<1>13. CASE TraderStep
  BY <1>6, <1>7, <1>8, <1>9, <1>10, <1>13, Zenon DEF TraderStep
<1>14. CASE KeeperStep
  BY <1>11, <1>12, <1>14, Zenon DEF KeeperStep
<1> QED BY <1>5, <1>13, <1>14 DEF Next

(* executeOrder, for every amount, rate and price: a trade at the price it *)
(* fills at, its fee and its collateral counted, makes nobody richer.      *)
THEOREM NoFreeGain == CapsBelowScale /\ Spec => NoGainAtFillPrice
<1>1. Init /\ CapsBelowScale => SizesCapped
  BY DenominatorsPositive DEF Init, SizesCapped, NoMarket, NoPosition
<1>2. CapsBelowScale /\ Core /\ SizesCapped /\ [Next]_vars => SizesCapped'
  BY CappedStep
<1>3. Init => Collateralless
  BY DEF Init, Collateralless, NoOrder
<1>4. Core /\ Collateralless /\ [Next]_vars => Collateralless'
  BY CollateralStep
<1>5. Core /\ SizesCapped /\ Collateralless /\ [Next]_vars => [NothingGained]_vars
  BY GainStep
<1>6. CapsBelowScale /\ Spec => [][NothingGained]_vars
  <2>1. ASSUME CapsBelowScale PROVE Spec => [][NothingGained]_vars
    <3>1. Init => SizesCapped
      BY <1>1, <2>1
    <3>2. Core /\ SizesCapped /\ [Next]_vars => SizesCapped'
      BY <1>2, <2>1
    <3> QED BY <1>3, <1>4, <1>5, <3>1, <3>2, CoreInvariant, PTL DEF Spec
  <2> QED BY <2>1
<1> QED BY <1>6 DEF NoGainAtFillPrice, NothingGained
=============================================================================
