-------------------------- MODULE SpotMarketProofs --------------------------
(***************************************************************************)
(* The spot market's books are exact, no trade costs the protocol, the     *)
(* tail of an exact-in buy is dust, and the indexer's tables mirror the    *)
(* chain, for every set of GPUs, price, fee, spread, cap and amount.       *)
(***************************************************************************)
EXTENDS MCSpotMarket, AmountProofs

(* What the hook can read of a market.                                     *)
Markets ==
  [price : Prices, askBps : 0..MaxSpread, bidBps : 0..MaxSpread, polFeeBps : 0..MaxSpread,
   polPaused : BOOLEAN, hookFeeBps : 0..MaxHookFee, issueFeeBps : 0..MaxIssuanceFee,
   open : BOOLEAN, bid : Nat, ask : Nat, capLeft : Nat]

-----------------------------------------------------------------------------
(* The hook's arithmetic                                                   *)

(* The constants, as the arithmetic uses them.                             *)
LEMMA Constants ==
  /\ BPS \in Nat \ {0} /\ CD \in Nat \ {0} /\ Unit \in Nat \ {0} /\ MaxUint \in Nat
  /\ MaxSpread \in Nat /\ MaxHookFee \in Nat /\ MaxIssuanceFee \in Nat
  /\ MaxSpread < BPS /\ MaxHookFee < BPS /\ MaxIssuanceFee < BPS
  /\ GusdDust \in Nat /\ GpuDust \in Nat
<1>1. BPS \in Nat \ {0} /\ CD \in Nat \ {0} /\ MaxUint \in Nat /\ GusdDust \in Nat /\ GpuDust \in Nat
  BY HookMathConstants
<1>2. MaxSpread \in 0..(BPS - 1) /\ MaxHookFee \in 0..(BPS - 1) /\ MaxIssuanceFee \in 0..(BPS - 1)
  BY SpotConstants
<1>3. CD * BPS \in Nat \ {0}
  BY <1>1
<1> QED
  BY <1>1, <1>2, <1>3 DEF Unit

(* The fields of a market.                                                 *)
LEMMA MarketFields ==
  ASSUME NEW s \in Markets
  PROVE  /\ s.price \in Nat \ {0} /\ s.polPaused \in BOOLEAN /\ s.open \in BOOLEAN
         /\ s.askBps \in Nat /\ s.askBps < BPS
         /\ s.bidBps \in Nat /\ s.bidBps < BPS
         /\ s.polFeeBps \in Nat /\ s.polFeeBps < BPS
         /\ s.hookFeeBps \in Nat /\ s.hookFeeBps < BPS
         /\ s.issueFeeBps \in Nat /\ s.issueFeeBps < BPS
         /\ s.bid \in Nat /\ s.ask \in Nat /\ s.capLeft \in Nat
<1>1. s.price \in Nat \ {0}
  BY SpotConstants DEF Markets
<1> QED
  BY <1>1, Constants DEF Markets

(* The POL asks at least the report's price and bids at most it.           *)
LEMMA Edges ==
  ASSUME NEW s \in Markets
  PROVE  /\ denomAsk(s) \in Nat \ {0} /\ s.price * BPS <= denomAsk(s)
         /\ bidDenom(s) \in Nat \ {0} /\ bidDenom(s) <= s.price * BPS
         /\ s.price * (BPS + s.issueFeeBps) \in Nat \ {0}
<1> DEFINE p == s.price
           e == effAskBps(s)
           b == s.bidBps
           f == s.issueFeeBps
<1>1. p \in Nat \ {0} /\ e \in Nat /\ b \in Nat /\ b < BPS /\ f \in Nat /\ BPS \in Nat \ {0}
  BY MarketFields, Constants DEF effAskBps, Lesser
<1>2. denomAsk(s) = p * (BPS + e) /\ bidDenom(s) = p * (BPS - b)
  BY DEF denomAsk, bidDenom
<1> HIDE DEF p, e, b, f
<1>3. BPS + e \in Nat \ {0} /\ BPS - b \in Nat \ {0} /\ BPS + f \in Nat \ {0}
  BY <1>1
<1>4. p * (BPS + e) \in Nat \ {0} /\ p * (BPS - b) \in Nat \ {0} /\ p * (BPS + f) \in Nat \ {0}
  BY <1>1, <1>3
<1>5. p * BPS <= p * (BPS + e) /\ p * (BPS - b) <= p * BPS
  BY <1>1, <1>3
<1> QED
  BY <1>2, <1>4, <1>5 DEF p, f

(* gUSD that buys gpuFor of it, or less, is enough for it.                 *)
LEMMA GpuForFits ==
  ASSUME NEW b \in Nat, NEW d \in Nat \ {0}, NEW y \in Nat, y <= gpuFor(b, d)
  PROVE  /\ gpuFor(b, d) \in Nat
         /\ MulDivCeil(y, d, Unit) \in Nat /\ MulDivCeil(y, d, Unit) <= b
         /\ MulDivFloor(y, d, Unit) \in Nat /\ MulDivFloor(y, d, Unit) <= b
<1>1. gpuFor(b, d) \in Nat /\ gpuFor(b, d) * d <= b * Unit
  BY FloorBelow, Constants DEF gpuFor
<1>2. y * d <= gpuFor(b, d) * d /\ y * d \in Nat /\ gpuFor(b, d) * d \in Nat /\ b * Unit \in Nat
  BY <1>1, ProductMonotone, ProductNat, Constants
<1>3. y * d <= b * Unit
  BY <1>1, <1>2
<1>4. MulDivCeil(y, d, Unit) \in Nat /\ MulDivCeil(y, d, Unit) <= b
  BY <1>3, CeilAbove, Constants
<1>5. MulDivFloor(y, d, Unit) \in Nat /\ MulDivFloor(y, d, Unit) * Unit <= b * Unit
  <2> DEFINE q == MulDivFloor(y, d, Unit)
  <2>1. q \in Nat /\ q * Unit <= y * d
    BY FloorBelow, Constants
  <2> HIDE DEF q
  <2>2. q * Unit \in Nat
    BY <2>1, ProductNat, Constants
  <2>3. q * Unit <= b * Unit
    BY <1>2, <1>3, <2>1, <2>2
  <2> QED
    BY <2>1, <2>3 DEF q
<1>6. MulDivFloor(y, d, Unit) <= b
  BY <1>5, CancelFactor, Constants
<1> QED
  BY <1>1, <1>4, <1>5, <1>6

(* The fees are parts of what they are taken from.                         *)
LEMMA FeesWithin ==
  ASSUME NEW s \in Markets, NEW x \in Nat
  PROVE  /\ polFee(s, x) \in Nat /\ polFee(s, x) <= x
         /\ hookFee(s, x) \in Nat /\ hookFee(s, x) <= x
<1>1. /\ s.polFeeBps \in Nat /\ s.polFeeBps <= BPS
      /\ s.hookFeeBps \in Nat /\ s.hookFeeBps <= BPS /\ BPS \in Nat \ {0}
  BY MarketFields, Constants
<1> QED
  BY <1>1, CeilShare DEF polFee, hookFee

(* The issue price covers the report's price of what is issued.            *)
LEMMA QuoteCovers ==
  ASSUME NEW s \in Markets, NEW y \in Nat
  PROVE  LET q == quoteIssue(s, y)
         IN  /\ q.base \in Nat /\ q.fee \in Nat /\ q.total \in Nat
             /\ q.total = q.base + q.fee
             /\ y * s.price <= q.base * CD
<1> DEFINE base == MulDivCeil(y, s.price, CD)
           fee == MulDivCeil(base, s.issueFeeBps, BPS)
<1>1. base \in Nat /\ base * CD >= y * s.price
  BY CeilAbove, MarketFields, Constants
<1>2. base * CD \in Nat /\ y * s.price \in Nat
  BY <1>1, ProductNat, MarketFields, Constants
<1>3. fee \in Nat
  BY <1>1, CeilAbove, MarketFields, Constants
<1>4. quoteIssue(s, y) = [base |-> base, fee |-> fee, total |-> base + fee]
  BY DEF quoteIssue
<1> HIDE DEF base, fee
<1> QED
  BY <1>1, <1>2, <1>3, <1>4

(* What the POL charges covers the report's price of what it delivers.     *)
LEMMA SpendCovers ==
  ASSUME NEW s \in Markets, NEW y \in Nat
  PROVE  polSpend(s, y) \in Nat /\ y * s.price <= polSpend(s, y) * CD
<1> DEFINE d == denomAsk(s)
           c == polSpend(s, y)
           p == s.price
<1>1. d \in Nat \ {0} /\ p * BPS <= d /\ p \in Nat /\ BPS \in Nat \ {0} /\ CD \in Nat
  BY Edges, MarketFields, Constants
<1>2. c \in Nat /\ y * d <= c * Unit
  BY <1>1, CeilAbove, Constants DEF polSpend
<1> HIDE DEF d, c, p
<1>3. y * (p * BPS) <= y * d
  BY <1>1, ProductMonotone, ProductNat
<1>4. (y * p) * BPS = y * (p * BPS) /\ (c * CD) * BPS = c * Unit
  BY <1>1, <1>2 DEF Unit
<1>5. y * (p * BPS) \in Nat /\ y * d \in Nat /\ c * Unit \in Nat /\ y * p \in Nat /\ c * CD \in Nat
  BY <1>1, <1>2, ProductNat, Constants
<1>6. (y * p) * BPS <= (c * CD) * BPS
  BY <1>2, <1>3, <1>4, <1>5
<1>7. y * p <= c * CD
  BY <1>1, <1>5, <1>6, CancelFactor
<1> QED
  BY <1>2, <1>7 DEF c, p

(* The headroom of two units covers the two roundings: what the backstop   *)
(* mints with a leftover costs no more than it.                            *)
LEMMA BudgetFits ==
  ASSUME NEW s \in Markets, NEW L \in Nat, NEW y \in Nat, y <= issueBudget(s, L)
  PROVE  issueBudget(s, L) \in Nat /\ quoteIssue(s, y).total <= L
<1> DEFINE p == s.price
           f == s.issueFeeBps
           d == p * (BPS + f)
           h == PosPart(L - 2)
           base == MulDivCeil(y, p, CD)
           fee == MulDivCeil(base, f, BPS)
<1>1. p \in Nat \ {0} /\ f \in Nat /\ f < BPS /\ d \in Nat \ {0} /\ h \in Nat
  <2>1. h \in Nat
    BY DEF PosPart
  <2> QED
    BY <2>1, MarketFields, Edges
<1>2. issueBudget(s, L) = MulDivFloor(h, Unit, d)
  BY DEF issueBudget
<1>3. quoteIssue(s, y).total = base + fee
  BY DEF quoteIssue
<1> HIDE DEF h, d
<1>4. issueBudget(s, L) \in Nat /\ issueBudget(s, L) * d <= h * Unit
  BY <1>1, <1>2, FloorBelow, Constants
<1>5. base \in Nat /\ base * CD < y * p + CD
  BY <1>1, CeilAbove, Constants
<1> HIDE DEF base
<1>6. fee \in Nat /\ fee * BPS < base * f + BPS
  BY <1>1, <1>5, CeilAbove, Constants
<1> HIDE DEF fee, p, f
<1>7. BPS \in Nat \ {0} /\ CD \in Nat \ {0}
  BY Constants
<1>8. CASE L < 2
  <2>1. h = 0
    BY <1>8 DEF h, PosPart
  <2>2. issueBudget(s, L) * d <= 0
    BY <1>4, <2>1, Constants
  <2>3. issueBudget(s, L) = 0
    BY <1>1, <1>4, <2>2
  <2>4. y = 0
    BY <1>4, <2>3
  <2>5. base = 0
    BY <1>1, <1>5, <1>7, <2>4
  <2>6. fee = 0
    BY <1>1, <1>6, <1>7, <2>5
  <2> QED
    BY <1>3, <1>4, <2>5, <2>6
<1>9. CASE L >= 2
  <2>1. h = L - 2
    BY <1>9 DEF h, PosPart
  <2>2. y * d <= h * Unit
    <3>1. y * d <= issueBudget(s, L) * d
      BY <1>1, <1>4, ProductMonotone
    <3>2. y * d \in Nat /\ issueBudget(s, L) * d \in Nat /\ h * Unit \in Nat
      BY <1>1, <1>4, ProductNat, Constants
    <3> QED
      BY <1>4, <3>1, <3>2
  <2>3. (y * p) * (BPS + f) <= ((L - 2) * CD) * BPS
    <3>1. y * d = (y * p) * (BPS + f)
      BY <1>1, <1>7 DEF d
    <3>2. h * Unit = ((L - 2) * CD) * BPS
      BY <1>1, <1>7, <2>1 DEF Unit
    <3> QED
      BY <2>2, <3>1, <3>2
  <2> DEFINE a == base * CD
             b == y * p
             t == (base + fee) * BPS
  <2>4. a \in Nat /\ b \in Nat /\ t \in Nat /\ a < b + CD
    BY <1>1, <1>5, <1>6, <1>7, ProductNat
  <2>5. t < base * (BPS + f) + BPS
    <3>1. t = base * BPS + fee * BPS /\ base * (BPS + f) = base * BPS + base * f
      BY <1>1, <1>5, <1>6, <1>7
    <3>2. fee * BPS \in Nat /\ base * f \in Nat /\ base * BPS \in Nat
      BY <1>1, <1>5, <1>6, <1>7, ProductNat
    <3> QED
      BY <1>6, <1>7, <3>1, <3>2
  <2> HIDE DEF t
  <2>6. t * CD < (base * (BPS + f) + BPS) * CD
    BY <1>1, <1>5, <1>7, <2>4, <2>5
  <2>7. (base * (BPS + f) + BPS) * CD = a * (BPS + f) + BPS * CD
    BY <1>1, <1>5, <1>7
  <2> HIDE DEF a, b
  <2>8. a * (BPS + f) <= (b + CD) * (BPS + f)
    BY <1>1, <1>7, <2>4, ProductMonotone
  <2>9. (b + CD) * (BPS + f) = b * (BPS + f) + CD * (BPS + f)
    BY <1>1, <1>7, <2>4
  <2>10. CD * (BPS + f) <= CD * (2 * BPS)
    BY <1>1, <1>7, ProductMonotone
  <2>11. b * (BPS + f) <= ((L - 2) * CD) * BPS
    BY <2>3 DEF b
  <2>12. t * CD < ((L - 2) * CD) * BPS + CD * (2 * BPS) + BPS * CD
    <3>1. /\ t * CD \in Int /\ a * (BPS + f) \in Int /\ b * (BPS + f) \in Int /\ CD * (BPS + f) \in Int
          /\ (b + CD) * (BPS + f) \in Int /\ (base * (BPS + f) + BPS) * CD \in Int
          /\ ((L - 2) * CD) * BPS \in Int /\ CD * (2 * BPS) \in Int /\ BPS * CD \in Int
      BY <1>1, <1>5, <1>7, <2>4
    <3> QED
      BY <2>6, <2>7, <2>8, <2>9, <2>10, <2>11, <3>1
  <2>13. ((L - 2) * CD) * BPS + CD * (2 * BPS) + BPS * CD = ((L + 1) * BPS) * CD
    BY <1>7
  <2>14. t < (L + 1) * BPS
    BY <1>7, <2>4, <2>12, <2>13, CancelFactor
  <2>15. base + fee < L + 1
    BY <1>5, <1>6, <1>7, <2>14, CancelFactor DEF t
  <2> QED
    BY <1>3, <1>4, <1>5, <1>6, <2>15
<1> QED
  BY <1>8, <1>9

(* A backstop fill stays within what is wanted and what is left.           *)
LEMMA BackstopFits ==
  ASSUME NEW s \in Markets, NEW want \in Nat, NEW L \in Nat
  PROVE  LET y == backstopGpu(s, want, L)
         IN  y \in Nat /\ y <= want /\ quoteIssue(s, y).total <= L
<1> DEFINE b == issueBudget(s, L)
<1>1. 0 <= b /\ b \in Nat
  <2>1. b \in Nat
    <3>1. s.price * (BPS + s.issueFeeBps) \in Nat \ {0}
      BY Edges
    <3>2. PosPart(L - 2) \in Nat
      BY DEF PosPart
    <3> QED
      BY <3>1, <3>2, MulDivNat, Constants DEF issueBudget
  <2> QED
    BY <2>1
<1>2. CASE ~s.open
  <2>1. quoteIssue(s, 0).total <= L
    BY <1>1, BudgetFits
  <2> QED
    BY <1>2, <2>1 DEF backstopGpu
<1>3. CASE s.open /\ quoteIssue(s, want).total <= L
  BY <1>3 DEF backstopGpu
<1>4. CASE s.open /\ ~(quoteIssue(s, want).total <= L)
  <2> DEFINE y == Lesser(want, b)
  <2>1. y \in Nat /\ y <= want /\ y <= b
    BY <1>1 DEF Lesser
  <2> HIDE DEF y
  <2>2. quoteIssue(s, y).total <= L
    BY <2>1, BudgetFits
  <2>3. backstopGpu(s, want, L) = y
    BY <1>4 DEF backstopGpu, y
  <2> QED
    BY <2>1, <2>2, <2>3
<1> QED
  BY <1>2, <1>3, <1>4, MarketFields

(* The two rungs of a buy, priced: each covers the report's price of what  *)
(* it delivers, and the POL's fee is part of its notional.                 *)
LEMMA RungsPriced ==
  ASSUME NEW s \in Markets, NEW y \in Nat, NEW z \in Nat
  PROVE  LET L == rungs(s, y, z)
         IN  /\ L.polGpu = y /\ L.issueGpu = z
             /\ L.polSpend = polSpend(s, y) /\ L.total = quoteIssue(s, z).total
             /\ L.polSpend \in Nat /\ L.polFee \in Nat /\ L.polFee <= L.polSpend
             /\ L.base \in Nat /\ L.fee \in Nat /\ L.total = L.base + L.fee
             /\ y * s.price <= L.polSpend * CD
             /\ z * s.price <= L.base * CD
<1> DEFINE spend == polSpend(s, y)
           q == quoteIssue(s, z)
<1>1. spend \in Nat /\ y * s.price <= spend * CD
  BY SpendCovers
<1>2. polFee(s, spend) \in Nat /\ polFee(s, spend) <= spend
  BY <1>1, FeesWithin
<1>3. q.base \in Nat /\ q.fee \in Nat /\ q.total = q.base + q.fee /\ z * s.price <= q.base * CD
  BY QuoteCovers
<1>4. rungs(s, y, z) = [polGpu |-> y, polSpend |-> spend, polFee |-> polFee(s, spend),
                        issueGpu |-> z, base |-> q.base, fee |-> q.fee, total |-> q.total]
  BY DEF rungs
<1> HIDE DEF spend, q
<1> QED
  BY <1>1, <1>2, <1>3, <1>4 DEF spend, q

(* What the POL offers a buyer is within its inventory and its cap.        *)
LEMMA AskWithin ==
  ASSUME NEW s \in Markets, NEW demand \in Nat
  PROVE  /\ polAsk(s, demand) \in Nat /\ polAsk(s, demand) <= demand
         /\ polAsk(s, demand) <= s.ask
         /\ polAsk(s, demand) <= gpuFor(s.capLeft, denomAsk(s))
<1>1. gpuFor(s.capLeft, denomAsk(s)) \in Nat
  BY Edges, MarketFields, MulDivNat, Constants DEF gpuFor
<1>2. s.ask \in Nat
  BY MarketFields
<1> QED
  BY <1>1, <1>2 DEF polAsk, Lesser

(* The POL's notional stays within the cap, for all it may offer.          *)
LEMMA SpendCapped ==
  ASSUME NEW s \in Markets, NEW y \in Nat, NEW b \in Nat, y <= gpuFor(b, denomAsk(s))
  PROVE  polSpend(s, y) \in Nat /\ polSpend(s, y) <= b
BY Edges, GpuForFits DEF polSpend

(* _buyLadder: within the demand, the inventory, the cap and the budget.   *)
LEMMA LadderFits ==
  ASSUME NEW s \in Markets, NEW budget \in Nat, NEW demand \in Nat
  PROVE  \E y, z \in Nat :
           /\ buyLadder(s, budget, demand) = rungs(s, y, z)
           /\ y + z <= demand /\ y <= s.ask /\ polSpend(s, y) <= s.capLeft
           /\ polSpend(s, y) + quoteIssue(s, z).total <= budget
           /\ z = backstopGpu(s, demand - y, budget - polSpend(s, y))
           /\ y <= gpuFor(budget, denomAsk(s))
<1> DEFINE a == polAsk(s, demand)
           b == gpuFor(budget, denomAsk(s))
           y == Lesser(a, b)
           spend == polSpend(s, y)
           z == backstopGpu(s, demand - y, budget - spend)
<1>1. b \in Nat
  BY Edges, MulDivNat, Constants DEF gpuFor
<1>2. a \in Nat /\ a <= demand /\ a <= s.ask /\ a <= gpuFor(s.capLeft, denomAsk(s))
  BY AskWithin
<1> HIDE DEF a
<1>3. y \in Nat /\ y <= a /\ y <= b
  BY <1>1, <1>2 DEF Lesser
<1> HIDE DEF y
<1>4. gpuFor(s.capLeft, denomAsk(s)) \in Nat /\ s.ask \in Nat /\ s.capLeft \in Nat
  BY Edges, MarketFields, MulDivNat, Constants DEF gpuFor
<1>5. y <= gpuFor(s.capLeft, denomAsk(s)) /\ y <= s.ask /\ y <= demand
  BY <1>2, <1>3, <1>4
<1>6. spend \in Nat /\ spend <= s.capLeft /\ spend <= budget
  BY <1>3, <1>4, <1>5, SpendCapped
<1> HIDE DEF spend
<1>7. demand - y \in Nat /\ budget - spend \in Nat
  BY <1>3, <1>5, <1>6
<1>8. z \in Nat /\ z <= demand - y /\ quoteIssue(s, z).total <= budget - spend
  BY <1>7, BackstopFits
<1>9. buyLadder(s, budget, demand) = rungs(s, y, z)
  BY DEF buyLadder, ladderFrom, y, spend, a
<1>10. quoteIssue(s, z).total \in Nat
  BY <1>8, QuoteCovers
<1> HIDE DEF z
<1>11. y + z <= demand /\ spend + quoteIssue(s, z).total <= budget
  BY <1>3, <1>5, <1>6, <1>8, <1>10
<1> QED
  BY <1>3, <1>5, <1>6, <1>8, <1>9, <1>11 DEF spend, z

-----------------------------------------------------------------------------
(* Fills.  What the market may rely on of a settled buy: the vault and the *)
(* ledger receive exactly what the trader pays, which covers the GPU at    *)
(* the report's price; the POL gives no more than it has and may.          *)
SoundBuy(s, f) ==
  /\ f.polGpu \in Nat /\ f.issueGpu \in Nat /\ f.polGpu <= s.ask
  /\ f.base \in Nat /\ f.fee \in Nat /\ f.polFee \in Nat /\ f.hookFee \in Nat
  /\ f.bidIn \in Nat /\ f.notional \in Nat /\ f.notional <= s.capLeft
  /\ f.pays = f.base + f.bidIn + f.fee + f.polFee + f.hookFee
  /\ s.price * (f.polGpu + f.issueGpu) <= f.pays * CD

(* A settled sale: the vault pays exactly the proceeds and the fees, and   *)
(* the proceeds are at most the GPU's worth at the report's price.         *)
SoundSell(s, f) ==
  /\ f.gpuIn \in Nat /\ f.bidOut \in Nat
  /\ f.polFee \in Nat /\ f.hookFee \in Nat /\ f.proceeds \in Nat
  /\ f.bidOut = f.proceeds + f.polFee + f.hookFee
  /\ f.proceeds * CD <= s.price * f.gpuIn
  /\ f.bidOut <= s.capLeft

(* Two rungs with a hook fee and a tail make a sound buy.                  *)
LEMMA FilledSound ==
  ASSUME NEW s \in Markets, NEW y \in Nat, NEW z \in Nat, NEW hf \in Nat, NEW tail \in Nat,
         NEW charge, NEW pays, y <= s.ask, polSpend(s, y) <= s.capLeft,
         pays = polSpend(s, y) + quoteIssue(s, z).total + hf + tail
  PROVE  SoundBuy(s, buyFilled(rungs(s, y, z), hf, tail, charge, pays))
<1> DEFINE L == rungs(s, y, z)
           f == buyFilled(L, hf, tail, charge, pays)
           p == s.price
<1>1. /\ L.polGpu = y /\ L.issueGpu = z
      /\ L.polSpend = polSpend(s, y) /\ L.total = quoteIssue(s, z).total
      /\ L.polSpend \in Nat /\ L.polFee \in Nat /\ L.polFee <= L.polSpend
      /\ L.base \in Nat /\ L.fee \in Nat /\ L.total = L.base + L.fee
      /\ y * p <= L.polSpend * CD
      /\ z * p <= L.base * CD
  BY RungsPriced
<1>2. p \in Nat \ {0} /\ CD \in Nat \ {0}
  BY MarketFields, Constants
<1> HIDE DEF L, p
<1>3. /\ f.polGpu = L.polGpu /\ f.issueGpu = L.issueGpu /\ f.base = L.base /\ f.fee = L.fee
      /\ f.polFee = L.polFee /\ f.hookFee = hf /\ f.notional = L.polSpend
      /\ f.bidIn = PosPart(L.polSpend - L.polFee) + tail /\ f.pays = pays
  BY DEF buyFilled
<1> HIDE DEF f
<1>4. PosPart(L.polSpend - L.polFee) = L.polSpend - L.polFee
  BY <1>1 DEF PosPart
<1>5. pays = L.base + f.bidIn + L.fee + L.polFee + hf /\ f.bidIn \in Nat
  BY <1>1, <1>3, <1>4
<1>6. p * (y + z) <= pays * CD
  <2> DEFINE a == L.polSpend
             b == L.base
             r == L.fee + hf + tail
  <2>1. a \in Nat /\ b \in Nat /\ r \in Nat /\ pays = a + b + r
    BY <1>1
  <2>2. y * p <= a * CD /\ z * p <= b * CD
    BY <1>1
  <2> HIDE DEF a, b, r
  <2>3. p * (y + z) = y * p + z * p /\ (a + b + r) * CD = a * CD + b * CD + r * CD
    BY <1>2, <2>1
  <2>4. y * p \in Nat /\ z * p \in Nat /\ a * CD \in Nat /\ b * CD \in Nat /\ r * CD \in Nat
    BY <1>2, <2>1, ProductNat
  <2>5. y * p + z * p <= a * CD + b * CD + r * CD
    BY <2>2, <2>4
  <2> QED
    BY <2>1, <2>3, <2>5
<1> QED
  BY <1>1, <1>3, <1>5, <1>6 DEF SoundBuy, f, L, p

(* afterSwap, exact in: the fee, the two rungs and a tail that is never    *)
(* negative.                                                               *)
LEMMA BuyInSound ==
  ASSUME NEW s \in Markets, NEW absorb \in Nat
  PROVE  /\ SoundBuy(s, settleBuyIn(s, absorb)) /\ settleBuyIn(s, absorb).pays = absorb
         /\ settleBuyIn(s, absorb).tail \in Nat
<1> DEFINE hf == Lesser(hookFee(s, absorb), absorb)
           budget == absorb - hf
<1>1. hf \in Nat /\ budget \in Nat
  BY FeesWithin DEF Lesser
<1> HIDE DEF hf
<1>2. PICK y \in Nat, z \in Nat :
           /\ buyLadder(s, budget, MaxUint) = rungs(s, y, z)
           /\ y <= s.ask /\ polSpend(s, y) <= s.capLeft
           /\ polSpend(s, y) + quoteIssue(s, z).total <= budget
  BY <1>1, LadderFits, Constants
<1> DEFINE L == rungs(s, y, z)
           tail == absorb - hf - (polSpend(s, y) + quoteIssue(s, z).total)
<1>3. L.polSpend = polSpend(s, y) /\ L.total = quoteIssue(s, z).total
  BY RungsPriced
<1>4. polSpend(s, y) \in Nat /\ quoteIssue(s, z).total \in Nat
  BY SpendCovers, QuoteCovers
<1>5. settleBuyIn(s, absorb) = buyFilled(L, hf, tail, absorb, absorb)
  <2>1. settleBuyIn(s, absorb) = buyInFill(buyLadder(s, budget, MaxUint), absorb, hf)
    BY DEF settleBuyIn, hf
  <2> QED
    BY <1>2, <1>3, <2>1 DEF buyInFill
<1>6. tail \in Nat /\ absorb = polSpend(s, y) + quoteIssue(s, z).total + hf + tail
  BY <1>1, <1>2, <1>4
<1> HIDE DEF tail, L
<1>7. SoundBuy(s, buyFilled(L, hf, tail, absorb, absorb))
  BY <1>1, <1>2, <1>6, FilledSound DEF L
<1> QED
  BY <1>5, <1>6, <1>7 DEF buyFilled

(* afterSwap, exact out: what was committed, POL first.                    *)
LEMMA BuyOutSound ==
  ASSUME NEW s \in Markets, NEW supplied \in Nat
  PROVE  SoundBuy(s, settleBuyOut(s, supplied))
<1> DEFINE y == polAsk(s, supplied)
           z == supplied - y
           L == rungs(s, y, z)
           charge == polSpend(s, y) + quoteIssue(s, z).total
           hf == hookFee(s, charge)
<1>1. y \in Nat /\ y <= supplied /\ y <= s.ask /\ y <= gpuFor(s.capLeft, denomAsk(s))
  BY AskWithin
<1>2. s.capLeft \in Nat
  BY MarketFields
<1> HIDE DEF y
<1>3. polSpend(s, y) \in Nat /\ polSpend(s, y) <= s.capLeft
  BY <1>1, <1>2, SpendCapped
<1>4. z \in Nat
  BY <1>1
<1> HIDE DEF z
<1>5. quoteIssue(s, z).total \in Nat
  BY <1>4, QuoteCovers
<1>6. charge \in Nat
  BY <1>3, <1>5
<1>7. L.polSpend = polSpend(s, y) /\ L.total = quoteIssue(s, z).total
  BY <1>1, <1>4, RungsPriced
<1>8. settleBuyOut(s, supplied) = buyFilled(L, hf, 0, charge, charge + hf)
  BY <1>7 DEF settleBuyOut, buyOutFill, y, z
<1> HIDE DEF charge
<1>9. hf \in Nat
  BY <1>6, FeesWithin
<1> HIDE DEF hf, L
<1>10. charge + hf = polSpend(s, y) + quoteIssue(s, z).total + hf + 0
  BY <1>3, <1>5, <1>9 DEF charge
<1>11. SoundBuy(s, buyFilled(L, hf, 0, charge, charge + hf))
  BY <1>1, <1>3, <1>4, <1>9, <1>10, FilledSound DEF L
<1> QED
  BY <1>8, <1>11

(* gUSD that a GPU amount covers at the POL's bid, it covers at the        *)
(* report's price.                                                         *)
LEMMA BidBelowReport ==
  ASSUME NEW s \in Markets, NEW x \in Nat, NEW y \in Nat, x * Unit <= y * bidDenom(s)
  PROVE  x * CD <= s.price * y
<1> DEFINE d == bidDenom(s)
           p == s.price
<1>1. d \in Nat /\ d <= p * BPS /\ p \in Nat /\ BPS \in Nat \ {0} /\ CD \in Nat
  BY Edges, MarketFields, Constants
<1>2. x * Unit <= y * d
  OBVIOUS
<1> HIDE DEF d, p
<1>3. y * d <= y * (p * BPS)
  BY <1>1, ProductMonotone, ProductNat
<1>4. x * Unit = (x * CD) * BPS /\ y * (p * BPS) = (p * y) * BPS
  BY <1>1 DEF Unit
<1>5. x * CD \in Nat /\ p * y \in Nat /\ y * d \in Nat /\ x * Unit \in Nat /\ (p * y) * BPS \in Nat
  BY <1>1, ProductNat, Constants
<1>6. (x * CD) * BPS <= (p * y) * BPS
  BY <1>2, <1>3, <1>4, <1>5
<1>7. x * CD <= p * y
  BY <1>1, <1>5, <1>6, CancelFactor
<1> QED
  BY <1>7 DEF p

(* afterSwap, exact in: the vault buys what its bid and the cap afford,    *)
(* and takes the dust above it for nothing.                                *)
LEMMA SellInSound ==
  ASSUME NEW s \in Markets, NEW absorb \in Nat
  PROVE  SoundSell(s, settleSellIn(s, absorb))
<1> DEFINE d == bidDenom(s)
           m == Lesser(absorb, gpuFor(s.bid, d))
           y == Lesser(m, gpuFor(s.capLeft, d))
           gross == MulDivFloor(y, d, Unit)
           pf == polFee(s, gross)
           net == gross - pf
           hf == hookFee(s, net)
<1>1. d \in Nat \ {0} /\ s.bid \in Nat /\ s.capLeft \in Nat /\ s.price \in Nat /\ CD \in Nat
  BY Edges, MarketFields, Constants
<1>2. gpuFor(s.bid, d) \in Nat /\ gpuFor(s.capLeft, d) \in Nat
  BY <1>1, MulDivNat, Constants DEF gpuFor
<1> HIDE DEF d
<1>3. m \in Nat /\ m <= absorb
  BY <1>2 DEF Lesser
<1> HIDE DEF m
<1>4. y \in Nat /\ y <= m /\ y <= gpuFor(s.capLeft, d)
  BY <1>2, <1>3 DEF Lesser
<1> HIDE DEF y
<1>5. gross \in Nat /\ gross <= s.capLeft
  BY <1>1, <1>4, GpuForFits
<1>6. gross * Unit <= y * d
  BY <1>1, <1>4, FloorBelow, Constants
<1> HIDE DEF gross
<1>7. gross * CD <= s.price * y
  BY <1>4, <1>5, <1>6, BidBelowReport DEF d
<1>8. pf \in Nat /\ pf <= gross
  BY <1>5, FeesWithin
<1> HIDE DEF pf
<1>9. net \in Nat /\ net <= gross
  BY <1>5, <1>8
<1> HIDE DEF net
<1>10. hf \in Nat /\ hf <= net
  BY <1>9, FeesWithin
<1> HIDE DEF hf
<1>11. settleSellIn(s, absorb) = [gpuIn |-> absorb, bidOut |-> gross, polFee |-> pf,
                                  hookFee |-> hf, proceeds |-> net - hf]
  BY DEF settleSellIn, d, m, y, gross, pf, net, hf
<1>12. net - hf \in Nat /\ gross = (net - hf) + pf + hf /\ net - hf <= gross
  <2>1. gross = net + pf
    BY <1>5, <1>8 DEF net
  <2> QED
    BY <2>1, <1>8, <1>9, <1>10
<1>13. (net - hf) * CD <= s.price * absorb
  <2> DEFINE r == net - hf
  <2>1. r \in Nat /\ r <= gross
    BY <1>12
  <2> HIDE DEF r
  <2>2. r * CD <= gross * CD /\ s.price * y <= s.price * absorb
    BY <1>1, <1>3, <1>4, <1>5, <2>1, ProductMonotone
  <2>3. r * CD \in Nat /\ gross * CD \in Nat /\ s.price * y \in Nat /\ s.price * absorb \in Nat
    BY <1>1, <1>4, <1>5, <2>1, ProductNat
  <2>4. r * CD <= s.price * absorb
    BY <1>7, <2>2, <2>3
  <2> QED
    BY <2>4 DEF r
<1> QED
  BY <1>5, <1>8, <1>10, <1>11, <1>12, <1>13 DEF SoundSell

(* The gross draw of a supply: the supply and the fees on top of it.       *)
LEMMA GrossNat ==
  ASSUME NEW s \in Markets, NEW x \in Nat
  PROVE  grossOf(s, x) \in Nat /\ x <= grossOf(s, x)
BY FeesWithin DEF grossOf

(* One unit of supply less draws at least one unit less.                   *)
LEMMA GrossMonotone ==
  ASSUME NEW s \in Markets, NEW x \in Nat, NEW y \in Nat, x <= y
  PROVE  grossOf(s, x) + (y - x) <= grossOf(s, y)
<1>1. s.polFeeBps \in Nat /\ s.hookFeeBps \in Nat /\ BPS \in Nat \ {0}
  BY MarketFields, Constants
<1>2. polFee(s, x) <= polFee(s, y) /\ hookFee(s, x) <= hookFee(s, y)
  BY <1>1, CeilMonotone DEF polFee, hookFee
<1>3. /\ polFee(s, x) \in Nat /\ polFee(s, y) \in Nat
      /\ hookFee(s, x) \in Nat /\ hookFee(s, y) \in Nat
  BY FeesWithin
<1> QED
  BY <1>2, <1>3 DEF grossOf

(* The estimate the shrinking starts from draws at most one unit too many. *)
LEMMA GrossEstimate ==
  ASSUME NEW s \in Markets, NEW budget \in Nat
  PROVE  LET x == MulDivFloor(budget, BPS, BPS + s.polFeeBps + s.hookFeeBps)
         IN  x \in Nat /\ grossOf(s, x) <= budget + 1
<1> DEFINE pb == s.polFeeBps
           hb == s.hookFeeBps
           c == BPS + pb + hb
           x == MulDivFloor(budget, BPS, c)
           pf == polFee(s, x)
           hf == hookFee(s, x)
<1>1. pb \in Nat /\ hb \in Nat /\ BPS \in Nat \ {0}
  BY MarketFields, Constants
<1>2. c \in Nat \ {0}
  BY <1>1
<1> HIDE DEF c
<1>3. x \in Nat /\ x * c <= budget * BPS
  BY <1>1, <1>2, FloorBelow
<1> HIDE DEF x
<1>4. pf \in Nat /\ pf * BPS < x * pb + BPS
  BY <1>1, <1>3, CeilAbove DEF polFee
<1>5. hf \in Nat /\ hf * BPS < x * hb + BPS
  BY <1>1, <1>3, CeilAbove DEF hookFee
<1> HIDE DEF pb, hb, pf, hf
<1>6. x * c = x * BPS + x * pb + x * hb
  BY <1>1, <1>3 DEF c
<1>7. (x + pf + hf) * BPS = x * BPS + pf * BPS + hf * BPS /\ (budget + 2) * BPS = budget * BPS + BPS + BPS
  BY <1>1, <1>3, <1>4, <1>5
<1>8. /\ x * BPS \in Nat /\ x * pb \in Nat /\ x * hb \in Nat /\ pf * BPS \in Nat
      /\ hf * BPS \in Nat /\ budget * BPS \in Nat
  BY <1>1, <1>3, <1>4, <1>5, ProductNat
<1>9. x * BPS + pf * BPS + hf * BPS < budget * BPS + BPS + BPS
  BY <1>1, <1>3, <1>4, <1>5, <1>6, <1>8
<1>10. (x + pf + hf) * BPS < (budget + 2) * BPS
  BY <1>7, <1>9
<1>11. x + pf + hf < budget + 2
  BY <1>1, <1>3, <1>4, <1>5, <1>10, CancelFactor
<1>12. grossOf(s, x) = x + pf + hf
  BY DEF grossOf, pf, hf
<1>13. x \in Nat /\ grossOf(s, x) <= budget + 1
  BY <1>3, <1>4, <1>5, <1>11, <1>12
<1> QED
  BY <1>13 DEF x, c, pb, hb

(* One shrinking step from an overdraw of at most one unit ends it, and    *)
(* the further ones change nothing.                                        *)
LEMMA ShrinkFits ==
  ASSUME NEW s \in Markets, NEW budget \in Nat, NEW x \in Nat, grossOf(s, x) <= budget + 1
  PROVE  shrink(x, s, budget) \in Nat /\ grossOf(s, shrink(x, s, budget)) <= budget
<1> DEFINE g == grossOf(s, x)
<1>1. g \in Nat /\ x <= g
  BY GrossNat
<1>2. CASE g <= budget
  <2>1. PosPart(g - budget) = 0
    BY <1>1, <1>2 DEF PosPart
  <2>2. shrink(x, s, budget) = x
    BY <2>1 DEF shrink, PosPart
  <2> QED
    BY <1>2, <2>2
<1>3. CASE g = budget + 1
  <2>1. PosPart(g - budget) = 1
    BY <1>1, <1>3 DEF PosPart
  <2>2. CASE x = 0
    <3>1. polFee(s, 0) <= 0 /\ hookFee(s, 0) <= 0 /\ polFee(s, 0) \in Nat /\ hookFee(s, 0) \in Nat
      BY FeesWithin
    <3>2. g = 0
      BY <2>2, <3>1 DEF grossOf
    <3> QED
      BY <1>3, <3>2
  <2>3. CASE x > 0
    <3>1. shrink(x, s, budget) = x - 1 /\ x - 1 \in Nat
      BY <2>1, <2>3 DEF shrink, PosPart
    <3>2. grossOf(s, x - 1) + 1 <= g /\ grossOf(s, x - 1) \in Nat
      BY <3>1, GrossMonotone, GrossNat
    <3> QED
      BY <1>1, <1>3, <3>1, <3>2
  <2> QED
    BY <2>2, <2>3
<1> QED
  BY <1>1, <1>2, <1>3

(* supplyForGrossBudget: the supply it returns draws within the budget.    *)
LEMMA SupplyFits ==
  ASSUME NEW s \in Markets, NEW budget \in Nat
  PROVE  /\ supplyForGrossBudget(s, budget) \in Nat
         /\ grossOf(s, supplyForGrossBudget(s, budget)) <= budget
<1> DEFINE x0 == MulDivFloor(budget, BPS, BPS + s.polFeeBps + s.hookFeeBps)
           x1 == shrink(x0, s, budget)
           x2 == shrink(x1, s, budget)
           x3 == shrink(x2, s, budget)
           x4 == shrink(x3, s, budget)
<1>1. x0 \in Nat /\ grossOf(s, x0) <= budget + 1
  BY GrossEstimate
<1> HIDE DEF x0
<1>2. x1 \in Nat /\ grossOf(s, x1) <= budget
  BY <1>1, ShrinkFits
<1> HIDE DEF x1
<1>3. grossOf(s, x1) <= budget + 1
  BY <1>2, GrossNat
<1>4. x2 \in Nat /\ grossOf(s, x2) <= budget
  BY <1>2, <1>3, ShrinkFits
<1> HIDE DEF x2
<1>5. grossOf(s, x2) <= budget + 1
  BY <1>4, GrossNat
<1>6. x3 \in Nat /\ grossOf(s, x3) <= budget
  BY <1>4, <1>5, ShrinkFits
<1> HIDE DEF x3
<1>7. grossOf(s, x3) <= budget + 1
  BY <1>6, GrossNat
<1>8. x4 \in Nat /\ grossOf(s, x4) <= budget
  BY <1>6, <1>7, ShrinkFits
<1>9. supplyForGrossBudget(s, budget) = x4
  BY DEF supplyForGrossBudget, x0, x1, x2, x3
<1> HIDE DEF x4
<1> QED
  BY <1>8, <1>9

(* afterSwap, exact out: what was committed, if its gross draw is within   *)
(* the cap.                                                                *)
LEMMA SellOutSound ==
  ASSUME NEW s \in Markets, NEW x \in Nat, grossOf(s, x) <= s.capLeft
  PROVE  SoundSell(s, settleSellOut(s, x))
<1> DEFINE g == grossOf(s, x)
           y == MulDivCeil(g, Unit, bidDenom(s))
<1>1. g \in Nat /\ x <= g /\ bidDenom(s) \in Nat \ {0} /\ s.price \in Nat /\ CD \in Nat
  BY GrossNat, Edges, MarketFields, Constants
<1>2. g = x + polFee(s, x) + hookFee(s, x)
  BY DEF grossOf
<1> HIDE DEF g
<1>3. y \in Nat /\ g * Unit <= y * bidDenom(s)
  BY <1>1, CeilAbove, Constants
<1> HIDE DEF y
<1>4. g * CD <= s.price * y
  BY <1>1, <1>3, BidBelowReport
<1>5. x * CD <= g * CD /\ x * CD \in Nat /\ g * CD \in Nat /\ s.price * y \in Nat
  BY <1>1, <1>3, ProductMonotone, ProductNat
<1>6. x * CD <= s.price * y
  BY <1>4, <1>5
<1>7. settleSellOut(s, x) = [gpuIn |-> y, bidOut |-> g, polFee |-> polFee(s, x),
                             hookFee |-> hookFee(s, x), proceeds |-> x]
  BY DEF settleSellOut, y, g
<1>8. polFee(s, x) \in Nat /\ hookFee(s, x) \in Nat
  BY FeesWithin
<1> QED
  BY <1>1, <1>2, <1>3, <1>6, <1>7, <1>8 DEF SoundSell, g

-----------------------------------------------------------------------------
(* Plans                                                                   *)

(* What a buyer's balance can be charged is natural.                       *)
LEMMA SpendCapNat ==
  ASSUME NEW s \in Markets, NEW pm \in Nat
  PROVE  spendCap(s, pm) \in Nat
<1> DEFINE c == MulDivCeil(pm, BPS, BPS + s.hookFeeBps)
<1>1. c \in Nat
  <2>1. BPS + s.hookFeeBps \in Nat \ {0}
    BY MarketFields, Constants
  <2> QED
    BY <2>1, Constants, MulDivNat
<1> HIDE DEF c
<1>2. PosPart(c - 1) \in Nat
  BY <1>1 DEF PosPart
<1> QED
  BY <1>1, <1>2 DEF spendCap, c

(* A plan of an exact-out buy commits no more than what is beyond the      *)
(* edge.                                                                   *)
LEMMA BuyOutPlan ==
  ASSUME NEW s \in Markets, NEW beyond \in Nat, NEW pm \in Nat, NEW lps \in BOOLEAN
  PROVE  LET c == planBuyOut(s, beyond, pm, lps).commit IN c \in Nat /\ c <= beyond
<1> DEFINE L == buyLadder(s, spendCap(s, pm), beyond)
<1>1. PICK y \in Nat, z \in Nat : L = rungs(s, y, z) /\ y + z <= beyond
  BY SpendCapNat, LadderFits
<1>2. L.polGpu = y /\ L.issueGpu = z
  BY <1>1, RungsPriced
<1>3. planBuyOut(s, beyond, pm, lps).commit = L.polGpu + L.issueGpu
  BY DEF planBuyOut, planCovered
<1> HIDE DEF L
<1> QED
  BY <1>1, <1>2, <1>3

(* A plan of an exact-out sale commits a supply whose gross draw the cap   *)
(* covers.                                                                 *)
LEMMA SellOutPlan ==
  ASSUME NEW s \in Markets, NEW beyond \in Nat, NEW pm \in Nat, NEW lps \in BOOLEAN
  PROVE  LET c == planSellOut(s, beyond, pm, lps).commit
         IN  c \in Nat /\ c <= beyond /\ grossOf(s, c) <= s.capLeft
<1> DEFINE w == MulDivFloor(pm, bidDenom(s), Unit)
           budget == Lesser(Lesser(s.bid, s.capLeft), w)
           x == supplyForGrossBudget(s, budget)
           c == Lesser(beyond, x)
<1>1. w \in Nat /\ s.bid \in Nat /\ s.capLeft \in Nat
  BY Edges, MulDivNat, MarketFields, Constants
<1> HIDE DEF w
<1>2. budget \in Nat /\ budget <= s.capLeft
  BY <1>1 DEF Lesser
<1> HIDE DEF budget
<1>3. x \in Nat /\ grossOf(s, x) <= budget
  BY <1>2, SupplyFits
<1> HIDE DEF x
<1>4. c \in Nat /\ c <= beyond /\ c <= x
  BY <1>3 DEF Lesser
<1> HIDE DEF c
<1>5. grossOf(s, c) + (x - c) <= grossOf(s, x) /\ grossOf(s, c) \in Nat /\ grossOf(s, x) \in Nat
  BY <1>3, <1>4, GrossMonotone, GrossNat
<1>6. planSellOut(s, beyond, pm, lps).commit = c
  BY DEF planSellOut, c, x, budget, w
<1> QED
  BY <1>1, <1>2, <1>3, <1>4, <1>5, <1>6

-----------------------------------------------------------------------------
(* The state                                                               *)

(* The market a swap reads is one the arithmetic is about.                 *)
LEMMA MarketTyped ==
  ASSUME TypeOK, NEW g \in GpuIds
  PROVE  /\ market(g) \in Markets /\ market(g).price = price[g]
         /\ market(g).ask = askInventoryGpu[g] /\ market(g).bid = bidInventoryGusd[g]
         /\ market(g).capLeft = polCapLeft /\ polCapLeft \in Nat
<1>1. polCaps[1] \in Nat /\ polCaps[2] \in Nat /\ polVolume \in Nat
  BY DEF TypeOK
<1>2. polCapLeft \in Nat
  BY <1>1 DEF polCapLeft, PosPart, Lesser
<1>3. /\ paramsFor(g).askBps \in 0..MaxSpread /\ paramsFor(g).bidBps \in 0..MaxSpread
      /\ paramsFor(g).polFeeBps \in 0..MaxSpread
  <2>1. polParams[g] \in [askBps : 0..MaxSpread, bidBps : 0..MaxSpread, polFeeBps : 0..MaxSpread]
    BY DEF TypeOK
  <2>2. {DefaultPol.askBps, DefaultPol.bidBps, DefaultPol.polFeeBps} \subseteq 0..MaxSpread
    BY SpotConstants
  <2> QED
    BY <2>1, <2>2 DEF paramsFor
<1>4. /\ price[g] \in Prices /\ gpus[g].feeBps \in 0..MaxIssuanceFee /\ gpus[g].enabled \in BOOLEAN
      /\ bidInventoryGusd[g] \in Nat /\ askInventoryGpu[g] \in Nat
      /\ polPaused \in BOOLEAN /\ hookFeeBps \in 0..MaxHookFee
  BY DEF TypeOK
<1> QED
  BY <1>2, <1>3, <1>4 DEF market, Markets

(* Sums over the GPUs.                                                     *)
LEMMA GpuSums ==
  ASSUME NEW v \in [GpuIds -> Nat], NEW w \in [GpuIds -> Nat], NEW g \in GpuIds,
         \A h \in GpuIds \ {g} : w[h] = v[h]
  PROVE  SumOf(w) = SumOf(v) - v[g] + w[g] /\ SumOf(v) \in Nat /\ SumOf(w) \in Nat
<1>1. IsFiniteSet(GpuIds)
  BY SpotConstants
<1>2. SumOf(w) = SumOf(v) - v[g] + w[g]
  BY <1>1, SumChange
<1>3. SumOf(v) \in Nat /\ SumOf(w) \in Nat
  BY <1>1, SumNat
<1> QED
  BY <1>2, <1>3

(* GPUMarketLiquidity: a movement of one market's bid inventory that is    *)
(* booked in the total and in the vault's balance keeps the three equal.   *)
LEMMA VaultMoves ==
  ASSUME TypeOK, InventoryBacked, NEW g \in GpuIds, NEW d \in Int,
         bidInventoryGusd[g] + d \in Nat,
         bidInventoryGusd' = [bidInventoryGusd EXCEPT ![g] = @ + d],
         totalBidGusd' = totalBidGusd + d, gusd'["vault"] = gusd["vault"] + d
  PROVE  /\ bidInventoryGusd' \in [GpuIds -> Nat] /\ totalBidGusd' \in Nat
         /\ gusd'["vault"] = totalBidGusd' /\ totalBidGusd' = SumOf(bidInventoryGusd')
<1> DEFINE b == [bidInventoryGusd EXCEPT ![g] = @ + d]
<1>1. bidInventoryGusd \in [GpuIds -> Nat] /\ totalBidGusd \in Nat
  BY DEF TypeOK
<1>2. /\ b \in [GpuIds -> Nat] /\ b[g] = bidInventoryGusd[g] + d
      /\ \A h \in GpuIds \ {g} : b[h] = bidInventoryGusd[h]
  BY <1>1
<1>3. bidInventoryGusd' = b
  OBVIOUS
<1> HIDE DEF b
<1>4. SumOf(b) = SumOf(bidInventoryGusd) - bidInventoryGusd[g] + b[g] /\ SumOf(b) \in Nat
  BY <1>1, <1>2, GpuSums
<1>5. SumOf(bidInventoryGusd) = totalBidGusd /\ bidInventoryGusd[g] \in Nat
  BY <1>1 DEF InventoryBacked
<1>6. SumOf(b) = totalBidGusd'
  BY <1>1, <1>2, <1>4, <1>5
<1>7. gusd'["vault"] = totalBidGusd'
  BY DEF InventoryBacked
<1> QED
  BY <1>2, <1>3, <1>4, <1>6, <1>7

(* The claims of one GPU move by c, the protocol's gUSD by m: the worth    *)
(* does not fall when m is at least the price of c.                        *)
LEMMA WorthMoves ==
  ASSUME TypeOK, gpu' \in [GpuIds -> [GpuHolders -> Nat]], price' = price,
         NEW g \in GpuIds, NEW c \in Int, NEW m \in Int,
         \A h \in GpuIds \ {g} : gpu'[h] = gpu[h],
         gpu'[g]["traders"] + gpu'[g]["manager"] = gpu[g]["traders"] + gpu[g]["manager"] + c,
         gusd'["vault"] + gusd'["ledger"] = gusd["vault"] + gusd["ledger"] + m,
         price[g] * c <= m * CD
  PROVE  Worth' >= Worth
<1> DEFINE v == [h \in GpuIds |-> price[h] * (gpu[h]["traders"] + gpu[h]["manager"])]
           w == [h \in GpuIds |-> price'[h] * (gpu'[h]["traders"] + gpu'[h]["manager"])]
           p == price[g]
           a == gpu[g]["traders"] + gpu[g]["manager"]
           u == gusd["vault"] + gusd["ledger"]
<1>1. /\ \A h \in GpuIds : price[h] \in Nat
      /\ \A h \in GpuIds : gpu[h]["traders"] + gpu[h]["manager"] \in Nat
      /\ \A h \in GpuIds : gpu'[h]["traders"] + gpu'[h]["manager"] \in Nat
      /\ u \in Nat /\ CD \in Nat /\ IsFiniteSet(GpuIds)
  <2>1. price \in [GpuIds -> Prices] /\ Prices \subseteq Nat /\ IsFiniteSet(GpuIds) /\ CD \in Nat
    BY SpotConstants, Constants DEF TypeOK
  <2>2. gpu \in [GpuIds -> [{"traders", "manager", "vault"} -> Nat]]
    BY DEF TypeOK, GpuHolders
  <2>3. gpu' \in [GpuIds -> [{"traders", "manager", "vault"} -> Nat]]
    BY DEF GpuHolders
  <2>4. gusd["vault"] \in Nat /\ gusd["ledger"] \in Nat
    BY DEF TypeOK, GusdHolders
  <2>5. \A h \in GpuIds : gpu[h]["traders"] \in Nat /\ gpu[h]["manager"] \in Nat
    BY <2>2
  <2>6. \A h \in GpuIds : gpu'[h]["traders"] \in Nat /\ gpu'[h]["manager"] \in Nat
    BY <2>3
  <2>7. u \in Nat
    BY <2>4
  <2>8. \A h \in GpuIds : gpu[h]["traders"] + gpu[h]["manager"] \in Nat
    BY <2>5
  <2>9. \A h \in GpuIds : gpu'[h]["traders"] + gpu'[h]["manager"] \in Nat
    BY <2>6
  <2>10. \A h \in GpuIds : price[h] \in Nat
    BY <2>1
  <2> QED
    BY <2>1, <2>7, <2>8, <2>9, <2>10
<1>2. v \in [GpuIds -> Nat] /\ w \in [GpuIds -> Nat]
  BY <1>1, ProductNat
<1>3. \A h \in GpuIds \ {g} : w[h] = v[h]
  OBVIOUS
<1>4. v[g] = p * a /\ w[g] = p * (a + c)
  OBVIOUS
<1>5. Worth = u * CD - SumOf(v) /\ Worth' = (u + m) * CD - SumOf(w)
  BY DEF Worth
<1>6. p \in Nat /\ a \in Nat
  BY <1>1
<1> HIDE DEF v, w, p, a, u
<1>7. SumOf(w) = SumOf(v) - v[g] + w[g] /\ SumOf(v) \in Nat
  BY <1>2, <1>3, GpuSums
<1>8. p * (a + c) = p * a + p * c /\ (u + m) * CD = u * CD + m * CD
  BY <1>1, <1>6
<1>9. p * a \in Int /\ p * c \in Int /\ u * CD \in Int /\ m * CD \in Int
  BY <1>1, <1>6
<1>10. p * c <= m * CD
  BY DEF p
<1> QED
  BY <1>4, <1>5, <1>7, <1>8, <1>9, <1>10

-----------------------------------------------------------------------------
(* Steps.  Every step keeps the books, and costs the protocol nothing.     *)
NoLoss ==
  /\ price' = price => Worth' >= Worth
  /\ polVolume' > polVolume => polVolume' - polVolume <= polCapLeft

SafeStep == BooksExact' /\ NoLoss

(* The balances are natural.                                               *)
LEMMA Balances ==
  ASSUME TypeOK
  PROVE  /\ gusd \in [{"traders", "manager", "vault", "ledger", "hook"} -> Nat]
         /\ gpu \in [GpuIds -> [{"traders", "manager", "vault"} -> Nat]]
         /\ \A g \in GpuIds : /\ gpu[g]["traders"] \in Nat /\ gpu[g]["manager"] \in Nat
                              /\ gpu[g]["vault"] \in Nat
BY DEF TypeOK, GusdHolders, GpuHolders

(* The issued amount of one GPU grows by y, and nothing else changes.      *)
LEMMA IssuedMoves ==
  ASSUME TypeOK, NEW g \in GpuIds, NEW y \in Nat, gpus' = issued(g, y)
  PROVE  /\ gpus' \in [GpuIds -> [created : BOOLEAN, enabled : BOOLEAN, feeBps : 0..MaxIssuanceFee,
                                 totalIssued : Nat]]
         /\ gpus'[g].totalIssued = gpus[g].totalIssued + y /\ gpus[g].totalIssued \in Nat
         /\ \A h \in GpuIds \ {g} : gpus'[h] = gpus[h]
<1>1. gpus \in [GpuIds -> [created : BOOLEAN, enabled : BOOLEAN, feeBps : 0..MaxIssuanceFee,
                           totalIssued : Nat]]
  BY DEF TypeOK
<1> QED
  BY <1>1 DEF issued

(* A sound buy.                                                            *)
LEMMA BuyFillSafe ==
  ASSUME BooksExact, NEW g \in GpuIds, NEW f, SoundBuy(market(g), f), NEW n \in Nat, NEW q \in Nat,
         buyFill(g, f, n, q)
  PROVE  SafeStep
<1>1. TypeOK /\ InventoryBacked /\ SupplyIsIssued /\ HookHoldsNothing
  BY DEF BooksExact
<1>2. /\ f.polGpu \in Nat /\ f.issueGpu \in Nat /\ f.polGpu <= askInventoryGpu[g]
      /\ f.base \in Nat /\ f.fee \in Nat /\ f.polFee \in Nat /\ f.hookFee \in Nat
      /\ f.bidIn \in Nat /\ f.notional \in Nat /\ f.notional <= polCapLeft
      /\ f.pays = f.base + f.bidIn + f.fee + f.polFee + f.hookFee
      /\ price[g] * (f.polGpu + f.issueGpu) <= f.pays * CD
  BY <1>1, MarketTyped DEF SoundBuy
<1>3. /\ gusd \in [{"traders", "manager", "vault", "ledger", "hook"} -> Nat]
      /\ gpu \in [GpuIds -> [{"traders", "manager", "vault"} -> Nat]]
      /\ gpu[g]["traders"] \in Nat /\ gpu[g]["manager"] \in Nat /\ gpu[g]["vault"] \in Nat
  BY <1>1, Balances
<1>4. /\ n + f.pays <= gusd["traders"] /\ q <= gpu[g]["manager"]
      /\ gpus' = issued(g, f.issueGpu)
      /\ gusd' = [gusd EXCEPT !["traders"] = @ - n - f.pays,
                          !["manager"] = @ + n,
                          !["ledger"] = @ + f.fee + f.polFee + f.hookFee,
                          !["vault"] = @ + f.base + f.bidIn,
                          !["hook"] = @ + f.pays - (f.base + f.bidIn + f.fee + f.polFee + f.hookFee)]
      /\ gpu' = [gpu EXCEPT ![g]["traders"] = @ + q + f.polGpu + f.issueGpu,
                        ![g]["manager"] = @ - q,
                        ![g]["vault"] = @ - f.polGpu]
      /\ bidInventoryGusd' = [bidInventoryGusd EXCEPT ![g] = @ + f.base + f.bidIn]
      /\ askInventoryGpu' = [askInventoryGpu EXCEPT ![g] = @ - f.polGpu]
      /\ totalBidGusd' = totalBidGusd + f.base + f.bidIn
      /\ polVolume' = polVolume + f.notional
      /\ UNCHANGED <<price, paused, settingVars>>
  BY DEF buyFill
<1> DEFINE d == f.base + f.bidIn
           m == f.fee + f.polFee + f.hookFee
<1>5. d \in Nat /\ m \in Nat /\ f.pays = d + m
  BY <1>2
<1>6. /\ gusd' \in [{"traders", "manager", "vault", "ledger", "hook"} -> Nat]
      /\ gusd'["vault"] = gusd["vault"] + d /\ gusd'["ledger"] = gusd["ledger"] + m
      /\ gusd'["hook"] = gusd["hook"]
  <2>1. /\ gusd["traders"] - n - f.pays \in Nat /\ gusd["manager"] + n \in Nat
        /\ gusd["ledger"] + f.fee + f.polFee + f.hookFee = gusd["ledger"] + m
        /\ gusd["vault"] + f.base + f.bidIn = gusd["vault"] + d
        /\ gusd["hook"] + f.pays - (f.base + f.bidIn + f.fee + f.polFee + f.hookFee) = gusd["hook"]
        /\ gusd["ledger"] + m \in Nat /\ gusd["vault"] + d \in Nat /\ gusd["hook"] \in Nat
    BY <1>2, <1>3, <1>4, <1>5
  <2>2. gusd' = [gusd EXCEPT !["traders"] = gusd["traders"] - n - f.pays,
                             !["manager"] = gusd["manager"] + n,
                             !["ledger"] = gusd["ledger"] + m,
                             !["vault"] = gusd["vault"] + d,
                             !["hook"] = gusd["hook"]]
    BY <1>4, <2>1
  <2> HIDE DEF d, m
  <2> QED
    BY <1>3, <2>1, <2>2
<1>7. /\ gpu' \in [GpuIds -> [{"traders", "manager", "vault"} -> Nat]]
      /\ gpu'[g]["traders"] = gpu[g]["traders"] + q + f.polGpu + f.issueGpu
      /\ gpu'[g]["manager"] = gpu[g]["manager"] - q
      /\ gpu'[g]["vault"] = gpu[g]["vault"] - f.polGpu
      /\ \A h \in GpuIds \ {g} : gpu'[h] = gpu[h]
  <2>1. /\ gpu[g]["traders"] + q + f.polGpu + f.issueGpu \in Nat
        /\ gpu[g]["manager"] - q \in Nat /\ gpu[g]["vault"] - f.polGpu \in Nat
    BY <1>1, <1>2, <1>3, <1>4 DEF InventoryBacked
  <2> QED
    BY <1>3, <1>4, <2>1
<1>8. /\ gpus' \in [GpuIds -> [created : BOOLEAN, enabled : BOOLEAN, feeBps : 0..MaxIssuanceFee,
                               totalIssued : Nat]]
      /\ gpus'[g].totalIssued = gpus[g].totalIssued + f.issueGpu /\ gpus[g].totalIssued \in Nat
      /\ \A h \in GpuIds \ {g} : gpus'[h] = gpus[h]
  BY <1>1, <1>2, <1>4, IssuedMoves
<1>9. /\ bidInventoryGusd' \in [GpuIds -> Nat] /\ totalBidGusd' \in Nat
      /\ gusd'["vault"] = totalBidGusd' /\ totalBidGusd' = SumOf(bidInventoryGusd')
  <2>1. bidInventoryGusd[g] \in Nat /\ totalBidGusd \in Nat
    BY <1>1 DEF TypeOK
  <2>2. /\ bidInventoryGusd[g] + d \in Nat
        /\ bidInventoryGusd[g] + f.base + f.bidIn = bidInventoryGusd[g] + d
        /\ totalBidGusd' = totalBidGusd + d
    BY <1>2, <1>4, <2>1
  <2>3. bidInventoryGusd' = [bidInventoryGusd EXCEPT ![g] = @ + d]
    BY <1>4, <2>2
  <2>4. d \in Int /\ gusd'["vault"] = gusd["vault"] + d
    BY <1>5, <1>6
  <2>5. TypeOK /\ InventoryBacked
    BY <1>1
  <2> HIDE DEF d
  <2> QED
    BY <2>2, <2>3, <2>4, <2>5, VaultMoves
<1>10. askInventoryGpu' \in [GpuIds -> Nat] /\ \A h \in GpuIds : gpu'[h]["vault"] = askInventoryGpu'[h]
  <2>1. askInventoryGpu \in [GpuIds -> Nat] /\ \A h \in GpuIds : gpu[h]["vault"] = askInventoryGpu[h]
    BY <1>1 DEF TypeOK, InventoryBacked
  <2>2. askInventoryGpu[g] - f.polGpu \in Nat
    BY <1>2, <2>1
  <2>3. askInventoryGpu' \in [GpuIds -> Nat] /\ askInventoryGpu'[g] = askInventoryGpu[g] - f.polGpu
    BY <1>4, <2>1, <2>2
  <2>4. \A h \in GpuIds \ {g} : askInventoryGpu'[h] = askInventoryGpu[h]
    BY <1>4, <2>1
  <2> QED
    BY <1>7, <2>1, <2>3, <2>4
<1>11. SupplyIsIssued'
  <2>1. gpus[g].totalIssued = gpu[g]["traders"] + gpu[g]["manager"] + gpu[g]["vault"]
    BY <1>1 DEF SupplyIsIssued
  <2>2. gpus'[g].totalIssued = gpu'[g]["traders"] + gpu'[g]["manager"] + gpu'[g]["vault"]
    BY <1>2, <1>3, <1>7, <1>8, <2>1
  <2>3. ASSUME NEW h \in GpuIds \ {g}
        PROVE  gpus'[h].totalIssued = gpu'[h]["traders"] + gpu'[h]["manager"] + gpu'[h]["vault"]
    BY <1>1, <1>7, <1>8 DEF SupplyIsIssued
  <2> QED
    BY <2>2, <2>3 DEF SupplyIsIssued
<1>12. TypeOK'
  <2>1. polVolume \in Nat /\ polVolume' \in Nat
    BY <1>1, <1>2, <1>4 DEF TypeOK
  <2>2. /\ price' \in [GpuIds -> Prices] /\ paused' \in BOOLEAN /\ polPaused' \in BOOLEAN
        /\ pools' \subseteq GpuIds /\ hookFeeBps' \in 0..MaxHookFee /\ polCaps' \in Nat \X Nat
        /\ polParams' \in [GpuIds -> [askBps : 0..MaxSpread, bidBps : 0..MaxSpread, polFeeBps : 0..MaxSpread]]
    BY <1>1, <1>4 DEF TypeOK, settingVars
  <2> QED
    BY <1>6, <1>7, <1>8, <1>9, <1>10, <2>1, <2>2 DEF TypeOK, GusdHolders, GpuHolders
<1>13. NoLoss
  <2>1. gpu' \in [GpuIds -> [GpuHolders -> Nat]] /\ price' = price
    BY <1>4, <1>7 DEF GpuHolders
  <2>2. gpu'[g]["traders"] + gpu'[g]["manager"]
          = gpu[g]["traders"] + gpu[g]["manager"] + (f.polGpu + f.issueGpu)
    BY <1>2, <1>3, <1>7
  <2>3. gusd'["vault"] + gusd'["ledger"] = gusd["vault"] + gusd["ledger"] + f.pays
    BY <1>3, <1>5, <1>6
  <2>4. f.polGpu + f.issueGpu \in Int /\ f.pays \in Int
    BY <1>2
  <2>5. Worth' >= Worth
    BY <1>1, <1>2, <1>7, <2>1, <2>2, <2>3, <2>4, WorthMoves
  <2>6. polVolume' - polVolume <= polCapLeft
    <3>1. polVolume \in Nat
      BY <1>1 DEF TypeOK
    <3> QED
      BY <1>1, <1>2, <1>4, <3>1, MarketTyped
  <2> QED
    BY <2>5, <2>6 DEF NoLoss
<1>14. HookHoldsNothing' /\ InventoryBacked'
  BY <1>1, <1>6, <1>9, <1>10 DEF HookHoldsNothing, InventoryBacked
<1> QED
  BY <1>11, <1>12, <1>13, <1>14 DEF SafeStep, BooksExact

(* A sound sale.                                                           *)
LEMMA SellFillSafe ==
  ASSUME BooksExact, NEW g \in GpuIds, NEW f, SoundSell(market(g), f), NEW n \in Nat, NEW q \in Nat,
         sellFill(g, f, n, q)
  PROVE  SafeStep
<1>1. TypeOK /\ InventoryBacked /\ SupplyIsIssued /\ HookHoldsNothing
  BY DEF BooksExact
<1>2. /\ f.gpuIn \in Nat /\ f.bidOut \in Nat
      /\ f.polFee \in Nat /\ f.hookFee \in Nat /\ f.proceeds \in Nat
      /\ f.bidOut = f.proceeds + f.polFee + f.hookFee
      /\ f.proceeds * CD <= price[g] * f.gpuIn
      /\ f.bidOut <= polCapLeft
  BY <1>1, MarketTyped DEF SoundSell
<1>3. /\ gusd \in [{"traders", "manager", "vault", "ledger", "hook"} -> Nat]
      /\ gpu \in [GpuIds -> [{"traders", "manager", "vault"} -> Nat]]
      /\ gpu[g]["traders"] \in Nat /\ gpu[g]["manager"] \in Nat /\ gpu[g]["vault"] \in Nat
  BY <1>1, Balances
<1>4. /\ n + f.gpuIn <= gpu[g]["traders"] /\ q <= gusd["manager"]
      /\ f.bidOut <= bidInventoryGusd[g]
      /\ gusd' = [gusd EXCEPT !["traders"] = @ + q + f.proceeds,
                          !["manager"] = @ - q,
                          !["ledger"] = @ + f.polFee + f.hookFee,
                          !["vault"] = @ - f.bidOut]
      /\ gpu' = [gpu EXCEPT ![g]["traders"] = @ - n - f.gpuIn,
                        ![g]["manager"] = @ + n,
                        ![g]["vault"] = @ + f.gpuIn]
      /\ bidInventoryGusd' = [bidInventoryGusd EXCEPT ![g] = @ - f.bidOut]
      /\ askInventoryGpu' = [askInventoryGpu EXCEPT ![g] = @ + f.gpuIn]
      /\ totalBidGusd' = totalBidGusd - f.bidOut
      /\ polVolume' = polVolume + f.bidOut
      /\ UNCHANGED <<price, issuanceVars, settingVars>>
  BY DEF sellFill, pulled
<1>5. bidInventoryGusd[g] \in Nat /\ totalBidGusd \in Nat /\ bidInventoryGusd[g] <= totalBidGusd
  <2>1. bidInventoryGusd \in [GpuIds -> Nat] /\ totalBidGusd \in Nat /\ IsFiniteSet(GpuIds)
    BY <1>1, SpotConstants DEF TypeOK
  <2>2. bidInventoryGusd[g] <= SumOf(bidInventoryGusd)
    BY <2>1, SumBoundsPart
  <2> QED
    BY <1>1, <2>1, <2>2 DEF InventoryBacked
<1>6. gusd["vault"] = totalBidGusd
  BY <1>1 DEF InventoryBacked
<1>7. /\ gusd' \in [{"traders", "manager", "vault", "ledger", "hook"} -> Nat]
      /\ gusd'["vault"] = gusd["vault"] - f.bidOut
      /\ gusd'["ledger"] = gusd["ledger"] + f.polFee + f.hookFee
      /\ gusd'["hook"] = gusd["hook"]
  <2>1. /\ gusd["traders"] + q + f.proceeds \in Nat /\ gusd["manager"] - q \in Nat
        /\ gusd["ledger"] + f.polFee + f.hookFee \in Nat /\ gusd["vault"] - f.bidOut \in Nat
    BY <1>2, <1>3, <1>4, <1>5, <1>6
  <2> QED
    BY <1>3, <1>4, <2>1
<1>8. /\ gpu' \in [GpuIds -> [{"traders", "manager", "vault"} -> Nat]]
      /\ gpu'[g]["traders"] = gpu[g]["traders"] - n - f.gpuIn
      /\ gpu'[g]["manager"] = gpu[g]["manager"] + n
      /\ gpu'[g]["vault"] = gpu[g]["vault"] + f.gpuIn
      /\ \A h \in GpuIds \ {g} : gpu'[h] = gpu[h]
  <2>1. /\ gpu[g]["traders"] - n - f.gpuIn \in Nat
        /\ gpu[g]["manager"] + n \in Nat /\ gpu[g]["vault"] + f.gpuIn \in Nat
    BY <1>2, <1>3, <1>4
  <2> QED
    BY <1>3, <1>4, <2>1
<1>9. /\ bidInventoryGusd' \in [GpuIds -> Nat] /\ totalBidGusd' \in Nat
      /\ gusd'["vault"] = totalBidGusd' /\ totalBidGusd' = SumOf(bidInventoryGusd')
  <2> DEFINE d == 0 - f.bidOut
  <2>1. /\ bidInventoryGusd[g] + d \in Nat /\ d \in Int
        /\ bidInventoryGusd[g] - f.bidOut = bidInventoryGusd[g] + d
        /\ totalBidGusd' = totalBidGusd + d
        /\ gusd'["vault"] = gusd["vault"] + d
    BY <1>2, <1>3, <1>4, <1>5, <1>7
  <2>2. bidInventoryGusd' = [bidInventoryGusd EXCEPT ![g] = @ + d]
    BY <1>4, <2>1
  <2>3. TypeOK /\ InventoryBacked
    BY <1>1
  <2> HIDE DEF d
  <2> QED
    BY <2>1, <2>2, <2>3, VaultMoves
<1>10. askInventoryGpu' \in [GpuIds -> Nat] /\ \A h \in GpuIds : gpu'[h]["vault"] = askInventoryGpu'[h]
  <2>1. askInventoryGpu \in [GpuIds -> Nat] /\ \A h \in GpuIds : gpu[h]["vault"] = askInventoryGpu[h]
    BY <1>1 DEF TypeOK, InventoryBacked
  <2>2. askInventoryGpu[g] + f.gpuIn \in Nat
    BY <1>2, <2>1
  <2>3. askInventoryGpu' \in [GpuIds -> Nat] /\ askInventoryGpu'[g] = askInventoryGpu[g] + f.gpuIn
    BY <1>4, <2>1, <2>2
  <2>4. \A h \in GpuIds \ {g} : askInventoryGpu'[h] = askInventoryGpu[h]
    BY <1>4, <2>1
  <2> QED
    BY <1>8, <2>1, <2>3, <2>4
<1>11. SupplyIsIssued'
  <2>1. gpus[g].totalIssued = gpu[g]["traders"] + gpu[g]["manager"] + gpu[g]["vault"] /\ gpus' = gpus
    BY <1>1, <1>4 DEF SupplyIsIssued, issuanceVars
  <2>2. gpus'[g].totalIssued = gpu'[g]["traders"] + gpu'[g]["manager"] + gpu'[g]["vault"]
    BY <1>2, <1>3, <1>8, <2>1
  <2>3. ASSUME NEW h \in GpuIds \ {g}
        PROVE  gpus'[h].totalIssued = gpu'[h]["traders"] + gpu'[h]["manager"] + gpu'[h]["vault"]
    BY <1>1, <1>8, <2>1 DEF SupplyIsIssued
  <2> QED
    BY <2>2, <2>3 DEF SupplyIsIssued
<1>12. TypeOK'
  <2>1. polVolume \in Nat /\ polVolume' \in Nat
    BY <1>1, <1>2, <1>4 DEF TypeOK
  <2>2. /\ price' \in [GpuIds -> Prices] /\ paused' \in BOOLEAN /\ polPaused' \in BOOLEAN
        /\ gpus' \in [GpuIds -> [created : BOOLEAN, enabled : BOOLEAN, feeBps : 0..MaxIssuanceFee,
                                 totalIssued : Nat]]
        /\ pools' \subseteq GpuIds /\ hookFeeBps' \in 0..MaxHookFee /\ polCaps' \in Nat \X Nat
        /\ polParams' \in [GpuIds -> [askBps : 0..MaxSpread, bidBps : 0..MaxSpread, polFeeBps : 0..MaxSpread]]
    BY <1>1, <1>4 DEF TypeOK, settingVars, issuanceVars
  <2> QED
    BY <1>7, <1>8, <1>9, <1>10, <2>1, <2>2 DEF TypeOK, GusdHolders, GpuHolders
<1>13. NoLoss
  <2> DEFINE c == 0 - f.gpuIn
             m == 0 - f.proceeds
  <2>1. gpu' \in [GpuIds -> [GpuHolders -> Nat]] /\ price' = price
    BY <1>4, <1>8 DEF GpuHolders
  <2>2. gpu'[g]["traders"] + gpu'[g]["manager"] = gpu[g]["traders"] + gpu[g]["manager"] + c
    BY <1>2, <1>3, <1>8
  <2>3. gusd'["vault"] + gusd'["ledger"] = gusd["vault"] + gusd["ledger"] + m
    BY <1>2, <1>3, <1>7
  <2>4. c \in Int /\ m \in Int
    BY <1>2
  <2>5. price[g] * c <= m * CD
    <3>1. price[g] \in Nat /\ CD \in Nat
      BY <1>1, SpotConstants, Constants DEF TypeOK
    <3>2. price[g] * c = 0 - price[g] * f.gpuIn /\ m * CD = 0 - f.proceeds * CD
      BY <1>2, <3>1
    <3>3. price[g] * f.gpuIn \in Nat /\ f.proceeds * CD \in Nat
      BY <1>2, <3>1, ProductNat
    <3> HIDE DEF c, m
    <3> QED
      BY <1>2, <3>2, <3>3
  <2>6. TypeOK
    BY <1>1
  <2> HIDE DEF c, m
  <2>7. Worth' >= Worth
    BY <1>8, <2>1, <2>2, <2>3, <2>4, <2>5, <2>6, WorthMoves
  <2>8. polVolume' - polVolume <= polCapLeft
    <3>1. polVolume \in Nat
      BY <1>1 DEF TypeOK
    <3> QED
      BY <1>1, <1>2, <1>4, <3>1, MarketTyped
  <2> QED
    BY <2>7, <2>8 DEF NoLoss
<1>14. HookHoldsNothing' /\ InventoryBacked'
  BY <1>1, <1>7, <1>9, <1>10 DEF HookHoldsNothing, InventoryBacked
<1> QED
  BY <1>11, <1>12, <1>13, <1>14 DEF SafeStep, BooksExact

(* GPUIssuance.issue.                                                      *)
LEMMA IssueSafe ==
  ASSUME BooksExact, NEW g \in GpuIds, NEW y \in Nat, issue(g, y)
  PROVE  SafeStep
<1> DEFINE q == quoteIssue(market(g), y)
<1>1. TypeOK /\ InventoryBacked /\ SupplyIsIssued /\ HookHoldsNothing
  BY DEF BooksExact
<1>2. /\ q.base \in Nat /\ q.fee \in Nat /\ q.total = q.base + q.fee
      /\ y * price[g] <= q.base * CD
  BY <1>1, MarketTyped, QuoteCovers
<1>3. /\ gusd \in [{"traders", "manager", "vault", "ledger", "hook"} -> Nat]
      /\ gpu \in [GpuIds -> [{"traders", "manager", "vault"} -> Nat]]
      /\ gpu[g]["traders"] \in Nat /\ gpu[g]["manager"] \in Nat /\ gpu[g]["vault"] \in Nat
  BY <1>1, Balances
<1>4. /\ q.total <= gusd["traders"]
      /\ gpus' = issued(g, y)
      /\ gusd' = [gusd EXCEPT !["traders"] = @ - q.total, !["ledger"] = @ + q.fee,
                              !["vault"] = @ + q.base]
      /\ bidInventoryGusd' = [bidInventoryGusd EXCEPT ![g] = @ + q.base]
      /\ totalBidGusd' = totalBidGusd + q.base
      /\ gpu' = [gpu EXCEPT ![g]["traders"] = @ + y]
      /\ UNCHANGED <<price, paused, askInventoryGpu, settingVars, polVolume>>
  BY DEF issue
<1> HIDE DEF q
<1>5. /\ gusd' \in [{"traders", "manager", "vault", "ledger", "hook"} -> Nat]
      /\ gusd'["vault"] = gusd["vault"] + q.base
      /\ gusd'["ledger"] = gusd["ledger"] + q.fee
      /\ gusd'["hook"] = gusd["hook"]
  <2>1. /\ gusd["traders"] - q.total \in Nat /\ gusd["ledger"] + q.fee \in Nat
        /\ gusd["vault"] + q.base \in Nat
    BY <1>2, <1>3, <1>4
  <2> QED
    BY <1>3, <1>4, <2>1
<1>6. /\ gpu' \in [GpuIds -> [{"traders", "manager", "vault"} -> Nat]]
      /\ gpu'[g]["traders"] = gpu[g]["traders"] + y
      /\ gpu'[g]["manager"] = gpu[g]["manager"]
      /\ \A h \in GpuIds : gpu'[h]["vault"] = gpu[h]["vault"]
      /\ \A h \in GpuIds \ {g} : gpu'[h] = gpu[h]
  <2>1. gpu[g]["traders"] + y \in Nat
    BY <1>3
  <2> QED
    BY <1>3, <1>4, <2>1
<1>7. /\ gpus' \in [GpuIds -> [created : BOOLEAN, enabled : BOOLEAN, feeBps : 0..MaxIssuanceFee,
                               totalIssued : Nat]]
      /\ gpus'[g].totalIssued = gpus[g].totalIssued + y /\ gpus[g].totalIssued \in Nat
      /\ \A h \in GpuIds \ {g} : gpus'[h] = gpus[h]
  BY <1>1, <1>4, IssuedMoves
<1>8. /\ bidInventoryGusd' \in [GpuIds -> Nat] /\ totalBidGusd' \in Nat
      /\ gusd'["vault"] = totalBidGusd' /\ totalBidGusd' = SumOf(bidInventoryGusd')
  <2>1. bidInventoryGusd[g] + q.base \in Nat /\ q.base \in Int
    BY <1>1, <1>2 DEF TypeOK
  <2>2. TypeOK /\ InventoryBacked
    BY <1>1
  <2> QED
    BY <1>4, <1>5, <2>1, <2>2, VaultMoves
<1>9. SupplyIsIssued'
  <2>1. gpus[g].totalIssued = gpu[g]["traders"] + gpu[g]["manager"] + gpu[g]["vault"]
    BY <1>1 DEF SupplyIsIssued
  <2>2. gpus'[g].totalIssued = gpu'[g]["traders"] + gpu'[g]["manager"] + gpu'[g]["vault"]
    BY <1>3, <1>6, <1>7, <2>1
  <2>3. ASSUME NEW h \in GpuIds \ {g}
        PROVE  gpus'[h].totalIssued = gpu'[h]["traders"] + gpu'[h]["manager"] + gpu'[h]["vault"]
    BY <1>1, <1>6, <1>7 DEF SupplyIsIssued
  <2> QED
    BY <2>2, <2>3 DEF SupplyIsIssued
<1>10. TypeOK'
  <2>1. /\ price' \in [GpuIds -> Prices] /\ paused' \in BOOLEAN /\ polPaused' \in BOOLEAN
        /\ pools' \subseteq GpuIds /\ hookFeeBps' \in 0..MaxHookFee /\ polCaps' \in Nat \X Nat
        /\ askInventoryGpu' \in [GpuIds -> Nat] /\ polVolume' \in Nat
        /\ polParams' \in [GpuIds -> [askBps : 0..MaxSpread, bidBps : 0..MaxSpread, polFeeBps : 0..MaxSpread]]
    BY <1>1, <1>4 DEF TypeOK, settingVars
  <2> QED
    BY <1>5, <1>6, <1>7, <1>8, <2>1 DEF TypeOK, GusdHolders, GpuHolders
<1>11. NoLoss
  <2> DEFINE m == q.base + q.fee
  <2>1. gpu' \in [GpuIds -> [GpuHolders -> Nat]] /\ price' = price
    BY <1>4, <1>6 DEF GpuHolders
  <2>2. gpu'[g]["traders"] + gpu'[g]["manager"] = gpu[g]["traders"] + gpu[g]["manager"] + y
    BY <1>3, <1>6
  <2>3. gusd'["vault"] + gusd'["ledger"] = gusd["vault"] + gusd["ledger"] + m
    BY <1>2, <1>3, <1>5
  <2>4. m \in Int /\ y \in Int
    BY <1>2
  <2>5. price[g] * y <= m * CD
    <3>1. price[g] \in Nat /\ CD \in Nat
      BY <1>1, SpotConstants, Constants DEF TypeOK
    <3>2. m * CD = q.base * CD + q.fee * CD /\ price[g] * y = y * price[g]
      BY <1>2, <3>1
    <3>3. q.base * CD \in Nat /\ q.fee * CD \in Nat /\ y * price[g] \in Nat
      BY <1>2, <3>1, ProductNat
    <3> HIDE DEF m
    <3> QED
      BY <1>2, <3>2, <3>3
  <2>6. TypeOK
    BY <1>1
  <2> HIDE DEF m
  <2>7. Worth' >= Worth
    BY <1>6, <2>1, <2>2, <2>3, <2>4, <2>5, <2>6, WorthMoves
  <2>8. ~(polVolume' > polVolume)
    BY <1>1, <1>4 DEF TypeOK
  <2> QED
    BY <2>7, <2>8 DEF NoLoss
<1>12. HookHoldsNothing' /\ InventoryBacked'
  BY <1>1, <1>4, <1>5, <1>6, <1>8 DEF HookHoldsNothing, InventoryBacked
<1> QED
  BY <1>9, <1>10, <1>11, <1>12 DEF SafeStep, BooksExact

(* The worth is an integer.                                                *)
LEMMA WorthInt ==
  ASSUME TypeOK
  PROVE  Worth \in Int
<1> DEFINE v == [h \in GpuIds |-> price[h] * (gpu[h]["traders"] + gpu[h]["manager"])]
<1>1. \A h \in GpuIds : gpu[h]["traders"] + gpu[h]["manager"] \in Nat
  <2>1. \A h \in GpuIds : gpu[h]["traders"] \in Nat /\ gpu[h]["manager"] \in Nat
    BY Balances
  <2> QED
    BY <2>1
<1>2. \A h \in GpuIds : price[h] \in Nat
  BY SpotConstants DEF TypeOK
<1>3. v \in [GpuIds -> Nat]
  BY <1>1, <1>2, ProductNat
<1>4. IsFiniteSet(GpuIds) /\ CD \in Nat
  BY SpotConstants, Constants
<1>5. Worth = (gusd["vault"] + gusd["ledger"]) * CD - SumOf(v)
  BY DEF Worth
<1> HIDE DEF v
<1>6. SumOf(v) \in Nat
  BY <1>3, <1>4, SumNat
<1>7. gusd["vault"] + gusd["ledger"] \in Nat
  BY DEF TypeOK, GusdHolders
<1> QED
  BY <1>4, <1>5, <1>6, <1>7

(* A step that moves nothing and books no volume loses nothing.            *)
LEMMA StillSafe ==
  ASSUME TypeOK, gusd' = gusd, gpu' = gpu, polVolume' = polVolume \/ polVolume' = 0
  PROVE  NoLoss
<1>1. price' = price => Worth' = Worth
  BY DEF Worth
<1>2. Worth \in Int
  BY WorthInt
<1>3. ~(polVolume' > polVolume)
  BY DEF TypeOK
<1> QED
  BY <1>1, <1>2, <1>3 DEF NoLoss

(* Nothing is issued of a GPU that is not created, and only a created one  *)
(* has a pool.  createGpu resets totalIssued, so the supply needs it.      *)
CreatedFirst ==
  /\ pools \subseteq Created
  /\ \A g \in GpuIds : ~gpus[g].created => gpus[g].totalIssued = 0

Inv == BooksExact /\ CreatedFirst

(* The owner's settings, which touch no balance.                           *)
LEMMA OwnerSafe ==
  ASSUME Inv, OwnerStep
  PROVE  SafeStep /\ CreatedFirst'
<1>1. TypeOK /\ InventoryBacked /\ SupplyIsIssued /\ HookHoldsNothing /\ CreatedFirst
  BY DEF Inv, BooksExact
<1> DEFINE Gpu == [created : BOOLEAN, enabled : BOOLEAN, feeBps : 0..MaxIssuanceFee, totalIssued : Nat]
           Pol == [askBps : 0..MaxSpread, bidBps : 0..MaxSpread, polFeeBps : 0..MaxSpread]
<1>2. gpus \in [GpuIds -> Gpu] /\ polParams \in [GpuIds -> Pol]
  BY <1>1 DEF TypeOK
<1>3. ASSUME gpus' \in [GpuIds -> Gpu], paused' \in BOOLEAN,
             \A g \in GpuIds : gpus'[g].totalIssued = gpus[g].totalIssued,
             \A g \in GpuIds : gpus[g].created => gpus'[g].created,
             UNCHANGED <<price, vaultVars, settingVars, polVolume, gusd, gpu>>
      PROVE  SafeStep /\ CreatedFirst'
  <2>1. TypeOK'
    BY <1>1, <1>3 DEF TypeOK, vaultVars, settingVars
  <2>2. InventoryBacked' /\ HookHoldsNothing'
    BY <1>1, <1>3 DEF InventoryBacked, HookHoldsNothing, vaultVars
  <2>3. SupplyIsIssued'
    BY <1>1, <1>3 DEF SupplyIsIssued
  <2>4. NoLoss
    BY <1>1, <1>3, StillSafe
  <2>5. CreatedFirst'
    BY <1>1, <1>2, <1>3 DEF CreatedFirst, Created, settingVars
  <2> QED
    BY <2>1, <2>2, <2>3, <2>4, <2>5 DEF SafeStep, BooksExact
<1>4. ASSUME polParams' \in [GpuIds -> Pol], hookFeeBps' \in 0..MaxHookFee, polPaused' \in BOOLEAN,
             polCaps' \in Nat \X Nat,
             UNCHANGED <<price, issuanceVars, vaultVars, pools, polVolume, gusd, gpu>>
      PROVE  SafeStep /\ CreatedFirst'
  <2>1. TypeOK'
    BY <1>1, <1>4 DEF TypeOK, vaultVars, issuanceVars
  <2>2. InventoryBacked' /\ HookHoldsNothing'
    BY <1>1, <1>4 DEF InventoryBacked, HookHoldsNothing, vaultVars
  <2>3. SupplyIsIssued'
    BY <1>1, <1>4 DEF SupplyIsIssued, issuanceVars
  <2>4. NoLoss
    BY <1>1, <1>4, StillSafe
  <2>5. CreatedFirst'
    BY <1>1, <1>4 DEF CreatedFirst, Created, issuanceVars
  <2> QED
    BY <2>1, <2>2, <2>3, <2>4, <2>5 DEF SafeStep, BooksExact
<1>5. ASSUME NEW g \in GpuIds, NEW fee \in FeeChoices, createGpu(g, fee)
      PROVE  SafeStep /\ CreatedFirst'
  <2>1. fee \in 0..MaxIssuanceFee
    BY <1>5, SpotConstants, Constants DEF createGpu
  <2>2. gpus' = [gpus EXCEPT ![g] = [created |-> TRUE, enabled |-> FALSE, feeBps |-> fee, totalIssued |-> 0]]
    BY <1>5 DEF createGpu
  <2>3. gpus' \in [GpuIds -> Gpu]
    BY <1>2, <2>1, <2>2
  <2>4. gpus[g].totalIssued = 0
    BY <1>1, <1>5 DEF CreatedFirst, createGpu, Created
  <2>5. \A h \in GpuIds : gpus'[h].totalIssued = gpus[h].totalIssued
    BY <1>2, <2>2, <2>4
  <2>6. \A h \in GpuIds : gpus[h].created => gpus'[h].created
    BY <1>2, <2>2
  <2>7. paused' \in BOOLEAN /\ UNCHANGED <<price, vaultVars, settingVars, polVolume, gusd, gpu>>
    BY <1>1, <1>5 DEF createGpu, TypeOK
  <2> QED
    BY <1>3, <2>3, <2>5, <2>6, <2>7
<1>6. ASSUME NEW g \in GpuIds, NEW fee \in FeeChoices, setIssuanceFee(g, fee)
      PROVE  SafeStep /\ CreatedFirst'
  <2>1. fee \in 0..MaxIssuanceFee
    BY <1>6, SpotConstants, Constants DEF setIssuanceFee
  <2>2. gpus' = [gpus EXCEPT ![g].feeBps = fee]
    BY <1>6 DEF setIssuanceFee
  <2>3. /\ gpus' \in [GpuIds -> Gpu]
        /\ \A h \in GpuIds : gpus'[h].totalIssued = gpus[h].totalIssued
        /\ \A h \in GpuIds : gpus[h].created => gpus'[h].created
    BY <1>2, <2>1, <2>2
  <2>4. paused' \in BOOLEAN /\ UNCHANGED <<price, vaultVars, settingVars, polVolume, gusd, gpu>>
    BY <1>1, <1>6 DEF setIssuanceFee, TypeOK
  <2> QED
    BY <1>3, <2>3, <2>4
<1>7. ASSUME NEW g \in GpuIds, NEW b \in BOOLEAN, setIssuanceEnabled(g, b)
      PROVE  SafeStep /\ CreatedFirst'
  <2>1. gpus' = [gpus EXCEPT ![g].enabled = b]
    BY <1>7 DEF setIssuanceEnabled
  <2>2. /\ gpus' \in [GpuIds -> Gpu]
        /\ \A h \in GpuIds : gpus'[h].totalIssued = gpus[h].totalIssued
        /\ \A h \in GpuIds : gpus[h].created => gpus'[h].created
    BY <1>2, <2>1
  <2>3. paused' \in BOOLEAN /\ UNCHANGED <<price, vaultVars, settingVars, polVolume, gusd, gpu>>
    BY <1>1, <1>7 DEF setIssuanceEnabled, TypeOK
  <2> QED
    BY <1>3, <2>2, <2>3
<1>8. ASSUME NEW b \in BOOLEAN, setPaused(b)
      PROVE  SafeStep /\ CreatedFirst'
  BY <1>2, <1>3, <1>8 DEF setPaused
<1>9. ASSUME NEW g \in GpuIds, NEW p \in PolChoices, setPolParams(g, p)
      PROVE  SafeStep /\ CreatedFirst'
  <2>1. /\ {p.askBps, p.bidBps, p.polFeeBps} \subseteq 0..MaxSpread
        /\ polParams' = [polParams EXCEPT ![g] = p]
        /\ UNCHANGED <<price, issuanceVars, vaultVars, pools, hookFeeBps, polPaused, polCaps,
                       polVolume, gusd, gpu>>
    BY <1>9 DEF setPolParams
  <2>2. p \in [askBps : Nat, bidBps : Nat, polFeeBps : Nat]
    BY SpotConstants
  <2>3. p \in Pol
    BY <2>1, <2>2
  <2>4. polParams' \in [GpuIds -> Pol]
    BY <1>2, <2>1, <2>3
  <2> QED
    BY <1>1, <1>4, <2>1, <2>4 DEF TypeOK
<1>10. ASSUME NEW b \in BOOLEAN, setPolPaused(b)
       PROVE  SafeStep /\ CreatedFirst'
  BY <1>1, <1>2, <1>4, <1>10 DEF setPolPaused, TypeOK
<1>11. ASSUME NEW caps \in CapChoices, setPolCaps(caps)
       PROVE  SafeStep /\ CreatedFirst'
  <2>1. caps \in Nat \X Nat
    BY SpotConstants
  <2> QED
    BY <1>1, <1>2, <1>4, <1>11, <2>1 DEF setPolCaps, TypeOK
<1>12. ASSUME NEW fee \in FeeChoices, setHookFeeBps(fee)
       PROVE  SafeStep /\ CreatedFirst'
  <2>1. fee \in 0..MaxHookFee
    BY <1>12, SpotConstants, Constants DEF setHookFeeBps
  <2> QED
    BY <1>1, <1>2, <1>4, <1>12, <2>1 DEF setHookFeeBps, TypeOK
<1> QED
  BY <1>5, <1>6, <1>7, <1>8, <1>9, <1>10, <1>11, <1>12 DEF OwnerStep

(* The native leg's amounts are natural.                                   *)
LEMMA NativeNat ==
  ASSUME TypeOK, NEW g \in GpuIds, NEW n \in Nat
  PROVE  /\ nativeGpuOut(g, n) \in Nat /\ nativeGusdIn(g, n) \in Nat
         /\ nativeGusdOut(g, n) \in Nat /\ nativeGpuIn(g, n) \in Nat
<1>1. price[g] \in Nat \ {0} /\ CD \in Nat \ {0}
  BY SpotConstants, Constants DEF TypeOK
<1> QED
  BY <1>1, MulDivNat DEF nativeGpuOut, nativeGusdIn, nativeGusdOut, nativeGpuIn

(* A mint of a created GPU leaves every GPU created that was.              *)
LEMMA MintCreated ==
  ASSUME TypeOK, CreatedFirst, NEW g \in Created, NEW y \in Nat, gpus' = issued(g, y), pools' = pools
  PROVE  CreatedFirst'
<1>1. gpus \in [GpuIds -> [created : BOOLEAN, enabled : BOOLEAN, feeBps : 0..MaxIssuanceFee,
                           totalIssued : Nat]] /\ g \in GpuIds /\ gpus[g].created
  BY DEF TypeOK, Created
<1>2. \A h \in GpuIds : gpus'[h].created = gpus[h].created
  BY <1>1 DEF issued
<1>3. \A h \in GpuIds \ {g} : gpus'[h] = gpus[h]
  BY <1>1 DEF issued
<1> QED
  BY <1>1, <1>2, <1>3 DEF CreatedFirst, Created

(* The four swaps.                                                         *)
LEMMA BuyInSafe ==
  ASSUME Inv, NEW g \in GpuIds, NEW x \in Nat, NEW prepaid \in BOOLEAN, NEW w \in 0..x, NEW n \in w..x,
         NEW lps \in BOOLEAN, swapBuyIn(g, x, prepaid, w, n, lps)
  PROVE  SafeStep /\ CreatedFirst'
<1> DEFINE pm == gusd["manager"] + (IF prepaid THEN x ELSE 0)
           absorb == Lesser(x - n, pm)
           f == settleBuyIn(market(g), absorb)
<1>1. BooksExact /\ TypeOK /\ CreatedFirst /\ n \in Nat
  BY DEF Inv, BooksExact
<1>2. absorb \in Nat
  <2>1. gusd["manager"] \in Nat
    BY <1>1 DEF TypeOK, GusdHolders
  <2>2. pm \in Nat /\ x - n \in Nat
    BY <2>1
  <2> QED
    BY <2>2 DEF Lesser
<1>3. g \in pools /\ buyFill(g, f, n, nativeGpuOut(g, n))
  BY DEF swapBuyIn
<1> HIDE DEF absorb
<1>4. SoundBuy(market(g), f)
  BY <1>1, <1>2, MarketTyped, BuyInSound
<1> HIDE DEF f
<1>5. nativeGpuOut(g, n) \in Nat
  BY <1>1, NativeNat
<1>6. SafeStep
  BY <1>1, <1>3, <1>4, <1>5, BuyFillSafe
<1>7. gpus' = issued(g, f.issueGpu) /\ pools' = pools /\ f.issueGpu \in Nat
  BY <1>3, <1>4 DEF buyFill, settingVars, SoundBuy
<1>8. CreatedFirst'
  BY <1>1, <1>3, <1>7, MintCreated DEF CreatedFirst
<1> QED
  BY <1>6, <1>8

LEMMA BuyOutSafe ==
  ASSUME Inv, NEW g \in GpuIds, NEW y \in Nat, NEW prepay \in Nat, NEW w \in 0..y,
         NEW lps \in BOOLEAN, swapBuyOut(g, y, prepay, w, lps)
  PROVE  SafeStep /\ CreatedFirst'
<1> DEFINE plan == IF w < y THEN planBuyOut(market(g), y - w, gusd["manager"] + prepay, lps) ELSE NoPlan
           c == plan.commit
           f == settleBuyOut(market(g), c)
           n == nativeGusdIn(g, y - c)
<1>1. BooksExact /\ TypeOK /\ CreatedFirst /\ market(g) \in Markets
  BY MarketTyped DEF Inv, BooksExact
<1>2. c \in Nat /\ c <= y
  <2>1. CASE w < y
    <3>1. y - w \in Nat /\ gusd["manager"] + prepay \in Nat /\ y - w <= y
      BY <1>1, <2>1 DEF TypeOK, GusdHolders
    <3>2. planBuyOut(market(g), y - w, gusd["manager"] + prepay, lps).commit \in Nat
      BY <1>1, <3>1, BuyOutPlan
    <3>3. planBuyOut(market(g), y - w, gusd["manager"] + prepay, lps).commit <= y - w
      BY <1>1, <3>1, BuyOutPlan
    <3> QED
      BY <2>1, <3>1, <3>2, <3>3
  <2>2. CASE ~(w < y)
    BY <2>2 DEF NoPlan
  <2> QED
    BY <2>1, <2>2
<1>3. g \in pools /\ buyFill(g, f, n, y - c)
  BY DEF swapBuyOut, settledBuyOut
<1> HIDE DEF c, plan
<1>4. SoundBuy(market(g), f)
  BY <1>1, <1>2, BuyOutSound
<1> HIDE DEF f
<1>5. y - c \in Nat /\ n \in Nat
  BY <1>1, <1>2, NativeNat
<1> HIDE DEF n
<1>6. SafeStep
  BY <1>1, <1>3, <1>4, <1>5, BuyFillSafe
<1>7. gpus' = issued(g, f.issueGpu) /\ pools' = pools /\ f.issueGpu \in Nat
  BY <1>3, <1>4 DEF buyFill, settingVars, SoundBuy
<1>8. CreatedFirst'
  BY <1>1, <1>3, <1>7, MintCreated DEF CreatedFirst
<1> QED
  BY <1>6, <1>8

LEMMA SellInSafe ==
  ASSUME Inv, NEW g \in GpuIds, NEW y \in Nat, NEW prepaid \in BOOLEAN, NEW w \in 0..y, NEW n \in w..y,
         NEW lps \in BOOLEAN, swapSellIn(g, y, prepaid, w, n, lps)
  PROVE  SafeStep /\ CreatedFirst'
<1> DEFINE pm == gpu[g]["manager"] + (IF prepaid THEN y ELSE 0)
           absorb == Lesser(y - n, pm)
           f == settleSellIn(market(g), absorb)
<1>1. BooksExact /\ TypeOK /\ CreatedFirst /\ n \in Nat
  BY DEF Inv, BooksExact
<1>2. absorb \in Nat
  <2>1. gpu[g]["manager"] \in Nat
    BY <1>1, Balances
  <2>2. pm \in Nat /\ y - n \in Nat
    BY <2>1
  <2> QED
    BY <2>2 DEF Lesser
<1>3. sellFill(g, f, n, nativeGusdOut(g, n))
  BY DEF swapSellIn
<1> HIDE DEF absorb
<1>4. SoundSell(market(g), f)
  BY <1>1, <1>2, MarketTyped, SellInSound
<1> HIDE DEF f
<1>5. nativeGusdOut(g, n) \in Nat
  BY <1>1, NativeNat
<1>6. SafeStep
  BY <1>1, <1>3, <1>4, <1>5, SellFillSafe
<1>7. CreatedFirst'
  BY <1>1, <1>3 DEF sellFill, issuanceVars, settingVars, CreatedFirst, Created
<1> QED
  BY <1>6, <1>7

LEMMA SellOutSafe ==
  ASSUME Inv, NEW g \in GpuIds, NEW x \in Nat, NEW prepay \in Nat, NEW w \in 0..x,
         NEW lps \in BOOLEAN, swapSellOut(g, x, prepay, w, lps)
  PROVE  SafeStep /\ CreatedFirst'
<1> DEFINE plan == IF w < x THEN planSellOut(market(g), x - w, gpu[g]["manager"] + prepay, lps) ELSE NoPlan
           c == plan.commit
           f == settleSellOut(market(g), c)
           n == nativeGpuIn(g, x - c)
           m == market(g)
<1>1. BooksExact /\ TypeOK /\ CreatedFirst /\ m \in Markets
  BY MarketTyped DEF Inv, BooksExact
<1>2. c \in Nat /\ c <= x /\ grossOf(m, c) <= m.capLeft
  <2>1. CASE w < x
    <3>1. x - w \in Nat /\ gpu[g]["manager"] + prepay \in Nat /\ x - w <= x
      BY <1>1, <2>1, Balances
    <3> DEFINE k == planSellOut(m, x - w, gpu[g]["manager"] + prepay, lps).commit
    <3>2. k \in Nat /\ k <= x - w /\ grossOf(m, k) <= m.capLeft
      BY <1>1, <3>1, SellOutPlan
    <3>3. c = k
      BY <2>1
    <3> HIDE DEF k, c, m
    <3> QED
      BY <3>1, <3>2, <3>3
  <2>2. CASE ~(w < x)
    <3>1. c = 0
      BY <2>2 DEF NoPlan
    <3>2. polFee(m, 0) <= 0 /\ hookFee(m, 0) <= 0 /\ polFee(m, 0) \in Nat /\ hookFee(m, 0) \in Nat
      BY <1>1, FeesWithin
    <3>3. grossOf(m, 0) = 0 /\ m.capLeft \in Nat
      BY <1>1, <3>2, MarketFields DEF grossOf
    <3> HIDE DEF c, m
    <3> QED
      BY <3>1, <3>3
  <2> QED
    BY <2>1, <2>2
<1>3. sellFill(g, f, n, x - c)
  BY DEF swapSellOut, settledSellOut
<1> HIDE DEF c, plan
<1>4. SoundSell(m, f)
  BY <1>1, <1>2, SellOutSound
<1> HIDE DEF f
<1>5. x - c \in Nat /\ n \in Nat
  BY <1>1, <1>2, NativeNat
<1> HIDE DEF n
<1>6. SafeStep
  BY <1>1, <1>3, <1>4, <1>5, SellFillSafe
<1>7. CreatedFirst'
  BY <1>1, <1>3 DEF sellFill, issuanceVars, settingVars, CreatedFirst, Created
<1> QED
  BY <1>6, <1>7

(* GPUIssuance.issue and the router's fallback to it.                      *)
LEMMA SaleSafe ==
  ASSUME Inv, NEW g \in GpuIds, NEW y \in Nat, issue(g, y)
  PROVE  SafeStep /\ CreatedFirst'
<1>1. SafeStep
  BY IssueSafe DEF Inv
<1>2. g \in Created /\ gpus' = issued(g, y) /\ pools' = pools
  BY DEF issue, settingVars
<1>3. CreatedFirst'
  BY <1>2, MintCreated DEF Inv, BooksExact
<1> QED
  BY <1>1, <1>3

LEMMA TraderSafe ==
  ASSUME Inv, TraderStep
  PROVE  SafeStep /\ CreatedFirst'
<1>1. PICK g \in GpuIds, lps \in BOOLEAN :
        \/ \E x \in GusdAmounts : \E w \in 0..x :
             \/ \E prepaid \in BOOLEAN, n \in w..x : swapBuyIn(g, x, prepaid, w, n, lps)
             \/ \E prepay \in {0} \cup GpuAmounts : swapSellOut(g, x, prepay, w, lps)
        \/ \E y \in GpuAmounts : \E w \in 0..y :
             \/ \E prepaid \in BOOLEAN, n \in w..y : swapSellIn(g, y, prepaid, w, n, lps)
             \/ \E maxPaid \in GusdAmounts : buy(g, y, maxPaid, w, lps)
             \/ swapBuyOut(g, y, 0, w, lps)
  BY DEF TraderStep
<1>2. GusdAmounts \subseteq Nat /\ GpuAmounts \subseteq Nat
  BY SpotConstants
<1>3. ASSUME NEW x \in GusdAmounts, NEW w \in 0..x, NEW prepaid \in BOOLEAN, NEW n \in w..x,
             swapBuyIn(g, x, prepaid, w, n, lps)
      PROVE  SafeStep /\ CreatedFirst'
  BY <1>2, <1>3, BuyInSafe
<1>4. ASSUME NEW x \in GusdAmounts, NEW w \in 0..x, NEW prepay \in {0} \cup GpuAmounts,
             swapSellOut(g, x, prepay, w, lps)
      PROVE  SafeStep /\ CreatedFirst'
  <2>1. x \in Nat /\ prepay \in Nat
    BY <1>2
  <2> QED
    BY <1>4, <2>1, SellOutSafe
<1>5. ASSUME NEW y \in GpuAmounts, NEW w \in 0..y, NEW prepaid \in BOOLEAN, NEW n \in w..y,
             swapSellIn(g, y, prepaid, w, n, lps)
      PROVE  SafeStep /\ CreatedFirst'
  BY <1>2, <1>5, SellInSafe
<1>6. ASSUME NEW y \in GpuAmounts, NEW w \in 0..y, NEW maxPaid \in GusdAmounts, buy(g, y, maxPaid, w, lps)
      PROVE  SafeStep /\ CreatedFirst'
  <2>1. y \in Nat /\ maxPaid \in Nat
    BY <1>2
  <2>2. issue(g, y) \/ swapBuyOut(g, y, maxPaid, w, lps)
    BY <1>6 DEF buy
  <2>3. CASE issue(g, y)
    BY <2>1, <2>3, SaleSafe
  <2>4. CASE swapBuyOut(g, y, maxPaid, w, lps)
    BY <2>1, <2>4, BuyOutSafe
  <2> QED
    BY <2>2, <2>3, <2>4
<1>7. ASSUME NEW y \in GpuAmounts, NEW w \in 0..y, swapBuyOut(g, y, 0, w, lps)
      PROVE  SafeStep /\ CreatedFirst'
  <2>1. y \in Nat /\ 0 \in Nat
    BY <1>2
  <2> QED
    BY <1>7, <2>1, BuyOutSafe
<1> QED
  BY <1>1, <1>3, <1>4, <1>5, <1>6, <1>7

(* Initialising a pool, LPs, and the next block.                           *)
LEMMA LiquiditySafe ==
  ASSUME Inv, NEW g \in GpuIds, NEW in \in BOOLEAN, NEW x \in Nat, NEW y \in Nat,
         modifyLiquidity(g, in, x, y)
  PROVE  SafeStep /\ CreatedFirst'
<1> DEFINE from == IF in THEN "traders" ELSE "manager"
           to == IF in THEN "manager" ELSE "traders"
<1>1. TypeOK /\ InventoryBacked /\ SupplyIsIssued /\ HookHoldsNothing /\ CreatedFirst
  BY DEF Inv, BooksExact
<1>2. /\ gusd \in [{"traders", "manager", "vault", "ledger", "hook"} -> Nat]
      /\ gpu \in [GpuIds -> [{"traders", "manager", "vault"} -> Nat]]
      /\ gpu[g]["traders"] \in Nat /\ gpu[g]["manager"] \in Nat /\ gpu[g]["vault"] \in Nat
  BY <1>1, Balances
<1>3. /\ x <= gusd[from] /\ y <= gpu[g][from]
      /\ gusd' = [gusd EXCEPT ![from] = @ - x, ![to] = @ + x]
      /\ gpu' = [gpu EXCEPT ![g][from] = @ - y, ![g][to] = @ + y]
      /\ UNCHANGED <<price, issuanceVars, vaultVars, settingVars, polVolume>>
  BY DEF modifyLiquidity
<1>4. /\ gusd' \in [{"traders", "manager", "vault", "ledger", "hook"} -> Nat]
      /\ gusd'["vault"] = gusd["vault"] /\ gusd'["ledger"] = gusd["ledger"]
      /\ gusd'["hook"] = gusd["hook"]
  <2>1. gusd[from] - x \in Nat /\ gusd[to] + x \in Nat
    BY <1>2, <1>3
  <2> QED
    BY <1>2, <1>3, <2>1
<1>5. /\ gpu' \in [GpuIds -> [{"traders", "manager", "vault"} -> Nat]]
      /\ gpu'[g]["traders"] + gpu'[g]["manager"] = gpu[g]["traders"] + gpu[g]["manager"]
      /\ gpu'[g]["vault"] = gpu[g]["vault"]
      /\ \A h \in GpuIds \ {g} : gpu'[h] = gpu[h]
  <2>1. gpu[g][from] - y \in Nat /\ gpu[g][to] + y \in Nat
    BY <1>2, <1>3
  <2>2. /\ gpu' \in [GpuIds -> [{"traders", "manager", "vault"} -> Nat]]
        /\ \A h \in GpuIds \ {g} : gpu'[h] = gpu[h]
    BY <1>2, <1>3, <2>1
  <2>3. /\ gpu'[g][from] = gpu[g][from] - y /\ gpu'[g][to] = gpu[g][to] + y
        /\ gpu'[g]["vault"] = gpu[g]["vault"]
    BY <1>2, <1>3
  <2> QED
    BY <1>2, <2>2, <2>3
<1>6. TypeOK'
  <2>1. /\ price' \in [GpuIds -> Prices] /\ paused' \in BOOLEAN /\ polPaused' \in BOOLEAN
        /\ gpus' \in [GpuIds -> [created : BOOLEAN, enabled : BOOLEAN, feeBps : 0..MaxIssuanceFee,
                                 totalIssued : Nat]]
        /\ bidInventoryGusd' \in [GpuIds -> Nat] /\ askInventoryGpu' \in [GpuIds -> Nat]
        /\ totalBidGusd' \in Nat /\ polVolume' \in Nat
        /\ pools' \subseteq GpuIds /\ hookFeeBps' \in 0..MaxHookFee /\ polCaps' \in Nat \X Nat
        /\ polParams' \in [GpuIds -> [askBps : 0..MaxSpread, bidBps : 0..MaxSpread, polFeeBps : 0..MaxSpread]]
    BY <1>1, <1>3 DEF TypeOK, settingVars, issuanceVars, vaultVars
  <2> QED
    BY <1>4, <1>5, <2>1 DEF TypeOK, GusdHolders, GpuHolders
<1>7. InventoryBacked' /\ HookHoldsNothing'
  BY <1>1, <1>3, <1>4, <1>5 DEF InventoryBacked, HookHoldsNothing, vaultVars
<1>8. SupplyIsIssued'
  <2>1. gpus' = gpus
    BY <1>3 DEF issuanceVars
  <2>2. gpu'[g]["traders"] \in Nat /\ gpu'[g]["manager"] \in Nat
    BY <1>5
  <2>3. gpus'[g].totalIssued = gpu'[g]["traders"] + gpu'[g]["manager"] + gpu'[g]["vault"]
    BY <1>1, <1>2, <1>5, <2>1, <2>2 DEF SupplyIsIssued
  <2>4. ASSUME NEW h \in GpuIds \ {g}
        PROVE  gpus'[h].totalIssued = gpu'[h]["traders"] + gpu'[h]["manager"] + gpu'[h]["vault"]
    BY <1>1, <1>5, <2>1 DEF SupplyIsIssued
  <2> QED
    BY <2>3, <2>4 DEF SupplyIsIssued
<1>9. NoLoss
  <2>1. gpu' \in [GpuIds -> [GpuHolders -> Nat]] /\ price' = price
    BY <1>3, <1>5 DEF GpuHolders
  <2>2. gpu'[g]["traders"] + gpu'[g]["manager"] = gpu[g]["traders"] + gpu[g]["manager"] + 0
    BY <1>2, <1>5
  <2>3. gusd'["vault"] + gusd'["ledger"] = gusd["vault"] + gusd["ledger"] + 0
    BY <1>2, <1>4
  <2>4. price[g] * 0 <= 0 * CD
    <3>1. price[g] \in Nat /\ CD \in Nat
      BY <1>1, SpotConstants, Constants DEF TypeOK
    <3> QED
      BY <3>1
  <2>5. Worth' >= Worth
    BY <1>1, <1>5, <2>1, <2>2, <2>3, <2>4, WorthMoves
  <2>6. ~(polVolume' > polVolume)
    BY <1>1, <1>3 DEF TypeOK
  <2> QED
    BY <2>5, <2>6 DEF NoLoss
<1>10. CreatedFirst'
  BY <1>1, <1>3 DEF CreatedFirst, Created, issuanceVars, settingVars
<1> QED
  BY <1>6, <1>7, <1>8, <1>9, <1>10 DEF SafeStep, BooksExact

LEMMA PublicSafe ==
  ASSUME Inv, PublicStep
  PROVE  SafeStep /\ CreatedFirst'
<1>1. TypeOK /\ InventoryBacked /\ SupplyIsIssued /\ HookHoldsNothing /\ CreatedFirst
  BY DEF Inv, BooksExact
<1>2. ASSUME NEW g \in GpuIds, afterInitialize(g)
      PROVE  SafeStep /\ CreatedFirst'
  <2>1. TypeOK'
    BY <1>1, <1>2 DEF afterInitialize, TypeOK, issuanceVars, vaultVars
  <2>2. InventoryBacked' /\ HookHoldsNothing' /\ SupplyIsIssued'
    BY <1>1, <1>2 DEF afterInitialize, InventoryBacked, HookHoldsNothing, SupplyIsIssued,
                      vaultVars, issuanceVars
  <2>3. NoLoss
    BY <1>1, <1>2, StillSafe DEF afterInitialize
  <2>4. CreatedFirst'
    BY <1>1, <1>2 DEF afterInitialize, CreatedFirst, Created, issuanceVars
  <2> QED
    BY <2>1, <2>2, <2>3, <2>4 DEF SafeStep, BooksExact
<1>3. ASSUME NEW g \in GpuIds, NEW y \in GpuAmounts, issue(g, y)
      PROVE  SafeStep /\ CreatedFirst'
  <2>1. y \in Nat
    BY SpotConstants
  <2> QED
    BY <1>3, <2>1, SaleSafe
<1>4. ASSUME NEW g \in GpuIds, NEW lp \in LpAmounts, NEW in \in BOOLEAN,
             modifyLiquidity(g, in, lp[1], lp[2])
      PROVE  SafeStep /\ CreatedFirst'
  <2>1. lp \in Nat \X Nat
    BY SpotConstants
  <2>2. lp[1] \in Nat /\ lp[2] \in Nat
    BY <2>1
  <2> QED
    BY <1>4, <2>2, LiquiditySafe
<1>5. ASSUME NEW p \in [GpuIds -> Prices], NextBlock(p)
      PROVE  SafeStep /\ CreatedFirst'
  <2>1. TypeOK'
    BY <1>1, <1>5 DEF NextBlock, TypeOK, issuanceVars, vaultVars, settingVars
  <2>2. InventoryBacked' /\ HookHoldsNothing' /\ SupplyIsIssued'
    BY <1>1, <1>5 DEF NextBlock, InventoryBacked, HookHoldsNothing, SupplyIsIssued,
                      vaultVars, issuanceVars
  <2>3. NoLoss
    BY <1>1, <1>5, StillSafe DEF NextBlock
  <2>4. CreatedFirst'
    BY <1>1, <1>5 DEF NextBlock, CreatedFirst, Created, issuanceVars, settingVars
  <2> QED
    BY <2>1, <2>2, <2>3, <2>4 DEF SafeStep, BooksExact
<1> QED
  BY <1>2, <1>3, <1>4, <1>5 DEF PublicStep

-----------------------------------------------------------------------------
(* The theorems                                                            *)

(* The market starts with exact books.                                     *)
LEMMA InitInv == Init => Inv
<1> SUFFICES ASSUME Init PROVE Inv
  OBVIOUS
<1>1. CapChoices \subseteq Nat \X Nat /\ InitialGusd \in Nat
  BY SpotConstants
<1>2. TypeOK
  <2>1. 0 \in 0..MaxIssuanceFee /\ 0 \in 0..MaxSpread /\ 0 \in 0..MaxHookFee
    BY Constants
  <2>2. gpus \in [GpuIds -> [created : BOOLEAN, enabled : BOOLEAN, feeBps : 0..MaxIssuanceFee,
                             totalIssued : Nat]]
    BY <2>1 DEF Init
  <2>3. polParams \in [GpuIds -> [askBps : 0..MaxSpread, bidBps : 0..MaxSpread, polFeeBps : 0..MaxSpread]]
    BY <2>1 DEF Init
  <2>4. gusd \in [GusdHolders -> Nat] /\ gpu \in [GpuIds -> [GpuHolders -> Nat]]
    BY <1>1 DEF Init
  <2>5. /\ price \in [GpuIds -> Prices] /\ paused \in BOOLEAN /\ polPaused \in BOOLEAN
        /\ bidInventoryGusd \in [GpuIds -> Nat] /\ askInventoryGpu \in [GpuIds -> Nat]
        /\ totalBidGusd \in Nat /\ polVolume \in Nat /\ pools \subseteq GpuIds
        /\ hookFeeBps \in 0..MaxHookFee /\ polCaps \in Nat \X Nat
    BY <1>1, <2>1 DEF Init
  <2> QED
    BY <2>2, <2>3, <2>4, <2>5 DEF TypeOK
<1>3. SumOf(bidInventoryGusd) = 0
  <2>1. bidInventoryGusd \in [GpuIds -> Nat] /\ \A g \in GpuIds : bidInventoryGusd[g] = 0
    BY DEF Init
  <2> QED
    BY <2>1, SumZero
<1>4. InventoryBacked
  BY <1>3 DEF Init, InventoryBacked, GusdHolders, GpuHolders
<1>5. SupplyIsIssued
  BY DEF Init, SupplyIsIssued, GpuHolders
<1>6. HookHoldsNothing /\ CreatedFirst
  BY DEF Init, HookHoldsNothing, GusdHolders, CreatedFirst
<1> QED
  BY <1>2, <1>4, <1>5, <1>6 DEF Inv, BooksExact

(* Every step keeps the invariant and loses nothing.                       *)
LEMMA StepInv == Inv /\ [Next]_vars => Inv' /\ (NoLoss \/ UNCHANGED vars)
<1>1. ASSUME Inv, Next
      PROVE  Inv' /\ NoLoss
  <2>1. SafeStep /\ CreatedFirst'
    BY <1>1, OwnerSafe, TraderSafe, PublicSafe DEF Next
  <2> QED
    BY <2>1 DEF SafeStep, Inv
<1>2. ASSUME Inv, UNCHANGED vars
      PROVE  Inv'
  BY <1>2 DEF Inv, BooksExact, TypeOK, InventoryBacked, SupplyIsIssued, HookHoldsNothing,
              CreatedFirst, Created, vars, issuanceVars, vaultVars, settingVars
<1> QED
  BY <1>1, <1>2

LEMMA AlwaysInv == Spec => []Inv
<1>1. Inv /\ [Next]_vars => Inv'
  BY StepInv
<1> QED
  BY InitInv, <1>1, PTL DEF Spec

(* GPUMarketLiquidity, GPUIssuance, GPUHook: whatever the owner sets and   *)
(* in whatever order issues, swaps of the four shapes, LPs and blocks      *)
(* come, the vault holds what it books for the markets together, the       *)
(* circulating GPU is what was issued, and the hook keeps nothing.         *)
THEOREM SpotBooksExact == Spec => []BooksExact
<1>1. Inv => BooksExact
  BY DEF Inv
<1> QED
  BY <1>1, AlwaysInv, PTL

(* Every rounding goes against the trader: at the report's price no step   *)
(* costs the protocol anything, whatever the amounts, fees and spreads,    *)
(* and no swap moves more POL notional than its cap.                       *)
THEOREM SpotNeverLoses == Spec => NeverTradesAtALoss
<1>1. Inv /\ [Next]_vars => [NoLoss]_vars
  BY StepInv
<1>2. NoLoss <=> /\ price' = price => Worth' >= Worth
                 /\ polVolume' > polVolume => polVolume' - polVolume <= polCapLeft
  BY DEF NoLoss
<1> QED
  BY <1>1, <1>2, AlwaysInv, PTL DEF Spec, NeverTradesAtALoss

(* The market's part of TailIsDust: with the issuance open and an          *)
(* unbounded demand, an exact-in buy leaves two units and a GPU's price.   *)
LEMMA TailSmall ==
  ASSUME NEW s \in Markets, s.open, NEW x \in Nat, 2 * (x * CD) < MaxUint
  PROVE  settleBuyIn(s, x).tail \in Nat /\ settleBuyIn(s, x).tail * CD <= 3 * CD + 2 * s.price
<1> DEFINE hf == Lesser(hookFee(s, x), x)
           budget == x - hf
           p == s.price
           f == s.issueFeeBps
           d == p * (BPS + f)
           X == x * CD
<1>1. hf \in Nat /\ budget \in Nat /\ budget <= x
  BY FeesWithin DEF Lesser
<1> HIDE DEF hf
<1>2. PICK y \in Nat, z \in Nat :
           /\ buyLadder(s, budget, MaxUint) = rungs(s, y, z)
           /\ y + z <= MaxUint
           /\ polSpend(s, y) + quoteIssue(s, z).total <= budget
           /\ z = backstopGpu(s, MaxUint - y, budget - polSpend(s, y))
           /\ y <= gpuFor(budget, denomAsk(s))
  BY <1>1, LadderFits, Constants
<1> DEFINE L == budget - polSpend(s, y)
           total == quoteIssue(s, z).total
           b == issueBudget(s, L)
           want == MaxUint - y
<1>3. settleBuyIn(s, x).tail = L - total
  <2>1. rungs(s, y, z).polSpend = polSpend(s, y) /\ rungs(s, y, z).total = total
    BY RungsPriced
  <2>2. settleBuyIn(s, x) = buyInFill(rungs(s, y, z), x, hf)
    BY <1>2 DEF settleBuyIn, hf
  <2>3. settleBuyIn(s, x).tail = x - hf - (polSpend(s, y) + total)
    BY <2>1, <2>2 DEF buyInFill, buyFilled
  <2>4. polSpend(s, y) \in Nat /\ total \in Nat
    BY SpendCovers, QuoteCovers
  <2> QED
    BY <1>1, <2>3, <2>4
<1>4. p \in Nat \ {0} /\ f \in Nat /\ f < BPS /\ d \in Nat \ {0}
  BY MarketFields, Edges
<1>5. BPS \in Nat \ {0} /\ CD \in Nat \ {0} /\ X \in Nat /\ 2 * X < MaxUint /\ MaxUint \in Nat
  BY Constants
<1>6. L \in Nat /\ L <= x /\ total \in Nat /\ total <= L
  <2>1. polSpend(s, y) \in Nat /\ total \in Nat
    BY SpendCovers, QuoteCovers
  <2> QED
    BY <1>1, <1>2, <2>1
<1>7. L * CD <= X /\ budget * CD <= X /\ L * CD \in Nat /\ budget * CD \in Nat
  BY <1>1, <1>5, <1>6, ProductMonotone, ProductNat
<1>8. z = backstopGpu(s, want, L)
  BY <1>2
<1> HIDE DEF L, total, budget, X, d, p, f
(* A quotient by a price in basis points is at most the gUSD times CD.     *)
<1>9. ASSUME NEW e \in Nat \ {0}, BPS <= e, NEW k \in Nat, NEW a \in Nat, a * e <= k * Unit
      PROVE  a <= k * CD
  <2>1. a * BPS <= a * e /\ a * BPS \in Nat /\ a * e \in Nat /\ k * CD \in Nat
    BY <1>5, <1>9, ProductMonotone, ProductNat
  <2>2. k * Unit = (k * CD) * BPS
    BY <1>5 DEF Unit
  <2>3. (k * CD) * BPS \in Nat
    BY <1>5, <2>1, ProductNat
  <2>4. a * BPS <= (k * CD) * BPS
    BY <1>9, <2>1, <2>2, <2>3
  <2> QED
    BY <1>5, <2>1, <2>4, CancelFactor
<1>10. y <= X
  <2>1. denomAsk(s) \in Nat \ {0} /\ p * BPS <= denomAsk(s)
    BY Edges DEF p
  <2>2. BPS <= p * BPS /\ p * BPS \in Nat
    BY <1>4, <1>5
  <2>3. gpuFor(budget, denomAsk(s)) \in Nat /\ gpuFor(budget, denomAsk(s)) * denomAsk(s) <= budget * Unit
    BY <1>1, <2>1, FloorBelow, Constants DEF gpuFor
  <2>4. BPS <= denomAsk(s)
    BY <1>5, <2>1, <2>2
  <2>5. gpuFor(budget, denomAsk(s)) <= budget * CD
    BY <1>1, <1>9, <2>1, <2>3, <2>4
  <2> QED
    BY <1>2, <1>5, <1>7, <2>3, <2>5
<1>11. want \in Nat /\ X < want
  BY <1>5, <1>10
<1> HIDE DEF want
<1> DEFINE h == PosPart(L - 2)
<1>12. h \in Nat /\ h <= L
  BY <1>6 DEF PosPart
<1>13. b \in Nat /\ b * d <= h * Unit /\ h * Unit < b * d + d
  <2>1. b = MulDivFloor(h, Unit, d)
    BY DEF issueBudget, d, p, f
  <2> HIDE DEF h, b
  <2> QED
    BY <1>4, <1>12, <2>1, FloorBelow, Constants
<1> HIDE DEF b
<1>14. b <= X
  <2>1. BPS <= d
    <3>1. BPS + f <= p * (BPS + f) /\ BPS <= BPS + f
      BY <1>4, <1>5
    <3> QED
      BY <1>4, <1>5, <3>1 DEF d
  <2>2. b <= h * CD
    BY <1>4, <1>9, <1>12, <1>13, <2>1
  <2>3. h * CD <= L * CD /\ h * CD \in Nat
    BY <1>5, <1>6, <1>12, ProductMonotone, ProductNat
  <2> HIDE DEF h
  <2> QED
    BY <1>5, <1>7, <1>13, <2>2, <2>3
<1>15. ~(quoteIssue(s, want).total <= L)
  <2> DEFINE q == quoteIssue(s, want)
  <2>1. q.base \in Nat /\ q.fee \in Nat /\ q.total = q.base + q.fee /\ want * p <= q.base * CD
    BY <1>11, QuoteCovers DEF p
  <2>2. SUFFICES ASSUME q.total <= L PROVE FALSE
    OBVIOUS
  <2> HIDE DEF q
  <2>3. q.base <= L
    BY <1>6, <2>1, <2>2
  <2>4. q.base * CD <= L * CD /\ q.base * CD \in Nat
    BY <1>5, <1>6, <2>1, <2>3, ProductMonotone, ProductNat
  <2>5. want <= want * p /\ want * p \in Nat
    BY <1>4, <1>11
  <2> QED
    BY <1>5, <1>7, <1>11, <2>1, <2>4, <2>5
<1>16. z = b
  <2>1. Lesser(want, b) = b
    BY <1>5, <1>11, <1>13, <1>14 DEF Lesser
  <2> QED
    BY <1>8, <1>15, <2>1 DEF backstopGpu, b
<1>17. CASE L < 2
  <2> DEFINE t == L - total
  <2>1. t \in Nat /\ t <= 3
    BY <1>6, <1>17
  <2> HIDE DEF t
  <2>2. t * CD <= 3 * CD
    BY <1>5, <2>1, ProductMonotone
  <2>3. t * CD \in Nat /\ 3 * CD \in Nat
    BY <1>5, <2>1, ProductNat
  <2>4. t * CD <= 3 * CD + 2 * p
    BY <1>4, <2>2, <2>3
  <2> QED
    BY <1>3, <2>1, <2>4 DEF t, p
<1>18. CASE L >= 2
  <2> DEFINE base == quoteIssue(s, z).base
             fee == quoteIssue(s, z).fee
  <2>1. base \in Nat /\ fee \in Nat /\ total = base + fee /\ z * p <= base * CD
    BY QuoteCovers DEF total, p
  <2>2. fee * BPS >= base * f
    <3>1. fee = MulDivCeil(base, f, BPS)
      BY DEF quoteIssue, f
    <3> HIDE DEF base, fee
    <3> QED
      BY <1>4, <1>5, <2>1, <3>1, CeilAbove
  <2>3. h = L - 2
    BY <1>6, <1>18 DEF PosPart
  <2> HIDE DEF base, fee, h
  <2> DEFINE T == (total * BPS) * CD
             B == base * CD
             P == z * p
             R == (p * BPS) * 2
  <2>4. total * BPS >= base * (BPS + f)
    <3>1. total * BPS = base * BPS + fee * BPS /\ base * (BPS + f) = base * BPS + base * f
      BY <1>4, <1>5, <2>1
    <3>2. fee * BPS \in Nat /\ base * f \in Nat /\ base * BPS \in Nat
      BY <1>4, <1>5, <2>1, ProductNat
    <3> QED
      BY <2>2, <3>1, <3>2
  <2>5. T >= B * (BPS + f)
    <3>1. base * (BPS + f) \in Nat /\ total * BPS \in Nat
      BY <1>4, <1>5, <1>6, <2>1
    <3>2. (base * (BPS + f)) * CD <= (total * BPS) * CD
      BY <1>5, <2>4, <3>1, ProductMonotone
    <3>3. (base * (BPS + f)) * CD = B * (BPS + f)
      BY <1>4, <1>5, <2>1
    <3> QED
      BY <3>2, <3>3
  <2>6. B * (BPS + f) >= P * (BPS + f) /\ B \in Nat /\ P \in Nat
    BY <1>4, <1>5, <2>1, ProductMonotone, ProductNat
  <2>7. b * d = P * (BPS + f)
    BY <1>4, <1>5, <1>13, <1>16 DEF d
  <2>8. d <= R
    <3>1. BPS + f <= 2 * BPS
      BY <1>4, <1>5
    <3>2. p * (BPS + f) <= p * (2 * BPS)
      BY <1>4, <1>5, <3>1, ProductMonotone
    <3>3. p * (2 * BPS) = R
      BY <1>4, <1>5
    <3> QED
      BY <3>2, <3>3 DEF d
  <2>9. ((L - 2) * BPS) * CD < T + R
    <3>1. h * Unit = ((L - 2) * BPS) * CD
      BY <1>5, <1>6, <2>3 DEF Unit
    <3>2. /\ T \in Int /\ R \in Int /\ B * (BPS + f) \in Int /\ P * (BPS + f) \in Int
          /\ h * Unit \in Int
      BY <1>4, <1>5, <1>6, <1>12, <2>6, Constants
    <3> HIDE DEF T, R, B, P
    <3> QED
      BY <1>4, <1>13, <2>5, <2>6, <2>7, <2>8, <3>1, <3>2
  <2>10. ((L - 2) * CD) * BPS < (total * CD + 2 * p) * BPS
    <3>1. ((L - 2) * BPS) * CD = ((L - 2) * CD) * BPS
      BY <1>5, <1>6
    <3>2. T + R = (total * CD + 2 * p) * BPS
      BY <1>4, <1>5, <1>6
    <3> QED
      BY <2>9, <3>1, <3>2
  <2>11. (L - 2) * CD < total * CD + 2 * p
    <3>1. (L - 2) * CD \in Int /\ total * CD + 2 * p \in Int
      BY <1>4, <1>5, <1>6
    <3> QED
      BY <1>5, <2>10, <3>1, CancelFactor
  <2>12. (L - total) * CD <= 3 * CD + 2 * p
    <3>1. (L - 2) * CD = L * CD - 2 * CD /\ (L - total) * CD = L * CD - total * CD
      BY <1>5, <1>6
    <3>2. total * CD \in Nat
      BY <1>5, <1>6, ProductNat
    <3> QED
      BY <1>4, <1>5, <1>7, <2>11, <3>1, <3>2
  <2>13. L - total \in Nat
    BY <1>6
  <2> QED
    BY <1>3, <2>12, <2>13 DEF p
<1> QED
  BY <1>6, <1>17, <1>18

(* _buyLadder: while the issuance is open, no state of the market makes an *)
(* exact-in buyer leave more than rounding dust to the vault, although the *)
(* ladder estimates the mint with a headroom and never asks again.         *)
THEOREM SpotTailIsDust == Spec => []TailIsDust
<1>1. Inv => TailIsDust
  <2> SUFFICES ASSUME Inv, NEW g \in pools, NEW x \in GusdAmounts, gpus[g].enabled
               PROVE  LET f == settleBuyIn(market(g), x)
                      IN  0 <= f.tail /\ f.tail * CD <= 3 * CD + 2 * price[g]
    BY DEF TailIsDust
  <2>1. TypeOK /\ g \in GpuIds
    BY DEF Inv, BooksExact, TypeOK
  <2>2. market(g) \in Markets /\ market(g).price = price[g] /\ market(g).open
    BY <2>1, MarketTyped DEF market
  <2>3. x \in Nat /\ 2 * (x * CD) < MaxUint
    BY SpotConstants, DemandUnbounded
  <2>4. /\ settleBuyIn(market(g), x).tail \in Nat
        /\ settleBuyIn(market(g), x).tail * CD <= 3 * CD + 2 * market(g).price
    BY <2>2, <2>3, TailSmall
  <2> QED
    BY <2>2, <2>4
<1> QED
  BY <1>1, AlwaysInv, PTL

-----------------------------------------------------------------------------
(* The web client's mirror                                                 *)

(* Its two roundings are the contract's, although it rounds up by the      *)
(* remainder.                                                              *)
LEMMA MirrorRounds ==
  ASSUME NEW a \in Nat, NEW b \in Nat, NEW c \in Nat \ {0}
  PROVE  /\ mulDivFloor(a, b, c) = MulDivFloor(a, b, c)
         /\ mulDivFloor(a * b, 1, c) = MulDivFloor(a, b, c)
         /\ mulDivCeil(a, b, c) = MulDivCeil(a, b, c)
         /\ mulDivCeil(a * b, 1, c) = MulDivCeil(a, b, c)
         /\ mulDivCeil(b * a, 1, c) = MulDivCeil(a, b, c)
<1> DEFINE n == a * b
<1>1. n \in Nat /\ n * 1 = n /\ b * a = n /\ (b * a) * 1 = n
  BY ProductNat
<1>2. n \div c \in Nat /\ MulDivCeil(a, b, c) = n \div c + IF n % c = 0 THEN 0 ELSE 1
  BY CeilByRemainder
<1> DEFINE v == IF n % c = 0 THEN n \div c ELSE n \div c + 1
<1>3. mulDivCeil(a, b, c) = v /\ mulDivCeil(n, 1, c) = v /\ mulDivCeil(b * a, 1, c) = v
  BY <1>1 DEF mulDivCeil
<1>4. mulDivFloor(a, b, c) = n \div c /\ mulDivFloor(n, 1, c) = n \div c /\ MulDivFloor(a, b, c) = n \div c
  BY <1>1 DEF mulDivFloor, MulDivFloor
<1>5. v = MulDivCeil(a, b, c)
  <2> HIDE DEF n
  <2> QED BY <1>2
<1> QED
  BY <1>3, <1>4, <1>5 DEF n

(* The least of a set of naturals.                                         *)
LEMMA LeastIs ==
  ASSUME NEW S, S \subseteq Nat, NEW m \in S, \A n \in S : m <= n
  PROVE  minBig(S) = m
<1>1. \E k \in S : \A n \in S : k <= n
  OBVIOUS
<1>2. minBig(S) \in S /\ \A n \in S : minBig(S) <= n
  BY <1>1 DEF minBig
<1>3. minBig(S) \in Nat /\ m \in Nat /\ minBig(S) <= m /\ m <= minBig(S)
  BY <1>2
<1> QED
  BY <1>3

LEMMA LeastOf ==
  ASSUME NEW a \in Nat, NEW b \in Nat, NEW c \in Nat
  PROVE  /\ minBig({a, b}) = Lesser(a, b)
         /\ minBig({a, b, c}) = Lesser(Lesser(a, b), c)
<1>1. minBig({a, b}) = Lesser(a, b)
  <2> DEFINE m == Lesser(a, b)
  <2>1. m \in {a, b} /\ \A n \in {a, b} : m <= n
    BY DEF Lesser
  <2> HIDE DEF m
  <2> QED
    BY <2>1, LeastIs DEF m
<1>2. minBig({a, b, c}) = Lesser(Lesser(a, b), c)
  <2> DEFINE m == Lesser(Lesser(a, b), c)
  <2>1. m \in {a, b, c} /\ \A n \in {a, b, c} : m <= n
    BY DEF Lesser
  <2>2. {a, b, c} \subseteq Nat
    OBVIOUS
  <2> HIDE DEF m
  <2>3. minBig({a, b, c}) = m
    BY <2>1, <2>2, LeastIs
  <2> QED
    BY <2>3 DEF m
<1> QED
  BY <1>1, <1>2

LEMMA LeastOfFour ==
  ASSUME NEW a \in Nat, NEW b \in Nat, NEW c \in Nat, NEW d \in Nat
  PROVE  minBig({a, b, c, d}) = Lesser(Lesser(Lesser(a, b), c), d)
<1> DEFINE m == Lesser(Lesser(Lesser(a, b), c), d)
<1>1. m \in {a, b, c, d} /\ \A n \in {a, b, c, d} : m <= n
  BY DEF Lesser
<1>2. {a, b, c, d} \subseteq Nat
  OBVIOUS
<1> HIDE DEF m
<1>3. minBig({a, b, c, d}) = m
  BY <1>1, <1>2, LeastIs
<1> QED
  BY <1>3 DEF m

(* Its prices and fees are the contract's.                                 *)
LEMMA MirrorPrices ==
  ASSUME NEW s \in Markets, NEW y \in Nat
  PROVE  /\ askDenom(s) = denomAsk(s)
         /\ issuePrice(s, y) = quoteIssue(s, y)
         /\ mulDivCeil(y * askDenom(s), 1, Unit) = polSpend(s, y)
         /\ mulDivCeil(y, s.polFeeBps, BPS) = polFee(s, y)
         /\ mulDivCeil(y, s.hookFeeBps, BPS) = hookFee(s, y)
         /\ mulDivFloor(y, Unit, askDenom(s)) = gpuFor(y, denomAsk(s))
         /\ mulDivFloor(y, Unit, bidDenom(s)) = gpuFor(y, bidDenom(s))
<1>1. /\ s.price \in Nat /\ s.askBps \in Nat /\ s.issueFeeBps \in Nat /\ s.polFeeBps \in Nat
      /\ s.hookFeeBps \in Nat /\ BPS \in Nat \ {0} /\ CD \in Nat \ {0} /\ Unit \in Nat \ {0}
      /\ denomAsk(s) \in Nat \ {0} /\ bidDenom(s) \in Nat \ {0}
  BY MarketFields, Constants, Edges
<1>2. effAsk(s) = effAskBps(s)
  BY <1>1 DEF effAsk, effAskBps, Lesser
<1>3. askDenom(s) = denomAsk(s)
  BY <1>2 DEF askDenom, denomAsk
<1>4. issuePrice(s, y) = quoteIssue(s, y)
  <2> DEFINE base == MulDivCeil(y, s.price, CD)
  <2>1. mulDivCeil(s.price * y, 1, CD) = base
    BY <1>1, MirrorRounds
  <2>2. base \in Nat
    BY <1>1, MulDivNat
  <2> HIDE DEF base
  <2>3. mulDivCeil(base, s.issueFeeBps, BPS) = MulDivCeil(base, s.issueFeeBps, BPS)
    BY <1>1, <2>2, MirrorRounds
  <2> QED
    BY <2>1, <2>3 DEF issuePrice, quoteIssue, base
<1>5. mulDivCeil(y * askDenom(s), 1, Unit) = polSpend(s, y)
  BY <1>1, <1>3, MirrorRounds DEF polSpend
<1>6. mulDivCeil(y, s.polFeeBps, BPS) = polFee(s, y) /\ mulDivCeil(y, s.hookFeeBps, BPS) = hookFee(s, y)
  BY <1>1, MirrorRounds DEF polFee, hookFee
<1>7. ASSUME NEW d \in Nat \ {0}
      PROVE  mulDivFloor(y, Unit, d) = gpuFor(y, d)
  BY <1>1, <1>7, MirrorRounds DEF gpuFor
<1>8. mulDivFloor(y, Unit, askDenom(s)) = gpuFor(y, denomAsk(s))
  BY <1>1, <1>3, <1>7
<1>9. mulDivFloor(y, Unit, bidDenom(s)) = gpuFor(y, bidDenom(s))
  BY <1>1, <1>7
<1> QED
  BY <1>3, <1>4, <1>5, <1>6, <1>8, <1>9

(* The web client's ladder is the hook's.                                  *)
LEMMA MirrorBackstop ==
  ASSUME NEW s \in Markets, NEW want \in Nat, NEW L \in Nat
  PROVE  backstopMirror(s, want, L) = backstopGpu(s, want, L)
<1> DEFINE h == PosPart(L - 2)
           d == s.price * (BPS + s.issueFeeBps)
           total == quoteIssue(s, want).total
           b == issueBudget(s, L)
<1>1. h \in Nat /\ h = IF L >= 2 THEN L - 2 ELSE 0
  BY DEF PosPart
<1>2. d \in Nat \ {0} /\ CD \in Nat /\ BPS \in Nat /\ Unit \in Nat
  BY Constants, Edges
<1>3. issuePrice(s, want).total = total /\ total \in Nat
  BY MirrorPrices, QuoteCovers
<1> HIDE DEF h, d, total
<1>4. mulDivFloor(h * CD * BPS, 1, d) = MulDivFloor(h, Unit, d)
  <2>1. h * CD * BPS = h * Unit /\ h * Unit \in Nat
    BY <1>1, <1>2, ProductNat DEF Unit
  <2>2. mulDivFloor(h * Unit, 1, d) = MulDivFloor(h, Unit, d)
    BY <1>1, <1>2, MirrorRounds
  <2> QED
    BY <2>1, <2>2
<1>5. b = MulDivFloor(h, Unit, d) /\ b \in Nat
  <2>1. MulDivFloor(h, Unit, d) \in Nat
    BY <1>1, <1>2, MulDivNat
  <2> QED
    BY <2>1 DEF issueBudget, h, d
<1> HIDE DEF b
<1>6. backstopMirror(s, want, L)
        = IF ~s.open THEN 0 ELSE IF want # 0 /\ total <= L THEN want ELSE minBig({want, b})
  BY <1>1, <1>3, <1>4, <1>5 DEF backstopMirror, d
<1>7. backstopGpu(s, want, L) = IF ~s.open THEN 0 ELSE IF total <= L THEN want ELSE Lesser(want, b)
  BY DEF backstopGpu, total, b
<1>8. minBig({want, b}) = Lesser(want, b)
  BY <1>5, LeastOf
<1>9. want = 0 => Lesser(want, b) = 0
  BY <1>5 DEF Lesser
<1> QED
  BY <1>6, <1>7, <1>8, <1>9

LEMMA MirrorLadder ==
  ASSUME NEW s \in Markets, NEW budget \in Nat, NEW demand \in Nat
  PROVE  LET M == ladderMirror(s, budget, demand)
             L == buyLadder(s, budget, demand)
         IN  M.polGpu = L.polGpu /\ M.issueGpu = L.issueGpu /\ M.polFee = L.polFee
<1> DEFINE aff == gpuFor(budget, denomAsk(s))
           cap == gpuFor(s.capLeft, denomAsk(s))
           y == Lesser(polAsk(s, demand), aff)
<1>1. aff \in Nat /\ cap \in Nat /\ s.ask \in Nat /\ s.capLeft \in Nat
  BY MarketFields, Edges, Constants, MulDivNat DEF gpuFor
<1>2. /\ mulDivFloor(s.capLeft, Unit, askDenom(s)) = cap
      /\ mulDivFloor(budget, Unit, askDenom(s)) = aff
  BY <1>1, MirrorPrices
<1>3. polAsk(s, demand) = Lesser(Lesser(demand, s.ask), cap)
  BY DEF polAsk
<1> HIDE DEF aff, cap
<1>4. minBig({aff, s.ask, cap, demand}) = Lesser(Lesser(Lesser(aff, s.ask), cap), demand)
  <2> DEFINE ask == s.ask
  <2>1. ask \in Nat
    BY <1>1
  <2> HIDE DEF ask
  <2>2. minBig({aff, ask, cap, demand}) = Lesser(Lesser(Lesser(aff, ask), cap), demand)
    BY <1>1, <2>1, LeastOfFour
  <2> QED
    BY <2>2 DEF ask
<1>5. /\ y = Lesser(Lesser(Lesser(aff, s.ask), cap), demand)
      /\ y \in Nat /\ y <= demand /\ y <= aff
  BY <1>1, <1>3 DEF Lesser
<1> HIDE DEF y
<1>6. polSpend(s, y) \in Nat /\ polSpend(s, y) <= budget
  BY <1>5, SpendCapped DEF aff
<1> DEFINE sp == polSpend(s, y)
           z == backstopGpu(s, demand - y, budget - sp)
<1>7. ladderMirror(s, budget, demand) = ladderOn(s, budget, demand, y)
  BY <1>2, <1>4, <1>5 DEF ladderMirror
<1>8. mulDivCeil(y * askDenom(s), 1, Unit) = sp
  BY <1>5, MirrorPrices
<1>9. demand - y \in Nat /\ budget - sp \in Nat
  BY <1>5, <1>6
<1>10. backstopMirror(s, demand - y, budget - sp) = z
  BY <1>9, MirrorBackstop
<1>11. mulDivCeil(sp, s.polFeeBps, BPS) = polFee(s, sp)
  BY <1>6, MirrorPrices
<1> HIDE DEF sp, z
<1>12. ladderOn(s, budget, demand, y) = ladderParts(s, y, sp, z)
  BY <1>8, <1>10 DEF ladderOn
<1>13. buyLadder(s, budget, demand) = rungs(s, y, z)
  BY DEF buyLadder, ladderFrom, y, sp, z, aff
<1>14. /\ ladderMirror(s, budget, demand).polGpu = y
       /\ ladderMirror(s, budget, demand).issueGpu = z
       /\ ladderMirror(s, budget, demand).polFee = polFee(s, sp)
  BY <1>7, <1>11, <1>12 DEF ladderParts
<1>15. rungs(s, y, z).polGpu = y /\ rungs(s, y, z).issueGpu = z /\ rungs(s, y, z).polFee = polFee(s, sp)
  BY DEF rungs, sp
<1> QED
  BY <1>13, <1>14, <1>15

(* An exact-in buy is quoted as it settles.                                *)
LEMMA BuyInQuoted ==
  ASSUME NEW s \in Markets, NEW x \in Nat, quoteBuyMirror(s, x).ok
  PROVE  BuyInAgrees(x, quoteBuyMirror(s, x), planBuyIn(s, x, x, FALSE), settleBuyIn(s, x))
<1> DEFINE hf == Lesser(hookFee(s, x), x)
           M == ladderMirror(s, x - hf, MaxUint)
           L == buyLadder(s, x - hf, MaxUint)
<1>1. hookFee(s, x) \in Nat /\ MaxUint \in Nat /\ GusdDust \in Nat
  BY FeesWithin, Constants
<1>2. hf \in Nat /\ hf <= x /\ x - hf \in Nat
  BY <1>1 DEF Lesser
<1>3. mulDivCeil(x, s.hookFeeBps, BPS) = hookFee(s, x)
  BY MirrorPrices
<1>4. minBig({hookFee(s, x), x}) = hf
  BY <1>1, LeastOf
<1>5. M.polGpu = L.polGpu /\ M.issueGpu = L.issueGpu
  BY <1>1, <1>2, MirrorLadder
<1>6. quoteBuyMirror(s, x) = boughtMirror(x, hf, M)
  BY <1>3, <1>4 DEF quoteBuyMirror
<1>7. settleBuyIn(s, x) = buyInFill(L, x, hf)
  BY DEF settleBuyIn
<1> HIDE DEF hf, M, L
<1>8. boughtMirror(x, hf, M).gpuOut = M.polGpu + M.issueGpu /\ boughtMirror(x, hf, M).hookFeeGusd = hf
  <2>1. boughtMirror(x, hf, M) # Rejected
    BY <1>6 DEF Rejected
  <2> QED
    BY <2>1 DEF boughtMirror
<1>9. /\ settleBuyIn(s, x).polGpu = L.polGpu /\ settleBuyIn(s, x).issueGpu = L.issueGpu
      /\ settleBuyIn(s, x).hookFee = hf
  BY <1>7 DEF buyInFill, buyFilled
<1>10. planBuyIn(s, x, x, FALSE) = [ok |-> TRUE, commit |-> x]
  <2>1. Lesser(x, x) = x /\ (x - x <= GusdDust) = TRUE
    BY <1>1 DEF Lesser
  <2> QED
    BY <2>1 DEF planBuyIn
<1> QED
  BY <1>5, <1>6, <1>8, <1>9, <1>10 DEF BuyInAgrees

(* What a buyer of y pays, hook fee included, is enough: the cap on the    *)
(* charge, recomputed from the payment, is no less than the charge.        *)
LEMMA CapCoversCharge ==
  ASSUME NEW s \in Markets, NEW c \in Nat
  PROVE  c <= spendCap(s, c + hookFee(s, c))
<1> DEFINE f == hookFee(s, c)
           h == s.hookFeeBps
           e == MulDivCeil(c + f, BPS, BPS + h)
<1>1. f \in Nat /\ h \in Nat /\ BPS \in Nat \ {0} /\ BPS + h \in Nat \ {0}
  BY FeesWithin, MarketFields, Constants
<1>2. c * h <= f * BPS
  BY <1>1, CeilAbove DEF hookFee
<1> HIDE DEF f, h
<1>3. e \in Nat /\ (c + f) * BPS <= e * (BPS + h)
  <2> DEFINE g == BPS + h
             pm == c + f
  <2>1. g \in Nat \ {0} /\ pm \in Nat
    BY <1>1
  <2> HIDE DEF g, pm
  <2>2. MulDivCeil(pm, BPS, g) \in Nat /\ pm * BPS <= MulDivCeil(pm, BPS, g) * g
    BY <1>1, <2>1, CeilAbove
  <2> QED
    BY <2>2 DEF g, pm
<1> HIDE DEF e
<1>4. c <= e
  <2>1. /\ c * (BPS + h) = c * BPS + c * h /\ (c + f) * BPS = c * BPS + f * BPS
        /\ c * BPS \in Nat /\ c * h \in Nat /\ f * BPS \in Nat
    BY <1>1, ProductNat
  <2>2. e * (BPS + h) \in Nat
    BY <1>1, <1>3, ProductNat
  <2>3. c * (BPS + h) <= e * (BPS + h)
    BY <1>2, <1>3, <2>1, <2>2
  <2> QED
    BY <1>1, <1>3, <2>3, CancelFactor
<1>5. spendCap(s, c + f) = IF e + hookFee(s, e) <= c + f THEN e ELSE PosPart(e - 1)
  BY DEF spendCap, e, h
<1>6. CASE e = c
  BY <1>1, <1>5, <1>6 DEF f
<1>7. CASE c < e
  <2>1. c <= e /\ c <= PosPart(e - 1)
    BY <1>3, <1>7 DEF PosPart
  <2>2. c <= spendCap(s, c + f)
    BY <1>5, <2>1
  <2> QED
    BY <2>2 DEF f
<1> QED
  BY <1>3, <1>4, <1>6, <1>7 DEF f

(* An exact-out buy, paid for with the quoted amount, is planned in full.  *)
LEMMA BuyOutQuoted ==
  ASSUME NEW s \in Markets, NEW y \in Nat, s.open
  PROVE  LET q == quoteBuyExactOutMirror(s, y)
         IN  BuyOutAgrees(y, q, planBuyOut(s, y, q.gusdIn, FALSE), settleBuyOut(s, y))
<1> DEFINE p == polAsk(s, y)
           sp == polSpend(s, p)
           z == y - p
           total == quoteIssue(s, z).total
           c == sp + total
           f == hookFee(s, c)
           k == spendCap(s, c + f)
           q == quoteBuyExactOutMirror(s, y)
           R == rungs(s, p, z)
<1>1. p \in Nat /\ p <= y /\ z \in Nat /\ p + z = y
  BY AskWithin
<1>2. minBig({y, s.ask, mulDivFloor(s.capLeft, Unit, askDenom(s))}) = p
  <2> DEFINE ask == s.ask
             cap == gpuFor(s.capLeft, denomAsk(s))
  <2>1. ask \in Nat /\ s.capLeft \in Nat
    BY MarketFields
  <2>2. cap \in Nat
    BY <2>1, Edges, Constants, MulDivNat DEF gpuFor
  <2>3. mulDivFloor(s.capLeft, Unit, askDenom(s)) = cap
    BY <2>1, MirrorPrices
  <2>4. p = Lesser(Lesser(y, ask), cap)
    BY DEF polAsk
  <2> HIDE DEF ask, cap, p
  <2>5. minBig({y, ask, cap}) = Lesser(Lesser(y, ask), cap)
    BY <2>1, <2>2, LeastOf
  <2> QED
    BY <2>3, <2>4, <2>5 DEF ask
<1> HIDE DEF p
<1>3. sp \in Nat /\ p * denomAsk(s) <= sp * Unit
  BY <1>1, SpendCovers, CeilAbove, Edges, Constants DEF polSpend
<1> HIDE DEF z
<1>4. total \in Nat /\ issuePrice(s, z).total = total
  BY <1>1, QuoteCovers, MirrorPrices
<1>5. mulDivCeil(p * askDenom(s), 1, Unit) = sp
  BY <1>1, MirrorPrices
<1>6. mulDivCeil(sp, s.polFeeBps, BPS) = polFee(s, sp)
  BY <1>3, MirrorPrices
<1> HIDE DEF sp, total
<1>7. c \in Nat /\ sp <= c /\ total = c - sp
  BY <1>3, <1>4
<1> HIDE DEF c
<1>8. mulDivCeil(c, s.hookFeeBps, BPS) = f /\ f \in Nat
  BY <1>7, MirrorPrices, FeesWithin
<1>9. k \in Nat /\ c <= k
  BY <1>7, <1>8, CapCoversCharge, SpendCapNat
<1> HIDE DEF f, k
<1>10. q = [ok |-> TRUE, gusdIn |-> c + f, gpuOut |-> y, polGpu |-> p, backstopGpu |-> z,
            hookFeeGusd |-> f, polFeeGusd |-> polFee(s, sp)]
  BY <1>2, <1>4, <1>5, <1>6, <1>8 DEF quoteBuyExactOutMirror, z, c
<1>11. buyLadder(s, k, y) = R
  <2> DEFINE a == gpuFor(k, denomAsk(s))
             d == denomAsk(s)
  <2>1. d \in Nat \ {0} /\ Unit \in Nat \ {0}
    BY Edges, Constants
  <2>2. a \in Nat /\ k * Unit < a * d + d
    BY <1>9, <2>1, FloorBelow DEF gpuFor
  <2>3. p <= a
    <3> HIDE DEF a, d
    <3>1. sp * Unit <= k * Unit
      BY <1>3, <1>7, <1>9, <2>1, ProductMonotone
    <3>2. p * d < (a + 1) * d
      <4>1. p * d <= sp * Unit /\ (a + 1) * d = a * d + d
        BY <1>3, <2>1, <2>2 DEF d
      <4>2. p * d \in Nat /\ sp * Unit \in Nat /\ k * Unit \in Nat /\ a * d \in Nat
        BY <1>1, <1>3, <1>9, <2>1, <2>2, ProductNat
      <4> QED
        BY <2>1, <2>2, <3>1, <4>1, <4>2
    <3>3. p < a + 1
      BY <1>1, <2>1, <2>2, <3>2, CancelFactor
    <3> QED
      BY <1>1, <2>2, <3>3
  <2>4. Lesser(polAsk(s, y), a) = p
    <3> HIDE DEF a
    <3> QED
      BY <1>1, <2>2, <2>3 DEF Lesser, p
  <2>5. backstopGpu(s, y - p, k - sp) = z
    <3>1. y - p = z
      BY DEF z
    <3>2. quoteIssue(s, z).total <= k - sp
      BY <1>3, <1>7, <1>9 DEF total
    <3> QED
      BY <3>1, <3>2 DEF backstopGpu
  <2>6. buyLadder(s, k, y) = ladderFrom(s, k, y, p)
    BY <2>4 DEF buyLadder
  <2> QED
    BY <2>5, <2>6 DEF ladderFrom, sp
<1>12. /\ R.polGpu = p /\ R.issueGpu = z /\ R.polSpend = sp /\ R.total = total
       /\ R.polFee = polFee(s, sp)
  BY DEF rungs, sp, total
<1>13. settleBuyOut(s, y) = buyOutFill(s, R)
  BY DEF settleBuyOut, p, z
<1>14. /\ buyOutFill(s, R).charge = c /\ buyOutFill(s, R).pays = c + f
       /\ buyOutFill(s, R).polGpu = p /\ buyOutFill(s, R).polFee = polFee(s, sp)
       /\ buyOutFill(s, R).hookFee = f
  <2> HIDE DEF R
  <2> QED
    BY <1>12 DEF buyOutFill, buyFilled, c, f
<1>15. planBuyOut(s, y, c + f, FALSE) = planCovered(y, FALSE, R)
  BY <1>11 DEF planBuyOut, k
<1>16. /\ planCovered(y, FALSE, R).ok /\ planCovered(y, FALSE, R).commit = y
       /\ planCovered(y, FALSE, R).charge = c
  <2> HIDE DEF R
  <2>1. GpuDust \in Nat
    BY Constants
  <2>2. p + z = y /\ (y - (p + z) <= GpuDust) = TRUE
    BY <1>1, <2>1
  <2>3. planCovered(y, FALSE, R) = [ok |-> TRUE, commit |-> y, charge |-> c]
    BY <1>12, <2>2 DEF planCovered, c
  <2> DEFINE P == planCovered(y, FALSE, R)
  <2>4. P = [ok |-> TRUE, commit |-> y, charge |-> c]
    BY <2>3
  <2> HIDE DEF P
  <2>5. P.ok /\ P.commit = y /\ P.charge = c
    BY <2>4
  <2> QED
    BY <2>5 DEF P
<1> DEFINE P == planBuyOut(s, y, q.gusdIn, FALSE)
           F == settleBuyOut(s, y)
<1>17. /\ q.gusdIn = c + f /\ q.polGpu = p /\ q.polFeeGusd = polFee(s, sp)
       /\ q.hookFeeGusd = f
  <2> HIDE DEF q
  <2> QED
    BY <1>10
<1> HIDE DEF q, R
<1>18. P.ok /\ P.commit = y /\ P.charge = c
  BY <1>15, <1>16, <1>17
<1>19. /\ F.charge = c /\ F.pays = c + f /\ F.polGpu = p /\ F.polFee = polFee(s, sp)
       /\ F.hookFee = f
  BY <1>13, <1>14
<1> HIDE DEF P, F
<1>20. BuyOutAgrees(y, q, P, F)
  BY <1>17, <1>18, <1>19 DEF BuyOutAgrees
<1> QED
  BY <1>20 DEF P, F, q

(* An exact-in sale is quoted as it settles, and rejected as it is refused. *)
LEMMA SellInQuoted ==
  ASSUME NEW s \in Markets, NEW y \in Nat
  PROVE  SellInAgrees(y, quoteSellMirror(s, y), planSellIn(s, y, y, FALSE), settleSellIn(s, y))
<1> DEFINE d == bidDenom(s)
           gb == gpuFor(s.bid, d)
           gc == gpuFor(s.capLeft, d)
           p == Lesser(Lesser(y, gb), gc)
           gross == MulDivFloor(p, d, Unit)
           pf == polFee(s, gross)
           hf == hookFee(s, gross - pf)
           dust == y - p <= GpuDust
<1>1. d \in Nat \ {0} /\ s.bid \in Nat /\ s.capLeft \in Nat /\ Unit \in Nat \ {0} /\ GpuDust \in Nat
  BY MarketFields, Edges, Constants
<1>2. gb \in Nat /\ gc \in Nat
  BY <1>1, MulDivNat DEF gpuFor
<1>3. mulDivFloor(s.bid, Unit, d) = gb /\ mulDivFloor(s.capLeft, Unit, d) = gc
  BY <1>1, MirrorPrices
<1>4. s.price * (BPS - s.bidBps) = d
  BY DEF bidDenom
<1> HIDE DEF d, gb, gc
<1>5. minBig({y, gb, gc}) = p /\ p \in Nat /\ p <= y
  <2>1. minBig({y, gb, gc}) = p
    BY <1>2, LeastOf, Zenon
  <2> QED
    BY <1>2, <2>1 DEF Lesser
<1>6. Lesser(Lesser(y, gb), Lesser(gc, y)) = p
  BY <1>2 DEF Lesser
<1> HIDE DEF p
<1>7. gross \in Nat /\ mulDivFloor(p * d, 1, Unit) = gross
  BY <1>1, <1>5, MulDivNat, MirrorRounds
<1> HIDE DEF gross
<1>8. pf \in Nat /\ pf <= gross /\ mulDivCeil(gross, s.polFeeBps, BPS) = pf
  BY <1>7, FeesWithin, MirrorPrices
<1> HIDE DEF pf
<1>9. gross - pf \in Nat
  BY <1>7, <1>8
<1>10. mulDivCeil(gross - pf, s.hookFeeBps, BPS) = hf
  BY <1>9, MirrorPrices
<1> HIDE DEF hf
<1>11. quoteSellMirror(s, y)
         = IF y - p > GpuDust THEN Rejected
           ELSE [ok |-> TRUE, gusdOut |-> gross - pf - hf, gpuIn |-> y, polFeeGusd |-> pf,
                 hookFeeGusd |-> hf]
  BY <1>3, <1>4, <1>5, <1>7, <1>8, <1>10 DEF quoteSellMirror
<1>12. planSellIn(s, y, y, FALSE)
         = IF dust THEN [ok |-> TRUE, commit |-> y] ELSE [ok |-> FALSE, commit |-> p]
  BY <1>6 DEF planSellIn, d, gb, gc
<1>13. settleSellIn(s, y).proceeds = gross - pf - hf /\ settleSellIn(s, y).hookFee = hf
  BY DEF settleSellIn, d, gb, gc, p, gross, pf, hf
<1>14. CASE dust
  <2>1. ~(y - p > GpuDust)
    BY <1>1, <1>5, <1>14
  <2>2. /\ quoteSellMirror(s, y).ok /\ quoteSellMirror(s, y).gusdOut = gross - pf - hf
        /\ quoteSellMirror(s, y).hookFeeGusd = hf
    BY <1>11, <2>1
  <2>3. planSellIn(s, y, y, FALSE).ok /\ planSellIn(s, y, y, FALSE).commit = y
    <3> DEFINE P == planSellIn(s, y, y, FALSE)
    <3>1. P = [ok |-> TRUE, commit |-> y]
      BY <1>12, <1>14
    <3> HIDE DEF P
    <3>2. P.ok /\ P.commit = y
      BY <3>1
    <3> QED
      BY <3>2 DEF P
  <2> QED
    BY <1>13, <2>2, <2>3 DEF SellInAgrees
<1>15. CASE ~dust
  <2>1. y - p > GpuDust
    BY <1>1, <1>5, <1>15
  <2>2. ~quoteSellMirror(s, y).ok
    BY <1>11, <2>1 DEF Rejected
  <2>3. ~planSellIn(s, y, y, FALSE).ok
    <3> DEFINE P == planSellIn(s, y, y, FALSE)
    <3>1. P = [ok |-> FALSE, commit |-> p]
      BY <1>12, <1>15
    <3> HIDE DEF P
    <3>2. ~P.ok
      BY <3>1
    <3> QED
      BY <3>2 DEF P
  <2> QED
    BY <2>2, <2>3 DEF SellInAgrees
<1> QED
  BY <1>14, <1>15

(* The client's supply for a gross budget is the hook's.                   *)
LEMMA MirrorSupply ==
  ASSUME NEW s \in Markets, NEW budget \in Nat
  PROVE  supplyMirror(s, budget) = supplyForGrossBudget(s, budget)
<1>1. ASSUME NEW x \in Nat
      PROVE  supplyStep(s, budget, x) = shrink(x, s, budget) /\ shrink(x, s, budget) \in Nat
  <2> DEFINE gr == grossOf(s, x)
  <2>1. gr \in Nat
    BY GrossNat
  <2>2. grossMirror(s, x) = gr
    BY MirrorPrices DEF grossMirror, grossOf
  <2> HIDE DEF gr
  <2>3. shrink(x, s, budget) = PosPart(x - PosPart(gr - budget))
    BY DEF shrink, gr
  <2>4. supplyStep(s, budget, x)
          = IF gr <= budget THEN x ELSE IF gr - budget >= x THEN 0 ELSE x - (gr - budget)
    BY <2>2 DEF supplyStep
  <2> QED
    BY <2>1, <2>3, <2>4 DEF PosPart
<1> DEFINE d == BPS + s.polFeeBps + s.hookFeeBps
           s0 == MulDivFloor(budget, BPS, d)
           s1 == shrink(s0, s, budget)
           s2 == shrink(s1, s, budget)
           s3 == shrink(s2, s, budget)
<1>2. BPS \in Nat /\ d \in Nat \ {0}
  BY MarketFields, Constants
<1>3. s0 \in Nat /\ mulDivFloor(budget, BPS, d) = s0
  <2> HIDE DEF d
  <2> QED
    BY <1>2, MulDivNat, MirrorRounds
<1> HIDE DEF d, s0
<1>4. s1 \in Nat /\ supplyStep(s, budget, s0) = s1
  BY <1>1, <1>3
<1> HIDE DEF s1
<1>5. s2 \in Nat /\ supplyStep(s, budget, s1) = s2
  BY <1>1, <1>4
<1> HIDE DEF s2
<1>6. s3 \in Nat /\ supplyStep(s, budget, s2) = s3
  BY <1>1, <1>5
<1> HIDE DEF s3
<1>7. supplyStep(s, budget, s3) = shrink(s3, s, budget)
  BY <1>1, <1>6
<1>8. supplyMirror(s, budget) = shrink(s3, s, budget)
  BY <1>3, <1>4, <1>5, <1>6, <1>7 DEF supplyMirror, d
<1>9. supplyForGrossBudget(s, budget) = shrink(s3, s, budget)
  BY DEF supplyForGrossBudget, s3, s2, s1, s0, d
<1> QED
  BY <1>8, <1>9

(* The loop stops at the most the budget supplies.                         *)
LEMMA SupplyMaximal ==
  ASSUME NEW s \in Markets, NEW budget \in Nat, NEW x \in Nat, grossOf(s, x) <= budget
  PROVE  x <= supplyForGrossBudget(s, budget)
<1> DEFINE d == BPS + s.polFeeBps + s.hookFeeBps
           s0 == MulDivFloor(budget, BPS, d)
           s1 == shrink(s0, s, budget)
           s2 == shrink(s1, s, budget)
           s3 == shrink(s2, s, budget)
           gr == grossOf(s, x)
<1>1. BPS \in Nat \ {0} /\ d \in Nat \ {0} /\ s.polFeeBps \in Nat /\ s.hookFeeBps \in Nat
  BY MarketFields, Constants
<1>2. s0 \in Nat /\ budget * BPS < s0 * d + d
  <2> HIDE DEF d
  <2> QED
    BY <1>1, FloorBelow
<1>3. x * d <= gr * BPS
  <2> DEFINE a == polFee(s, x)
             b == hookFee(s, x)
  <2>1. a \in Nat /\ b \in Nat
    BY FeesWithin
  <2>2. x * s.polFeeBps <= a * BPS /\ x * s.hookFeeBps <= b * BPS
    BY <1>1, CeilAbove DEF polFee, hookFee
  <2>3. gr = x + a + b
    BY DEF grossOf
  <2> HIDE DEF a, b, gr
  <2>4. /\ x * d = x * BPS + x * s.polFeeBps + x * s.hookFeeBps
        /\ gr * BPS = x * BPS + a * BPS + b * BPS
    BY <1>1, <2>1, <2>3
  <2>5. /\ x * BPS \in Nat /\ x * s.polFeeBps \in Nat /\ x * s.hookFeeBps \in Nat
        /\ a * BPS \in Nat /\ b * BPS \in Nat
    BY <1>1, <2>1, ProductNat
  <2> HIDE DEF d
  <2> QED
    BY <2>2, <2>4, <2>5
<1>4. gr \in Nat /\ gr <= budget
  BY GrossNat
<1> HIDE DEF d, gr
<1>5. x <= s0
  <2> HIDE DEF s0
  <2>1. gr * BPS <= budget * BPS
    BY <1>1, <1>4, ProductMonotone
  <2>2. /\ x * d \in Nat /\ gr * BPS \in Nat /\ budget * BPS \in Nat /\ s0 * d \in Nat
        /\ (s0 + 1) * d = s0 * d + d
    BY <1>1, <1>2, <1>4, ProductNat
  <2>3. x * d < (s0 + 1) * d
    BY <1>1, <1>2, <1>3, <2>1, <2>2
  <2>4. x < s0 + 1
    BY <1>1, <1>2, <2>3, CancelFactor
  <2> QED
    BY <1>2, <2>4
<1>6. ASSUME NEW v \in Nat, x <= v, grossOf(s, v) <= budget + 1
      PROVE  /\ shrink(v, s, budget) \in Nat /\ x <= shrink(v, s, budget)
             /\ grossOf(s, shrink(v, s, budget)) <= budget + 1
  <2> DEFINE gv == grossOf(s, v)
             w == shrink(v, s, budget)
  <2>1. gv \in Nat /\ w \in Nat /\ grossOf(s, w) \in Nat /\ grossOf(s, w) <= budget
    BY <1>6, GrossNat, ShrinkFits
  <2>2. w = PosPart(v - PosPart(gv - budget))
    BY DEF shrink
  <2>3. x = v => gv <= budget
    BY <1>4 DEF gr
  <2>4. gv <= budget + 1
    BY <1>6
  <2>5. grossOf(s, w) <= budget + 1
    BY <2>1
  <2> HIDE DEF gv, w
  <2>6. x <= w
    BY <1>6, <2>1, <2>2, <2>3, <2>4 DEF PosPart
  <2> QED
    BY <2>1, <2>5, <2>6 DEF w
<1>7. grossOf(s, s0) <= budget + 1
  BY GrossEstimate DEF d
<1> HIDE DEF s0
<1>8. s1 \in Nat /\ x <= s1 /\ grossOf(s, s1) <= budget + 1
  BY <1>2, <1>5, <1>6, <1>7
<1> HIDE DEF s1
<1>9. s2 \in Nat /\ x <= s2 /\ grossOf(s, s2) <= budget + 1
  BY <1>6, <1>8
<1> HIDE DEF s2
<1>10. s3 \in Nat /\ x <= s3 /\ grossOf(s, s3) <= budget + 1
  BY <1>6, <1>9
<1> HIDE DEF s3
<1>11. x <= shrink(s3, s, budget)
  BY <1>6, <1>10
<1> QED
  BY <1>11 DEF supplyForGrossBudget, s3, s2, s1, s0, d

(* An exact-out sale quoted in full and paid for with the quoted GPU is    *)
(* planned in full.                                                        *)
LEMMA SellOutQuoted ==
  ASSUME NEW s \in Markets, NEW x \in Nat,
         quoteSellExactOutMirror(s, x).ok, quoteSellExactOutMirror(s, x).gusdOut = x
  PROVE  LET q == quoteSellExactOutMirror(s, x)
         IN  SellOutAgrees(x, q, planSellOut(s, x, q.gpuIn, FALSE), settleSellOut(s, x))
<1> DEFINE d == bidDenom(s)
           lim == Lesser(s.bid, s.capLeft)
           most == supplyForGrossBudget(s, lim)
           sup == Lesser(x, most)
           gr == grossOf(s, x)
           y == MulDivCeil(gr, Unit, d)
           q == quoteSellExactOutMirror(s, x)
<1>1. d \in Nat \ {0} /\ s.bid \in Nat /\ s.capLeft \in Nat /\ Unit \in Nat \ {0} /\ GusdDust \in Nat
  BY MarketFields, Edges, Constants
<1>2. s.price * (BPS - s.bidBps) = d
  BY DEF bidDenom
<1>3. minBig({s.bid, s.capLeft}) = lim /\ lim \in Nat
  <2> DEFINE a == s.bid
             b == s.capLeft
  <2>1. a \in Nat /\ b \in Nat
    BY <1>1
  <2> HIDE DEF a, b
  <2>2. minBig({a, b}) = Lesser(a, b)
    BY <2>1, LeastOf, Zenon
  <2>3. Lesser(a, b) \in Nat
    BY <2>1 DEF Lesser
  <2> QED
    BY <2>2, <2>3 DEF a, b
<1> HIDE DEF d, lim
<1>4. supplyMirror(s, lim) = most /\ most \in Nat /\ grossOf(s, most) <= lim
  BY <1>3, MirrorSupply, SupplyFits
<1> HIDE DEF most
<1>5. minBig({x, most}) = sup /\ sup \in Nat
  <2>1. minBig({x, most}) = sup
    BY <1>4, LeastOf, Zenon
  <2> QED
    BY <1>4, <2>1 DEF Lesser
<1>6. sup = x => x <= most
  BY <1>4 DEF Lesser
<1> HIDE DEF sup
<1>7. q = IF x - sup > GusdDust THEN Rejected
          ELSE [ok |-> TRUE, gusdOut |-> sup,
                gpuIn |-> mulDivCeil(sup + mulDivCeil(sup, s.polFeeBps, BPS)
                                         + mulDivCeil(sup, s.hookFeeBps, BPS), Unit, d),
                polFeeGusd |-> mulDivCeil(sup, s.polFeeBps, BPS),
                hookFeeGusd |-> mulDivCeil(sup, s.hookFeeBps, BPS)]
  BY <1>2, <1>3, <1>4, <1>5 DEF quoteSellExactOutMirror
<1>8. ~(x - sup > GusdDust) /\ sup = x
  <2> HIDE DEF q
  <2>1. q.ok /\ q.gusdOut = x
    BY DEF q
  <2>2. ~(x - sup > GusdDust)
    BY <1>7, <2>1 DEF Rejected
  <2> QED
    BY <1>7, <2>1, <2>2
<1>9. gr \in Nat /\ gr = x + mulDivCeil(x, s.polFeeBps, BPS) + mulDivCeil(x, s.hookFeeBps, BPS)
  BY GrossNat, MirrorPrices DEF grossOf
<1> HIDE DEF gr
<1>10. /\ y \in Nat /\ gr * Unit <= y * d /\ mulDivCeil(gr, Unit, d) = y
  BY <1>1, <1>9, CeilAbove, MirrorRounds
<1> HIDE DEF y
<1>11. q.gpuIn = y
  <2> HIDE DEF q
  <2> QED
    BY <1>7, <1>8, <1>9, <1>10
<1> DEFINE z == MulDivFloor(y, d, Unit)
           budget == Lesser(lim, z)
<1>12. z \in Nat /\ gr <= z
  <2>1. z \in Nat /\ y * d < z * Unit + Unit
    BY <1>1, <1>10, FloorBelow
  <2> HIDE DEF z
  <2>2. /\ gr * Unit \in Nat /\ y * d \in Nat /\ z * Unit \in Nat
        /\ (z + 1) * Unit = z * Unit + Unit
    BY <1>1, <1>9, <1>10, <2>1, ProductNat
  <2>3. gr * Unit < (z + 1) * Unit
    BY <1>1, <1>10, <2>1, <2>2
  <2>4. gr < z + 1
    BY <1>1, <1>9, <2>1, <2>3, CancelFactor
  <2> QED
    BY <1>9, <2>1, <2>4
<1> HIDE DEF z
<1>13. gr <= lim
  <2>1. x <= most
    BY <1>6, <1>8
  <2>2. gr + (most - x) <= grossOf(s, most) /\ grossOf(s, most) \in Nat
    BY <1>4, <2>1, GrossMonotone, GrossNat DEF gr
  <2> QED
    BY <1>3, <1>4, <1>9, <2>1, <2>2
<1>14. budget \in Nat /\ gr <= budget
  BY <1>3, <1>12, <1>13 DEF Lesser
<1> HIDE DEF budget
<1>15. x <= supplyForGrossBudget(s, budget) /\ supplyForGrossBudget(s, budget) \in Nat
  BY <1>14, SupplyMaximal, SupplyFits DEF gr
<1>16. Lesser(x, supplyForGrossBudget(s, budget)) = x
  BY <1>15 DEF Lesser
<1>17. (x - x <= GusdDust) = TRUE
  BY <1>1
<1>18. planSellOut(s, x, y, FALSE) = [ok |-> TRUE, commit |-> x, charge |-> y]
  BY <1>16, <1>17 DEF planSellOut, budget, lim, z, d, y, gr
<1>19. planSellOut(s, x, y, FALSE).ok /\ planSellOut(s, x, y, FALSE).commit = x
       /\ planSellOut(s, x, y, FALSE).charge = y
  <2> DEFINE P == planSellOut(s, x, y, FALSE)
  <2>1. P = [ok |-> TRUE, commit |-> x, charge |-> y]
    BY <1>18
  <2> HIDE DEF P
  <2>2. P.ok /\ P.commit = x /\ P.charge = y
    BY <2>1
  <2> QED
    BY <2>2 DEF P
<1>20. settleSellOut(s, x).gpuIn = y
  BY DEF settleSellOut, y, gr, d
<1> HIDE DEF q
<1>21. SellOutAgrees(x, q, planSellOut(s, x, q.gpuIn, FALSE), settleSellOut(s, x))
  BY <1>11, <1>19, <1>20 DEF SellOutAgrees
<1> QED
  BY <1>21 DEF q

(* hook-quote.ts against GPUHook: for all constants, in every reachable    *)
(* state of a market, a quote of the web client for one of the amounts is  *)
(* what the hook then does with the quoted payment.                        *)
THEOREM QuotesHonest == Spec => []QuoteIsExecution
<1>1. Inv => QuoteIsExecution
  <2> SUFFICES ASSUME Inv, NEW g \in GpuIds
               PROVE  \E m \in {market(g)} :
      /\ \A y \in GpuAmounts : \E q \in {quoteBuyExactOutMirror(m, y)} :
           q.ok /\ m.open => BuyOutAgrees(y, q, planBuyOut(m, y, q.gusdIn, FALSE), settleBuyOut(m, y))
      /\ \A x \in GusdAmounts : \E q \in {quoteBuyMirror(m, x)} :
           q.ok => BuyInAgrees(x, q, planBuyIn(m, x, x, FALSE), settleBuyIn(m, x))
      /\ \A y \in GpuAmounts :
           SellInAgrees(y, quoteSellMirror(m, y), planSellIn(m, y, y, FALSE), settleSellIn(m, y))
      /\ \A x \in GusdAmounts : \E q \in {quoteSellExactOutMirror(m, x)} :
           q.ok /\ q.gusdOut = x =>
             SellOutAgrees(x, q, planSellOut(m, x, q.gpuIn, FALSE), settleSellOut(m, x))
    BY DEF QuoteIsExecution
  <2> DEFINE m == market(g)
  <2>1. m \in Markets
    BY MarketTyped DEF Inv, BooksExact
  <2>2. GpuAmounts \subseteq Nat /\ GusdAmounts \subseteq Nat
    BY SpotConstants
  <2> HIDE DEF m
  <2>3. ASSUME NEW y \in GpuAmounts, m.open
        PROVE  BuyOutAgrees(y, quoteBuyExactOutMirror(m, y),
                            planBuyOut(m, y, quoteBuyExactOutMirror(m, y).gusdIn, FALSE), settleBuyOut(m, y))
    BY <2>1, <2>2, <2>3, BuyOutQuoted
  <2>4. ASSUME NEW x \in GusdAmounts, quoteBuyMirror(m, x).ok
        PROVE  BuyInAgrees(x, quoteBuyMirror(m, x), planBuyIn(m, x, x, FALSE), settleBuyIn(m, x))
    BY <2>1, <2>2, <2>4, BuyInQuoted
  <2>5. ASSUME NEW y \in GpuAmounts
        PROVE  SellInAgrees(y, quoteSellMirror(m, y), planSellIn(m, y, y, FALSE), settleSellIn(m, y))
    BY <2>1, <2>2, <2>5, SellInQuoted
  <2>6. ASSUME NEW x \in GusdAmounts, quoteSellExactOutMirror(m, x).ok,
               quoteSellExactOutMirror(m, x).gusdOut = x
        PROVE  SellOutAgrees(x, quoteSellExactOutMirror(m, x),
                             planSellOut(m, x, quoteSellExactOutMirror(m, x).gpuIn, FALSE),
                             settleSellOut(m, x))
    BY <2>1, <2>2, <2>6, SellOutQuoted
  <2>7. /\ \A y \in GpuAmounts : \E q \in {quoteBuyExactOutMirror(m, y)} :
             q.ok /\ m.open => BuyOutAgrees(y, q, planBuyOut(m, y, q.gusdIn, FALSE), settleBuyOut(m, y))
        /\ \A x \in GusdAmounts : \E q \in {quoteBuyMirror(m, x)} :
             q.ok => BuyInAgrees(x, q, planBuyIn(m, x, x, FALSE), settleBuyIn(m, x))
    BY <2>3, <2>4, Zenon
  <2>8. \A x \in GusdAmounts : \E q \in {quoteSellExactOutMirror(m, x)} :
           q.ok /\ q.gusdOut = x =>
             SellOutAgrees(x, q, planSellOut(m, x, q.gpuIn, FALSE), settleSellOut(m, x))
    BY <2>6, Zenon
  <2> QED
    BY <2>5, <2>7, <2>8, Zenon DEF m
<1> QED
  BY <1>1, AlwaysInv, PTL

-----------------------------------------------------------------------------
(* The indexer's tables                                                    *)

AssetRow ==
  [issuanceFeeBps : Int, issuanceEnabled : BOOLEAN, canonicalPool : BOOLEAN,
   issuedGpu : Int, principalContributedGusd : Int, polGusd : Int, polGpu : Int]

Basis == [qty : Nat, cost : Int, realized : Int, complete : BOOLEAN]

(* The tables with a row for each GPU of S.                                *)
Tables(S) ==
  [ok : BOOLEAN, hookFeeBps : Int, assets : [S -> AssetRow],
   gpu : [GpuIds -> [Addresses -> Int]], basis : [GpuIds -> [Wallets -> Basis]]]

(* What no trade of g touches.                                             *)
Kept(d, r, g) ==
  /\ r.hookFeeBps = d.hookFeeBps
  /\ \A h \in DOMAIN d.assets \ {g} : r.assets[h] = d.assets[h]
  /\ \A h \in GpuIds \ {g} : r.gpu[h] = d.gpu[h]
  /\ r.assets[g].issuanceFeeBps = d.assets[g].issuanceFeeBps
  /\ r.assets[g].issuanceEnabled = d.assets[g].issuanceEnabled
  /\ r.assets[g].canonicalPool = d.assets[g].canonicalPool

(* The counters of g's row move by i issued, b principal, x gUSD and y GPU *)
(* of the POL.                                                             *)
Counted(d, r, g, i, b, x, y) ==
  /\ r.assets[g].issuedGpu = d.assets[g].issuedGpu + i
  /\ r.assets[g].principalContributedGusd = d.assets[g].principalContributedGusd + b
  /\ r.assets[g].polGusd = d.assets[g].polGusd + x
  /\ r.assets[g].polGpu = d.assets[g].polGpu + y

(* v of g moves between two addresses.                                     *)
Passed(d, r, g, from, to, v) ==
  \A a \in Addresses :
    r.gpu[g][a] = d.gpu[g][a] + (IF a = to THEN v ELSE 0) - (IF a = from THEN v ELSE 0)

(* The system's addresses are five, none of them a wallet.                 *)
LEMMA AddressesApart ==
  /\ Zero \notin Addresses /\ {"manager", "vault", "hook", "router"} \subseteq Addresses
  /\ Wallets \subseteq Addresses
  /\ "manager" \notin Wallets /\ "vault" \notin Wallets /\ "hook" \notin Wallets
  /\ "router" \notin Wallets /\ Zero \notin Wallets
BY IndexerConstants DEF Addresses, Zero

(* gpu-token.ts: the balances of a transfer.                               *)
Moves(d, g, from, to, v) ==
  [d EXCEPT !.ok = @ /\ ~underflows(d.gpu[g], from, v),
            !.gpu[g] = transferred(@, from, to, v)]

LEMMA MovedRows ==
  ASSUME NEW S \in SUBSET GpuIds, NEW d \in Tables(S), NEW g \in GpuIds, NEW v \in Nat,
         NEW from \in Addresses \cup {Zero}, NEW to \in Addresses, from # to
  PROVE  LET r == Moves(d, g, from, to, v)
         IN  /\ r \in Tables(S) /\ r.basis = d.basis /\ r.assets = d.assets
             /\ r.ok = (d.ok /\ (from # Zero => v <= d.gpu[g][from]))
             /\ r.hookFeeBps = d.hookFeeBps
             /\ \A h \in GpuIds \ {g} : r.gpu[h] = d.gpu[h]
             /\ Passed(d, r, g, from, to, v)
<1> DEFINE row == d.gpu[g]
           t == transferred(row, from, to, v)
           u == underflows(row, from, v)
           r == Moves(d, g, from, to, v)
<1>1. d.gpu \in [GpuIds -> [Addresses -> Int]] /\ row \in [Addresses -> Int] /\ d.ok \in BOOLEAN
  BY DEF Tables
<1>2. to # Zero
  BY AddressesApart
<1>3. t \in [Addresses -> Int]
  BY <1>1, <1>2 DEF transferred
<1>4. \A a \in Addresses :
        t[a] = row[a] + (IF a = to THEN v ELSE 0) - (IF a = from THEN v ELSE 0)
  <2>1. CASE from = Zero
    BY <1>1, <1>2, <2>1, AddressesApart DEF transferred
  <2>2. CASE from # Zero
    BY <1>1, <1>2, <2>2 DEF transferred
  <2> QED BY <2>1, <2>2
<1>5. u <=> (from # Zero /\ row[from] < v)
  BY DEF underflows
<1>6. from # Zero => row[from] \in Int
  BY <1>1
<1>7. r = [d EXCEPT !.ok = d.ok /\ ~u, !.gpu = [d.gpu EXCEPT ![g] = t]]
  BY DEF Tables, Moves
<1> HIDE DEF t, u, r
<1>8. [d.gpu EXCEPT ![g] = t] \in [GpuIds -> [Addresses -> Int]]
  BY <1>1, <1>3
<1>9. /\ r \in Tables(S) /\ r.basis = d.basis /\ r.assets = d.assets
      /\ r.ok = (d.ok /\ ~u) /\ r.hookFeeBps = d.hookFeeBps
      /\ r.gpu = [d.gpu EXCEPT ![g] = t]
  BY <1>1, <1>7, <1>8 DEF Tables
<1>10. r.gpu[g] = t /\ \A h \in GpuIds \ {g} : r.gpu[h] = d.gpu[h]
  BY <1>1, <1>9
<1>11. Passed(d, r, g, from, to, v)
  BY <1>4, <1>10 DEF Passed
<1>12. r.ok = (d.ok /\ (from # Zero => v <= d.gpu[g][from]))
  <2>1. ~u <=> (from # Zero => v <= row[from])
    BY <1>5, <1>6
  <2> HIDE DEF row
  <2>2. r.ok = (d.ok /\ (from # Zero => v <= row[from]))
    BY <1>9, <2>1, Zenon
  <2> QED BY <2>2 DEF row
<1> QED BY <1>9, <1>10, <1>11, <1>12 DEF r

(* A transfer that touches one of the system's addresses leaves the bases. *)
LEMMA TransferRows ==
  ASSUME NEW d, NEW g, NEW v, NEW from, NEW to, ~({from, to} \subseteq Wallets)
  PROVE  Transfer(d, g, from, to, v) = Moves(d, g, from, to, v)
BY ZenonT(90) DEF Transfer, Moves

(* A basis put in place.                                                   *)
LEMMA BasisPut ==
  ASSUME NEW B \in [GpuIds -> [Wallets -> Basis]], NEW g \in GpuIds, NEW w \in Wallets,
         NEW b \in Basis
  PROVE  LET C == [B EXCEPT ![g][w] = b]
         IN  /\ C \in [GpuIds -> [Wallets -> Basis]] /\ C[g][w] = b
             /\ \A h \in GpuIds, x \in Wallets : (h = g /\ x = w) \/ C[h][x] = B[h][x]
OBVIOUS

LEMMA Demoted ==
  ASSUME NEW b \in Basis
  PROVE  demoteBasis(b) \in Basis /\ ~demoteBasis(b).complete
BY DEF demoteBasis, Basis

(* One between wallets demotes both.                                       *)
LEMMA WalletRows ==
  ASSUME NEW S \in SUBSET GpuIds, NEW d \in Tables(S), NEW g \in GpuIds, NEW v \in Nat,
         NEW from \in Wallets, NEW to \in Wallets, from # to
  PROVE  LET r == Transfer(d, g, from, to, v)
         IN  /\ r \in Tables(S) /\ r.assets = d.assets
             /\ (d.ok /\ v <= d.gpu[g][from] => r.ok)
             /\ r.hookFeeBps = d.hookFeeBps
             /\ \A h \in GpuIds \ {g} : r.gpu[h] = d.gpu[h]
             /\ Passed(d, r, g, from, to, v)
             /\ ~r.basis[g][from].complete /\ ~r.basis[g][to].complete
             /\ \A h \in GpuIds, w \in Wallets :
                  (h = g /\ w \in {from, to}) \/ r.basis[h][w] = d.basis[h][w]
<1> DEFINE m == Moves(d, g, from, to, v)
           b1 == [m.basis EXCEPT ![g][from] = demoteBasis(m.basis[g][from])]
           b2 == [b1 EXCEPT ![g][to] = demoteBasis(b1[g][to])]
           r == Transfer(d, g, from, to, v)
<1>1. /\ m \in Tables(S) /\ m.basis = d.basis /\ m.assets = d.assets
      /\ m.ok = (d.ok /\ (from # Zero => v <= d.gpu[g][from]))
      /\ m.hookFeeBps = d.hookFeeBps
      /\ \A h \in GpuIds \ {g} : m.gpu[h] = d.gpu[h]
      /\ Passed(d, m, g, from, to, v)
  BY AddressesApart, MovedRows
<1>2. from # Zero
  BY AddressesApart
<1>3. r = demoteGpuBasis(demoteGpuBasis(m, g, from), g, to)
  BY ZenonT(90) DEF Transfer, Moves
<1> HIDE DEF m, r
<1>4. m.basis \in [GpuIds -> [Wallets -> Basis]]
  BY <1>1 DEF Tables
<1>5. /\ b1 \in [GpuIds -> [Wallets -> Basis]] /\ ~b1[g][from].complete
      /\ \A h \in GpuIds, w \in Wallets : (h = g /\ w = from) \/ b1[h][w] = m.basis[h][w]
  <2>1. /\ demoteBasis(m.basis[g][from]) \in Basis
        /\ ~demoteBasis(m.basis[g][from]).complete
    BY <1>4, Demoted
  <2> QED BY <1>4, <2>1, BasisPut
<1>6. [m EXCEPT !.basis = b1] = demoteGpuBasis(m, g, from)
  BY <1>1 DEF demoteGpuBasis, Tables
<1> HIDE DEF b1
<1>7. /\ b2 \in [GpuIds -> [Wallets -> Basis]] /\ ~b2[g][to].complete
      /\ \A h \in GpuIds, w \in Wallets : (h = g /\ w = to) \/ b2[h][w] = b1[h][w]
  <2>1. demoteBasis(b1[g][to]) \in Basis /\ ~demoteBasis(b1[g][to]).complete
    BY <1>5, Demoted
  <2> QED BY <1>5, <2>1, BasisPut
<1>8. [m EXCEPT !.basis = b2] = r
  <2>1. [m EXCEPT !.basis = b1].basis = b1
    BY <1>1 DEF Tables
  <2> QED BY <1>1, <1>3, <1>6, <2>1 DEF demoteGpuBasis, Tables
<1> HIDE DEF b2
<1>9. /\ r \in Tables(S) /\ r.basis = b2 /\ r.assets = m.assets /\ r.gpu = m.gpu
      /\ r.ok = m.ok /\ r.hookFeeBps = m.hookFeeBps
  BY <1>1, <1>7, <1>8 DEF Tables
<1>10. Passed(d, r, g, from, to, v)
  BY <1>1, <1>9 DEF Passed
<1>11. ~b2[g][from].complete
  BY <1>5, <1>7
<1> QED BY <1>1, <1>2, <1>5, <1>7, <1>9, <1>10, <1>11 DEF r

(* issuance.ts, liquidity.ts, hook.ts: a handler that writes g's row.      *)
RowPut(d, g, row) == [d EXCEPT !.ok = requireAsset(d, g), !.assets[g] = row]

LEMMA RowPutRows ==
  ASSUME NEW S \in SUBSET GpuIds, NEW d \in Tables(S), NEW g \in S, NEW row \in AssetRow
  PROVE  LET r == RowPut(d, g, row)
         IN  /\ r \in Tables(S) /\ r.ok = d.ok /\ r.basis = d.basis /\ r.gpu = d.gpu
             /\ r.hookFeeBps = d.hookFeeBps /\ r.assets[g] = row
             /\ \A h \in S \ {g} : r.assets[h] = d.assets[h]
<1> DEFINE r == RowPut(d, g, row)
<1>1. d.assets \in [S -> AssetRow] /\ d.ok \in BOOLEAN
  BY DEF Tables
<1>2. requireAsset(d, g) = d.ok
  BY <1>1 DEF requireAsset
<1>3. r = [d EXCEPT !.ok = d.ok, !.assets = [d.assets EXCEPT ![g] = row]]
  BY <1>2 DEF RowPut, Tables
<1>4. [d.assets EXCEPT ![g] = row] \in [S -> AssetRow]
  BY <1>1
<1> HIDE DEF r
<1>5. /\ r \in Tables(S) /\ r.ok = d.ok /\ r.basis = d.basis /\ r.gpu = d.gpu
      /\ r.hookFeeBps = d.hookFeeBps /\ r.assets = [d.assets EXCEPT ![g] = row]
  BY <1>3, <1>4 DEF Tables
<1> QED BY <1>1, <1>5 DEF r

(* The POL's counters move by x gUSD and y GPU.                            *)
Pol(d, g, x, y) == [d.assets[g] EXCEPT !.polGusd = @ + x, !.polGpu = @ + y]

LEMMA PolRows ==
  ASSUME NEW S \in SUBSET GpuIds, NEW d \in Tables(S), NEW g \in S, NEW x \in Int, NEW y \in Int
  PROVE  LET r == RowPut(d, g, Pol(d, g, x, y))
         IN  /\ r \in Tables(S) /\ (d.ok => r.ok) /\ r.basis = d.basis /\ r.gpu = d.gpu
             /\ Kept(d, r, g) /\ Counted(d, r, g, 0, 0, x, y)
<1> DEFINE a == d.assets[g]
           row == Pol(d, g, x, y)
           r == RowPut(d, g, row)
<1>1. d.assets \in [S -> AssetRow] /\ a \in AssetRow
  BY DEF Tables
<1>2. /\ row \in AssetRow /\ row.polGusd = a.polGusd + x /\ row.polGpu = a.polGpu + y
      /\ row.issuedGpu = a.issuedGpu + 0
      /\ row.principalContributedGusd = a.principalContributedGusd + 0
      /\ row.issuanceFeeBps = a.issuanceFeeBps /\ row.issuanceEnabled = a.issuanceEnabled
      /\ row.canonicalPool = a.canonicalPool
  <2>1. /\ a.polGusd + x \in Int /\ a.polGpu + y \in Int
        /\ a.issuedGpu + 0 = a.issuedGpu
        /\ a.principalContributedGusd + 0 = a.principalContributedGusd
    BY <1>1 DEF AssetRow
  <2>2. row \in AssetRow
    BY <1>1, <2>1 DEF AssetRow, Pol
  <2>3. /\ row.polGusd = a.polGusd + x /\ row.polGpu = a.polGpu + y
        /\ row.issuedGpu = a.issuedGpu
        /\ row.principalContributedGusd = a.principalContributedGusd
        /\ row.issuanceFeeBps = a.issuanceFeeBps /\ row.issuanceEnabled = a.issuanceEnabled
        /\ row.canonicalPool = a.canonicalPool
    BY <1>1 DEF AssetRow, Pol
  <2> QED BY <2>1, <2>2, <2>3
<1> HIDE DEF row
<1>3. /\ r \in Tables(S) /\ r.ok = d.ok /\ r.basis = d.basis /\ r.gpu = d.gpu
      /\ r.hookFeeBps = d.hookFeeBps /\ r.assets[g] = row
      /\ \A h \in S \ {g} : r.assets[h] = d.assets[h]
  BY <1>2, RowPutRows
<1>4. DOMAIN d.assets = S
  BY <1>1
<1> HIDE DEF r
<1>5. Kept(d, r, g) /\ Counted(d, r, g, 0, 0, x, y)
  BY <1>2, <1>3, <1>4 DEF Kept, Counted
<1> QED BY <1>3, <1>5 DEF r, row

(* The three handlers of the vault's movements.                            *)
LEMMA PolHandlers ==
  ASSUME NEW S \in SUBSET GpuIds, NEW d \in Tables(S), NEW g \in S, NEW v \in Nat
  PROVE  /\ BidCredited(d, g, v) = RowPut(d, g, Pol(d, g, v, 0))
         /\ GpuNoted(d, g, v) = RowPut(d, g, Pol(d, g, 0, v))
         /\ InventoryPulled(d, g, v, TRUE) = RowPut(d, g, Pol(d, g, -v, 0))
         /\ InventoryPulled(d, g, v, FALSE) = RowPut(d, g, Pol(d, g, 0, -v))
<1> DEFINE a == d.assets[g]
<1>1. d.assets \in [S -> AssetRow] /\ a \in AssetRow
  BY DEF Tables
<1>2. /\ a.polGpu + 0 = a.polGpu /\ a.polGusd + 0 = a.polGusd
      /\ a.polGusd + (-v) = a.polGusd - v /\ a.polGpu + (-v) = a.polGpu - v
  BY <1>1 DEF AssetRow
<1>3. ASSUME NEW x \in Int PROVE Pol(d, g, x, 0) = [a EXCEPT !.polGusd = a.polGusd + x]
  BY <1>1, <1>2 DEF AssetRow, Pol
<1>4. ASSUME NEW y \in Int PROVE Pol(d, g, 0, y) = [a EXCEPT !.polGpu = a.polGpu + y]
  BY <1>1, <1>2 DEF AssetRow, Pol
<1>5. /\ Pol(d, g, v, 0) = [a EXCEPT !.polGusd = a.polGusd + v]
      /\ Pol(d, g, -v, 0) = [a EXCEPT !.polGusd = a.polGusd - v]
      /\ Pol(d, g, 0, v) = [a EXCEPT !.polGpu = a.polGpu + v]
      /\ Pol(d, g, 0, -v) = [a EXCEPT !.polGpu = a.polGpu - v]
  <2>1. v \in Int /\ -v \in Int
    OBVIOUS
  <2> QED BY <1>2, <1>3, <1>4, <2>1
<1>6. BidCredited(d, g, v) = RowPut(d, g, Pol(d, g, v, 0))
  BY <1>1, <1>5 DEF BidCredited, RowPut, Tables
<1>7. GpuNoted(d, g, v) = RowPut(d, g, Pol(d, g, 0, v))
  BY <1>1, <1>5 DEF GpuNoted, RowPut, Tables
<1>8. InventoryPulled(d, g, v, TRUE) = RowPut(d, g, Pol(d, g, -v, 0))
  BY <1>1, <1>5 DEF InventoryPulled, RowPut, Tables
<1>9. InventoryPulled(d, g, v, FALSE) = RowPut(d, g, Pol(d, g, 0, -v))
  BY <1>1, <1>5 DEF InventoryPulled, RowPut, Tables
<1> QED BY <1>6, <1>7, <1>8, <1>9

LEMMA CreditRows ==
  ASSUME NEW S \in SUBSET GpuIds, NEW d \in Tables(S), NEW g \in S, NEW v \in Nat
  PROVE  LET r == BidCredited(d, g, v)
         IN  /\ r \in Tables(S) /\ (d.ok => r.ok) /\ r.basis = d.basis /\ r.gpu = d.gpu
             /\ Kept(d, r, g) /\ Counted(d, r, g, 0, 0, v, 0)
<1>1. v \in Int /\ 0 \in Int
  OBVIOUS
<1> DEFINE r == RowPut(d, g, Pol(d, g, v, 0))
<1>2. BidCredited(d, g, v) = r
  BY PolHandlers
<1>3. /\ r \in Tables(S) /\ (d.ok => r.ok) /\ r.basis = d.basis /\ r.gpu = d.gpu
      /\ Kept(d, r, g) /\ Counted(d, r, g, 0, 0, v, 0)
  BY <1>1, PolRows
<1> HIDE DEF r
<1> QED BY <1>2, <1>3

LEMMA NoteRows ==
  ASSUME NEW S \in SUBSET GpuIds, NEW d \in Tables(S), NEW g \in S, NEW v \in Nat
  PROVE  LET r == GpuNoted(d, g, v)
         IN  /\ r \in Tables(S) /\ (d.ok => r.ok) /\ r.basis = d.basis /\ r.gpu = d.gpu
             /\ Kept(d, r, g) /\ Counted(d, r, g, 0, 0, 0, v)
<1>1. v \in Int /\ 0 \in Int
  OBVIOUS
<1> DEFINE r == RowPut(d, g, Pol(d, g, 0, v))
<1>2. GpuNoted(d, g, v) = r
  BY PolHandlers
<1>3. /\ r \in Tables(S) /\ (d.ok => r.ok) /\ r.basis = d.basis /\ r.gpu = d.gpu
      /\ Kept(d, r, g) /\ Counted(d, r, g, 0, 0, 0, v)
  BY <1>1, PolRows
<1> HIDE DEF r
<1> QED BY <1>2, <1>3

LEMMA PullGusdRows ==
  ASSUME NEW S \in SUBSET GpuIds, NEW d \in Tables(S), NEW g \in S, NEW v \in Nat
  PROVE  LET r == InventoryPulled(d, g, v, TRUE)
         IN  /\ r \in Tables(S) /\ (d.ok => r.ok) /\ r.basis = d.basis /\ r.gpu = d.gpu
             /\ Kept(d, r, g) /\ Counted(d, r, g, 0, 0, -v, 0)
<1>1. -v \in Int /\ 0 \in Int
  OBVIOUS
<1> DEFINE r == RowPut(d, g, Pol(d, g, -v, 0))
<1>2. InventoryPulled(d, g, v, TRUE) = r
  BY PolHandlers
<1>3. /\ r \in Tables(S) /\ (d.ok => r.ok) /\ r.basis = d.basis /\ r.gpu = d.gpu
      /\ Kept(d, r, g) /\ Counted(d, r, g, 0, 0, -v, 0)
  BY <1>1, PolRows
<1> HIDE DEF r
<1> QED BY <1>2, <1>3

LEMMA PullGpuRows ==
  ASSUME NEW S \in SUBSET GpuIds, NEW d \in Tables(S), NEW g \in S, NEW v \in Nat
  PROVE  LET r == InventoryPulled(d, g, v, FALSE)
         IN  /\ r \in Tables(S) /\ (d.ok => r.ok) /\ r.basis = d.basis /\ r.gpu = d.gpu
             /\ Kept(d, r, g) /\ Counted(d, r, g, 0, 0, 0, -v)
<1>1. -v \in Int /\ 0 \in Int
  OBVIOUS
<1> DEFINE r == RowPut(d, g, Pol(d, g, 0, -v))
<1>2. InventoryPulled(d, g, v, FALSE) = r
  BY PolHandlers
<1>3. /\ r \in Tables(S) /\ (d.ok => r.ok) /\ r.basis = d.basis /\ r.gpu = d.gpu
      /\ Kept(d, r, g) /\ Counted(d, r, g, 0, 0, 0, -v)
  BY <1>1, PolRows
<1> HIDE DEF r
<1> QED BY <1>2, <1>3

(* handlers/issuance.ts, Issued: the counters.                             *)
Noted(d, g, caller, amount, base) ==
  [countIssued(d, g, caller, amount) EXCEPT
     !.ok = requireAsset(d, g), !.assets[g].principalContributedGusd = @ + base]

LEMMA NotedRows ==
  ASSUME NEW S \in SUBSET GpuIds, NEW d \in Tables(S), NEW g \in S, NEW caller,
         NEW amount \in Nat, NEW base \in Nat
  PROVE  LET r == Noted(d, g, caller, amount, base)
         IN  /\ r \in Tables(S) /\ (d.ok => r.ok) /\ r.basis = d.basis /\ r.gpu = d.gpu
             /\ Kept(d, r, g) /\ Counted(d, r, g, amount, base, 0, 0)
<1> DEFINE a == d.assets[g]
           counted == countIssued(d, g, caller, amount)
           r == Noted(d, g, caller, amount, base)
           a1 == [a EXCEPT !.issuedGpu = @ + amount]
           row == [a1 EXCEPT !.principalContributedGusd = @ + base]
<1>1. d.assets \in [S -> AssetRow] /\ a \in AssetRow /\ DOMAIN d.assets = S
  BY DEF Tables
<1>2. a1 \in AssetRow /\ row \in AssetRow
  <2>1. a.issuedGpu + amount \in Int
    BY <1>1 DEF AssetRow
  <2>2. a1 \in AssetRow
    BY <1>1, <2>1 DEF AssetRow
  <2> HIDE DEF a1
  <2>3. a1.principalContributedGusd + base \in Int
    BY <2>2 DEF AssetRow
  <2>4. row \in AssetRow
    BY <2>2, <2>3 DEF AssetRow
  <2> QED BY <2>2, <2>4
<1>3. /\ row.issuedGpu = a.issuedGpu + amount
      /\ row.principalContributedGusd = a.principalContributedGusd + base
      /\ row.polGusd = a.polGusd + 0 /\ row.polGpu = a.polGpu + 0
      /\ row.issuanceFeeBps = a.issuanceFeeBps /\ row.issuanceEnabled = a.issuanceEnabled
      /\ row.canonicalPool = a.canonicalPool
  BY <1>1 DEF AssetRow
<1>4. counted = [d EXCEPT !.assets = [d.assets EXCEPT ![g] = a1]]
  BY <1>1 DEF countIssued, Tables
<1> HIDE DEF counted, a1
<1>5. /\ counted \in Tables(S) /\ counted.assets = [d.assets EXCEPT ![g] = a1]
      /\ counted.assets[g] = a1
  BY <1>1, <1>2, <1>4 DEF Tables
<1>6. r = [counted EXCEPT !.ok = requireAsset(d, g),
                          !.assets = [counted.assets EXCEPT ![g] = row]]
  BY <1>5 DEF Tables, Noted, counted
<1>7. [counted.assets EXCEPT ![g] = row] = [d.assets EXCEPT ![g] = row]
  BY <1>1, <1>5
<1> HIDE DEF row
<1>8. r = RowPut(d, g, row)
  BY <1>4, <1>6, <1>7 DEF RowPut, Tables
<1> HIDE DEF r
<1>9. /\ r \in Tables(S) /\ r.ok = d.ok /\ r.basis = d.basis /\ r.gpu = d.gpu
      /\ r.hookFeeBps = d.hookFeeBps /\ r.assets[g] = row
      /\ \A h \in S \ {g} : r.assets[h] = d.assets[h]
  BY <1>2, <1>8, RowPutRows
<1>10. Kept(d, r, g) /\ Counted(d, r, g, amount, base, 0, 0)
  BY <1>1, <1>3, <1>9 DEF Kept, Counted
<1> QED BY <1>9, <1>10 DEF r, counted

(* wallet-state.ts: only the basis of w in g changes.                      *)
Recorded(d, r, g, w) ==
  /\ r.ok = d.ok /\ r.hookFeeBps = d.hookFeeBps /\ r.assets = d.assets /\ r.gpu = d.gpu
  /\ \A h \in GpuIds, x \in Wallets : (h = g /\ x = w) \/ r.basis[h][x] = d.basis[h][x]

LEMMA BasisRows ==
  ASSUME NEW S \in SUBSET GpuIds, NEW d \in Tables(S), NEW g \in GpuIds, NEW w \in Wallets,
         NEW b \in Basis
  PROVE  LET r == [d EXCEPT !.basis[g][w] = b]
         IN  r \in Tables(S) /\ Recorded(d, r, g, w) /\ r.basis[g][w] = b
<1> DEFINE r == [d EXCEPT !.basis[g][w] = b]
           C == [d.basis EXCEPT ![g][w] = b]
<1>1. d.basis \in [GpuIds -> [Wallets -> Basis]]
  BY DEF Tables
<1>2. /\ C \in [GpuIds -> [Wallets -> Basis]] /\ C[g][w] = b
      /\ \A h \in GpuIds, x \in Wallets : (h = g /\ x = w) \/ C[h][x] = d.basis[h][x]
  BY <1>1, BasisPut
<1>3. r = [d EXCEPT !.basis = C]
  BY DEF Tables
<1> HIDE DEF r, C
<1>4. /\ r \in Tables(S) /\ r.basis = C /\ r.ok = d.ok /\ r.hookFeeBps = d.hookFeeBps
      /\ r.assets = d.assets /\ r.gpu = d.gpu
  BY <1>2, <1>3 DEF Tables
<1> QED BY <1>2, <1>4 DEF r, Recorded

LEMMA AcquiredRows ==
  ASSUME NEW S \in SUBSET GpuIds, NEW d \in Tables(S), NEW g \in GpuIds, NEW w \in Wallets,
         NEW qty \in Nat, NEW cost \in Int
  PROVE  LET r == recordGpuAcquisition(d, g, w, qty, cost)
         IN  /\ r \in Tables(S) /\ Recorded(d, r, g, w)
             /\ r.basis[g][w].qty = d.basis[g][w].qty + qty
             /\ r.basis[g][w].complete = d.basis[g][w].complete
<1> DEFINE b == d.basis[g][w]
           c == acquireBasis(b, qty, cost)
           r == recordGpuAcquisition(d, g, w, qty, cost)
<1>1. d.basis \in [GpuIds -> [Wallets -> Basis]] /\ b \in Basis
  BY DEF Tables
<1>2. c \in Basis /\ c.qty = b.qty + qty /\ c.complete = b.complete
  <2>1. b.qty + qty \in Nat /\ b.cost + cost \in Int
    BY <1>1 DEF Basis
  <2> QED BY <1>1, <2>1 DEF acquireBasis, Basis
<1>3. r = [d EXCEPT !.basis[g][w] = c]
  BY <1>1 DEF recordGpuAcquisition, Tables
<1> HIDE DEF r, c
<1> QED BY <1>2, <1>3, BasisRows DEF r

LEMMA DisposedRows ==
  ASSUME NEW S \in SUBSET GpuIds, NEW d \in Tables(S), NEW g \in GpuIds, NEW w \in Wallets,
         NEW qty \in Nat, NEW proceeds \in Int
  PROVE  LET r == recordGpuDisposal(d, g, w, qty, proceeds)
         IN  /\ r \in Tables(S) /\ Recorded(d, r, g, w)
             /\ r.basis[g][w].complete = d.basis[g][w].complete
             /\ d.basis[g][w].complete =>
                  r.basis[g][w].qty = d.basis[g][w].qty - Lesser(qty, d.basis[g][w].qty)
<1> DEFINE b == d.basis[g][w]
           c == disposeBasis(b, qty, proceeds)
           r == recordGpuDisposal(d, g, w, qty, proceeds)
           take == Lesser(qty, b.qty)
           attr == MulDivFloor(b.cost, take, b.qty)
<1>1. d.basis \in [GpuIds -> [Wallets -> Basis]] /\ b \in Basis
  BY DEF Tables
<1>2. b.qty \in Nat /\ b.cost \in Int /\ b.realized \in Int /\ b.complete \in BOOLEAN
  BY <1>1 DEF Basis
<1>3. take \in Nat /\ take <= b.qty /\ b.qty - take \in Nat /\ (b.qty = 0 => take = 0)
  BY <1>2 DEF Lesser
<1>4. /\ c \in Basis /\ c.complete = b.complete
      /\ b.complete => c.qty = b.qty - take
  <2>1. CASE ~b.complete \/ b.qty = 0
    <3>1. c = b
      BY <2>1 DEF disposeBasis
    <3> QED BY <1>1, <1>2, <1>3, <2>1, <3>1
  <2>2. CASE ~(~b.complete \/ b.qty = 0)
    <3>1. attr \in Int
      <4>1. b.qty \in Nat \ {0}
        BY <1>2, <2>2
      <4>2. b.cost * take \in Int
        BY <1>2, <1>3
      <4> HIDE DEF b, take
      <4> QED BY <4>1, <4>2 DEF MulDivFloor
    <3>2. c = [b EXCEPT !.qty = b.qty - take, !.cost = b.cost - attr,
                        !.realized = b.realized + proceeds - attr]
      BY <1>1, <2>2 DEF disposeBasis, realize, Basis
    <3>3. b.cost - attr \in Int /\ b.realized + proceeds - attr \in Int
      BY <1>2, <3>1
    <3> HIDE DEF c, attr, take
    <3> QED BY <1>1, <1>3, <3>2, <3>3 DEF Basis
  <2> QED BY <2>1, <2>2
<1>5. r = [d EXCEPT !.basis[g][w] = c]
  BY <1>1 DEF recordGpuDisposal, Tables
<1> HIDE DEF r, c, take
<1>6. r \in Tables(S) /\ Recorded(d, r, g, w) /\ r.basis[g][w] = c
  BY <1>4, <1>5, BasisRows
<1> QED BY <1>4, <1>6 DEF r, take

(* handlers/router.ts, Buy and Sell.                                       *)
LEMMA RouterBuyRows ==
  ASSUME NEW S \in SUBSET GpuIds, NEW d \in Tables(S), NEW g \in S, NEW w \in Wallets,
         NEW qty \in Nat, NEW cost \in Int
  PROVE  LET r == Buy(d, g, w, qty, cost)
         IN  /\ r \in Tables(S) /\ Recorded(d, r, g, w)
             /\ r.basis[g][w].qty = d.basis[g][w].qty + qty
             /\ r.basis[g][w].complete = d.basis[g][w].complete
<1> DEFINE m == recordGpuAcquisition(d, g, w, qty, cost)
           r == Buy(d, g, w, qty, cost)
<1>1. /\ m \in Tables(S) /\ Recorded(d, m, g, w)
      /\ m.basis[g][w].qty = d.basis[g][w].qty + qty
      /\ m.basis[g][w].complete = d.basis[g][w].complete
  BY AcquiredRows
<1>2. r = [m EXCEPT !.ok = requireAsset(d, g)] /\ requireAsset(d, g) = d.ok /\ d.ok \in BOOLEAN
  BY DEF Buy, requireAsset, Tables
<1> HIDE DEF m, r
<1>3. /\ r \in Tables(S) /\ r.ok = d.ok /\ r.hookFeeBps = m.hookFeeBps
      /\ r.assets = m.assets /\ r.gpu = m.gpu /\ r.basis = m.basis
  BY <1>1, <1>2 DEF Tables
<1> QED BY <1>1, <1>3 DEF Recorded, r

LEMMA RouterSellRows ==
  ASSUME NEW S \in SUBSET GpuIds, NEW d \in Tables(S), NEW g \in S, NEW w \in Wallets,
         NEW qty \in Nat, NEW proceeds \in Int
  PROVE  LET r == Sell(d, g, w, qty, proceeds)
         IN  /\ r \in Tables(S) /\ Recorded(d, r, g, w)
             /\ r.basis[g][w].complete = d.basis[g][w].complete
             /\ d.basis[g][w].complete =>
                  r.basis[g][w].qty = d.basis[g][w].qty - Lesser(qty, d.basis[g][w].qty)
<1> DEFINE m == recordGpuDisposal(d, g, w, qty, proceeds)
           r == Sell(d, g, w, qty, proceeds)
<1>1. /\ m \in Tables(S) /\ Recorded(d, m, g, w)
      /\ m.basis[g][w].complete = d.basis[g][w].complete
      /\ d.basis[g][w].complete =>
           m.basis[g][w].qty = d.basis[g][w].qty - Lesser(qty, d.basis[g][w].qty)
  BY DisposedRows
<1>2. r = [m EXCEPT !.ok = requireAsset(d, g)] /\ requireAsset(d, g) = d.ok /\ d.ok \in BOOLEAN
  BY DEF Sell, requireAsset, Tables
<1> HIDE DEF m, r
<1>3. /\ r \in Tables(S) /\ r.ok = d.ok /\ r.hookFeeBps = m.hookFeeBps
      /\ r.assets = m.assets /\ r.gpu = m.gpu /\ r.basis = m.basis
  BY <1>1, <1>2 DEF Tables
<1> QED BY <1>1, <1>3 DEF Recorded, r

-----------------------------------------------------------------------------
(* What the handlers of one transaction do together                        *)

(* A leg: from d to r, g's balances by a transfer or g's counters.         *)
LEMMA LegByTransfer ==
  ASSUME NEW S \in SUBSET GpuIds, NEW d \in Tables(S), NEW g \in S, NEW v \in Nat,
         NEW from \in Addresses \cup {Zero}, NEW to \in Addresses, from # to,
         ~({from, to} \subseteq Wallets)
  PROVE  LET r == Transfer(d, g, from, to, v)
         IN  /\ r \in Tables(S) /\ r.basis = d.basis /\ Kept(d, r, g)
             /\ (d.ok /\ (from # Zero => v <= d.gpu[g][from]) => r.ok)
             /\ Counted(d, r, g, 0, 0, 0, 0) /\ Passed(d, r, g, from, to, v)
<1> DEFINE r == Moves(d, g, from, to, v)
<1>1. Transfer(d, g, from, to, v) = r
  BY TransferRows
<1>2. /\ r \in Tables(S) /\ r.basis = d.basis /\ r.assets = d.assets
      /\ r.ok = (d.ok /\ (from # Zero => v <= d.gpu[g][from]))
      /\ r.hookFeeBps = d.hookFeeBps
      /\ \A h \in GpuIds \ {g} : r.gpu[h] = d.gpu[h]
      /\ Passed(d, r, g, from, to, v)
  BY MovedRows
<1>3. d.assets[g] \in AssetRow
  BY DEF Tables
<1> HIDE DEF r
<1>4. Kept(d, r, g) /\ Counted(d, r, g, 0, 0, 0, 0)
  BY <1>2, <1>3 DEF Kept, Counted, AssetRow
<1> QED BY <1>1, <1>2, <1>4

(* Legs compose.                                                           *)
LEMMA LegsCompose ==
  ASSUME NEW S \in SUBSET GpuIds, NEW d \in Tables(S), NEW e \in Tables(S),
         NEW r \in Tables(S), NEW g \in S, Kept(d, e, g), Kept(e, r, g),
         NEW i \in Int, NEW b \in Int, NEW x \in Int, NEW y \in Int,
         NEW j \in Int, NEW c \in Int, NEW u \in Int, NEW z \in Int,
         Counted(d, e, g, i, b, x, y), Counted(e, r, g, j, c, u, z)
  PROVE  Kept(d, r, g) /\ Counted(d, r, g, i + j, b + c, x + u, y + z)
<1>1. DOMAIN d.assets = S /\ DOMAIN e.assets = S /\ d.assets[g] \in AssetRow
  BY DEF Tables
<1>2. Kept(d, r, g)
  BY <1>1 DEF Kept
<1>3. Counted(d, r, g, i + j, b + c, x + u, y + z)
  BY <1>1 DEF Counted, AssetRow
<1> QED BY <1>2, <1>3

(* handlers/hook.ts around a buy: the POL's leg, the backstop's, the       *)
(* credit, and what the manager pays out.                                  *)
LEMMA BuyLogsRows ==
  ASSUME NEW S \in SUBSET GpuIds, NEW d \in Tables(S), NEW g \in S, NEW w \in Wallets,
         NEW p \in Nat, NEW i \in Nat, NEW n \in Nat, NEW b \in Nat, NEW credit \in Nat,
         p = askInventoryGpu[g] - askInventoryGpu'[g],
         i = gpus'[g].totalIssued - gpus[g].totalIssued,
         n = bought(g), b = quoteIssue(market(g), i).base,
         credit = bidInventoryGusd'[g] - bidInventoryGusd[g] - b, i = 0 => b = 0,
         d.ok, p <= d.gpu[g]["vault"], d.gpu[g]["hook"] = 0,
         n <= d.gpu[g]["manager"] + p + i
  PROVE  LET r == BuyLogs(d, g, w)
         IN  /\ r \in Tables(S) /\ r.ok /\ r.basis = d.basis /\ Kept(d, r, g)
             /\ Counted(d, r, g, i, b, credit, -p)
             /\ \A a \in Addresses :
                  r.gpu[g][a] = CASE a = w -> d.gpu[g][a] + n
                                  [] a = "manager" -> d.gpu[g][a] + p + i - n
                                  [] a = "vault" -> d.gpu[g][a] - p
                                  [] OTHER -> d.gpu[g][a]
<1> DEFINE q == quoteIssue(market(g), i)
           d1 == when(p > 0, d,
                   InventoryPulled(Transfer(d, g, "vault", "manager", p), g, p, FALSE))
           minted == Transfer(d1, g, Zero, "hook", i)
           noted == Issued(minted, g, "hook", "hook", i, q.base, q.fee)
           d2 == when(i > 0, d1, Transfer(noted, g, "hook", "manager", i))
           d3 == when(credit > 0, d2, BidCredited(d2, g, credit))
           r == Transfer(d3, g, "manager", w, n)
<1>1. BuyLogs(d, g, w) = r
  BY DEF BuyLogs
<1>2. /\ d.gpu[g] \in [Addresses -> Int] /\ d.assets[g] \in AssetRow /\ g \in GpuIds
      /\ {"manager", "vault", "hook", "router"} \subseteq Addresses /\ w \in Addresses
      /\ Zero \notin Addresses
      /\ w # "manager" /\ w # "vault" /\ w # "hook" /\ w # "router"
      /\ "manager" \notin Wallets /\ "hook" \notin Wallets
  BY AddressesApart DEF Tables
<1>3. /\ d1 \in Tables(S) /\ d1.ok /\ d1.basis = d.basis /\ Kept(d, d1, g)
      /\ Counted(d, d1, g, 0, 0, 0, -p)
      /\ Passed(d, d1, g, "vault", "manager", p)
  <2>1. CASE p > 0
    <3> DEFINE t == Transfer(d, g, "vault", "manager", p)
               u == InventoryPulled(t, g, p, FALSE)
    <3>1. /\ t \in Tables(S) /\ t.basis = d.basis /\ Kept(d, t, g) /\ t.ok
          /\ Counted(d, t, g, 0, 0, 0, 0) /\ Passed(d, t, g, "vault", "manager", p)
      <4>1. /\ "vault" \in Addresses \cup {Zero} /\ "manager" \in Addresses /\ "vault" # "manager"
            /\ ~({"vault", "manager"} \subseteq Wallets) /\ "vault" # Zero
        BY <1>2
      <4>2. d \in Tables(S) /\ g \in S /\ p \in Nat /\ d.ok /\ p <= d.gpu[g]["vault"]
        OBVIOUS
      <4> QED BY <4>1, <4>2, LegByTransfer
    <3> HIDE DEF t
    <3>2. p \in Int /\ -p \in Int
      OBVIOUS
    <3>3. /\ u \in Tables(S) /\ u.ok /\ u.basis = t.basis /\ u.gpu = t.gpu
          /\ Kept(t, u, g) /\ Counted(t, u, g, 0, 0, 0, -p)
      BY <3>1, PullGpuRows
    <3>4. d1 = u
      BY <2>1 DEF when, t
    <3> HIDE DEF d1, u
    <3>5. Kept(d, u, g) /\ Counted(d, u, g, 0 + 0, 0 + 0, 0 + 0, 0 + (-p))
      BY <3>1, <3>2, <3>3, LegsCompose
    <3>6. Counted(d, u, g, 0, 0, 0, -p)
      BY <3>2, <3>5
    <3>7. Passed(d, u, g, "vault", "manager", p)
      BY <3>1, <3>3 DEF Passed
    <3> QED BY <3>1, <3>3, <3>4, <3>5, <3>6, <3>7
  <2>2. CASE ~(p > 0)
    <3>1. p = 0 /\ d1 = d /\ -p = 0
      BY <2>2 DEF when
    <3> HIDE DEF d1
    <3>2. Kept(d, d, g) /\ Counted(d, d, g, 0, 0, 0, 0) /\ Passed(d, d, g, "vault", "manager", 0)
      BY <1>2 DEF Kept, Counted, Passed, AssetRow
    <3> QED BY <3>1, <3>2
  <2> QED BY <2>1, <2>2
<1> HIDE DEF d1
<1>4. /\ d2 \in Tables(S) /\ d2.ok /\ d2.basis = d1.basis /\ Kept(d1, d2, g)
      /\ Counted(d1, d2, g, i, b, 0, 0)
      /\ \A a \in Addresses : d2.gpu[g][a] = d1.gpu[g][a] + (IF a = "manager" THEN i ELSE 0)
  <2>0. d1.gpu[g] \in [Addresses -> Int] /\ d1.assets[g] \in AssetRow
    BY <1>2, <1>3 DEF Tables
  <2>1. CASE i > 0
    <3>1. /\ minted \in Tables(S) /\ minted.basis = d1.basis /\ Kept(d1, minted, g) /\ minted.ok
          /\ Counted(d1, minted, g, 0, 0, 0, 0) /\ Passed(d1, minted, g, Zero, "hook", i)
      <4>1. Zero # "hook" /\ ~({Zero, "hook"} \subseteq Wallets) /\ Zero \in Addresses \cup {Zero}
        BY <1>2
      <4> QED BY <1>2, <1>3, <4>1, LegByTransfer
    <3>2. noted = Noted(minted, g, "hook", i, b)
      BY Zenon DEF Issued, acquires, Noted
    <3> HIDE DEF minted, noted
    <3>3. /\ noted \in Tables(S) /\ noted.ok /\ noted.basis = minted.basis
          /\ noted.gpu = minted.gpu
          /\ Kept(minted, noted, g) /\ Counted(minted, noted, g, i, b, 0, 0)
      BY <3>1, <3>2, NotedRows
    <3> DEFINE t == Transfer(noted, g, "hook", "manager", i)
    <3>4. noted.gpu[g]["hook"] = i
      <4>1. d1.gpu[g]["hook"] = 0
        <5>1. "hook" \in Addresses /\ "hook" # "vault" /\ "hook" # "manager"
          BY <1>2
        <5>2. d1.gpu[g]["hook"] = d.gpu[g]["hook"] + 0 - 0
          BY <1>3, <5>1 DEF Passed
        <5> QED BY <5>2
      <4>2. minted.gpu[g]["hook"] = 0 + i - 0
        BY <1>2, <3>1, <4>1 DEF Passed
      <4> QED BY <3>3, <4>2
    <3>5. /\ t \in Tables(S) /\ t.basis = noted.basis /\ Kept(noted, t, g) /\ t.ok
          /\ Counted(noted, t, g, 0, 0, 0, 0) /\ Passed(noted, t, g, "hook", "manager", i)
      <4>1. /\ "hook" \in Addresses \cup {Zero} /\ "manager" \in Addresses /\ "hook" # "manager"
            /\ ~({"hook", "manager"} \subseteq Wallets) /\ noted.ok /\ i <= noted.gpu[g]["hook"]
        BY <1>2, <3>1, <3>3, <3>4
      <4> QED BY <3>3, <4>1, LegByTransfer
    <3>6. d2 = t
      BY <2>1 DEF when
    <3> HIDE DEF d2, t
    <3>7. Kept(d1, noted, g) /\ Counted(d1, noted, g, 0 + i, 0 + b, 0 + 0, 0 + 0)
      BY <1>3, <3>1, <3>3, LegsCompose
    <3>8. Counted(d1, noted, g, i, b, 0, 0)
      BY <3>7
    <3>9. Kept(d1, t, g) /\ Counted(d1, t, g, i + 0, b + 0, 0 + 0, 0 + 0)
      BY <1>3, <3>3, <3>5, <3>7, <3>8, LegsCompose
    <3>10. Counted(d1, t, g, i, b, 0, 0)
      BY <3>9
    <3>11. \A a \in Addresses : t.gpu[g][a] = d1.gpu[g][a] + (IF a = "manager" THEN i ELSE 0)
      BY <1>2, <2>0, <3>1, <3>3, <3>5 DEF Passed
    <3> QED BY <3>1, <3>3, <3>5, <3>6, <3>9, <3>10, <3>11
  <2>2. CASE ~(i > 0)
    <3>1. i = 0 /\ b = 0 /\ d2 = d1
      BY <2>2 DEF when
    <3> HIDE DEF d2
    <3>2. Kept(d1, d1, g) /\ Counted(d1, d1, g, 0, 0, 0, 0)
      BY <2>0 DEF Kept, Counted, AssetRow
    <3> QED BY <1>3, <2>0, <3>1, <3>2
  <2> QED BY <2>1, <2>2
<1> HIDE DEF d2
<1>5. /\ d3 \in Tables(S) /\ d3.ok /\ d3.basis = d2.basis /\ Kept(d2, d3, g)
      /\ Counted(d2, d3, g, 0, 0, credit, 0) /\ d3.gpu = d2.gpu
  <2>0. d2.assets[g] \in AssetRow
    BY <1>4 DEF Tables
  <2>1. CASE credit > 0
    <3>1. d3 = BidCredited(d2, g, credit)
      BY <2>1 DEF when
    <3> QED BY <1>4, <3>1, CreditRows
  <2>2. CASE ~(credit > 0)
    <3>1. credit = 0 /\ d3 = d2
      BY <2>2 DEF when
    <3> HIDE DEF d3
    <3>2. Kept(d2, d2, g) /\ Counted(d2, d2, g, 0, 0, 0, 0)
      BY <2>0 DEF Kept, Counted, AssetRow
    <3> QED BY <1>4, <3>1, <3>2
  <2> QED BY <2>1, <2>2
<1> HIDE DEF d3
<1>6. \A a \in Addresses :
        d3.gpu[g][a] = CASE a = "manager" -> d.gpu[g][a] + p + i
                         [] a = "vault" -> d.gpu[g][a] - p
                         [] OTHER -> d.gpu[g][a]
  BY <1>2, <1>3, <1>4, <1>5 DEF Passed
<1>7. /\ r \in Tables(S) /\ r.basis = d3.basis /\ Kept(d3, r, g) /\ r.ok
      /\ Counted(d3, r, g, 0, 0, 0, 0) /\ Passed(d3, r, g, "manager", w, n)
  <2>1. n <= d3.gpu[g]["manager"]
    BY <1>2, <1>6
  <2>2. ~({"manager", w} \subseteq Wallets)
    BY <1>2
  <2> QED BY <1>2, <1>5, <2>1, <2>2, LegByTransfer
<1> HIDE DEF r
<1>8. Kept(d, r, g) /\ Counted(d, r, g, i, b, credit, -p)
  <2>1. -p \in Int
    OBVIOUS
  <2>2. Kept(d, d2, g) /\ Counted(d, d2, g, 0 + i, 0 + b, 0 + 0, (-p) + 0)
    BY <1>3, <1>4, <2>1, LegsCompose
  <2>3. Counted(d, d2, g, i, b, 0, -p)
    BY <2>1, <2>2
  <2>4. Kept(d, d3, g) /\ Counted(d, d3, g, i + 0, b + 0, 0 + credit, (-p) + 0)
    BY <1>4, <1>5, <2>1, <2>2, <2>3, LegsCompose
  <2>5. Counted(d, d3, g, i, b, credit, -p)
    BY <2>1, <2>4
  <2>6. Kept(d, r, g) /\ Counted(d, r, g, i + 0, b + 0, credit + 0, (-p) + 0)
    BY <1>5, <1>7, <2>1, <2>4, <2>5, LegsCompose
  <2>7. Counted(d, r, g, i, b, credit, -p)
    BY <2>1, <2>6
  <2> QED BY <2>6, <2>7
<1>9. \A a \in Addresses :
        r.gpu[g][a] = CASE a = w -> d.gpu[g][a] + n
                        [] a = "manager" -> d.gpu[g][a] + p + i - n
                        [] a = "vault" -> d.gpu[g][a] - p
                        [] OTHER -> d.gpu[g][a]
  BY <1>2, <1>6, <1>7 DEF Passed
<1> QED BY <1>1, <1>3, <1>4, <1>5, <1>7, <1>8, <1>9

(* Nothing logged, nothing moved.                                          *)
LEMMA NoLeg ==
  ASSUME NEW S \in SUBSET GpuIds, NEW d \in Tables(S), NEW g \in S
  PROVE  Kept(d, d, g) /\ Counted(d, d, g, 0, 0, 0, 0)
<1>1. d.assets[g] \in AssetRow
  BY DEF Tables
<1> QED BY <1>1 DEF Kept, Counted, AssetRow

(* handlers/issuance.ts around a primary sale: who calls the issuance for  *)
(* itself acquires the units there, the router's buyer by its own event.   *)
LEMMA IssueLogsRows ==
  ASSUME NEW S \in SUBSET GpuIds, NEW d \in Tables(S), NEW g \in S, NEW w \in Wallets,
         NEW n \in Nat, NEW b \in Nat, NEW fee \in Nat, n = bought(g), NEW caller \in {w, "router"},
         b = quoteIssue(market(g), n).base, fee = quoteIssue(market(g), n).fee, d.ok
  PROVE  LET r == IssueLogs(d, g, caller, w)
         IN  /\ r \in Tables(S) /\ r.ok /\ Kept(d, r, g) /\ Counted(d, r, g, n, b, 0, 0)
             /\ \A a \in Addresses : r.gpu[g][a] = d.gpu[g][a] + (IF a = w THEN n ELSE 0)
             /\ \A h \in GpuIds, x \in Wallets : (h = g /\ x = w) \/ r.basis[h][x] = d.basis[h][x]
             /\ r.basis[g][w].complete = d.basis[g][w].complete
             /\ r.basis[g][w].qty
                  = d.basis[g][w].qty + (IF caller = "router" THEN 0 ELSE n)
<1> DEFINE t == Transfer(d, g, Zero, w, n)
           m == Noted(t, g, caller, n, b)
           r == IssueLogs(d, g, caller, w)
<1>1. /\ w \in Addresses /\ Zero \notin Addresses /\ Zero \notin Wallets /\ w # "hook"
      /\ w # "router" /\ Zero # w /\ g \in GpuIds /\ ~({Zero, w} \subseteq Wallets)
      /\ Zero \in Addresses \cup {Zero}
  BY AddressesApart
<1>2. /\ t \in Tables(S) /\ t.basis = d.basis /\ Kept(d, t, g) /\ t.ok
      /\ Counted(d, t, g, 0, 0, 0, 0) /\ Passed(d, t, g, Zero, w, n)
  BY <1>1, LegByTransfer
<1> HIDE DEF t
<1>3. /\ m \in Tables(S) /\ m.ok /\ m.basis = t.basis /\ m.gpu = t.gpu
      /\ Kept(t, m, g) /\ Counted(t, m, g, n, b, 0, 0)
  BY <1>2, NotedRows
<1>4. Issued(t, g, caller, w, n, b, fee)
        = IF acquires(caller) THEN recordGpuAcquisition(m, g, w, n, b + fee) ELSE m
  BY Zenon DEF Issued, Noted
<1>5. r = Issued(t, g, caller, w, n, b, fee)
  BY DEF IssueLogs, t
<1> HIDE DEF m, r
<1>6. Kept(d, m, g) /\ Counted(d, m, g, 0 + n, 0 + b, 0 + 0, 0 + 0)
  BY <1>2, <1>3, LegsCompose
<1>7. Counted(d, m, g, n, b, 0, 0)
  BY <1>6
<1>8. \A a \in Addresses : m.gpu[g][a] = d.gpu[g][a] + (IF a = w THEN n ELSE 0)
  <2>1. d.gpu[g] \in [Addresses -> Int]
    BY <1>1 DEF Tables
  <2> QED BY <1>1, <1>2, <1>3, <2>1 DEF Passed
<1>9. CASE caller = "router"
  <2>1. r = m
    BY <1>4, <1>5, <1>9 DEF acquires
  <2>2. d.basis[g][w].qty + 0 = d.basis[g][w].qty
    BY <1>1 DEF Tables, Basis
  <2> QED BY <1>2, <1>3, <1>6, <1>7, <1>8, <1>9, <2>1, <2>2 DEF r
<1>10. CASE caller # "router"
  <2> DEFINE cost == b + fee
             e == recordGpuAcquisition(m, g, w, n, cost)
  <2>1. r = e
    BY <1>1, <1>4, <1>5, <1>10 DEF acquires
  <2>2. cost \in Int
    OBVIOUS
  <2> HIDE DEF cost
  <2>3. /\ r \in Tables(S) /\ Recorded(m, r, g, w)
        /\ r.basis[g][w].qty = m.basis[g][w].qty + n
        /\ r.basis[g][w].complete = m.basis[g][w].complete
    <3>1. S \in SUBSET GpuIds /\ m \in Tables(S) /\ g \in GpuIds /\ w \in Wallets /\ n \in Nat
      BY <1>1, <1>3
    <3>2. /\ e \in Tables(S) /\ Recorded(m, e, g, w)
          /\ e.basis[g][w].qty = m.basis[g][w].qty + n
          /\ e.basis[g][w].complete = m.basis[g][w].complete
      BY ONLY <3>1, <2>2, AcquiredRows
    <3> HIDE DEF e
    <3> QED BY <2>1, <3>2
  <2> HIDE DEF e
  <2>4. Kept(d, r, g) /\ Counted(d, r, g, n, b, 0, 0) /\ r.ok
    BY <1>3, <1>6, <1>7, <2>3 DEF Kept, Counted, Recorded
  <2>5. /\ \A a \in Addresses : r.gpu[g][a] = d.gpu[g][a] + (IF a = w THEN n ELSE 0)
        /\ \A h \in GpuIds, x \in Wallets : (h = g /\ x = w) \/ r.basis[h][x] = d.basis[h][x]
    BY <1>2, <1>3, <1>8, <2>3 DEF Recorded
  <2> QED BY <1>2, <1>3, <1>10, <2>3, <2>4, <2>5 DEF r
<1> QED BY <1>9, <1>10

(* handlers/hook.ts around a sale: what the wallet pays, through the       *)
(* router or straight, what the inventory notes and what it pays.          *)
LEMMA SellLogsRows ==
  ASSUME NEW S \in SUBSET GpuIds, NEW d \in Tables(S), NEW g \in S, NEW w \in Wallets,
         NEW routed \in BOOLEAN, NEW n \in Nat, NEW y \in Nat, NEW x \in Nat,
         n = -bought(g), y = askInventoryGpu'[g] - askInventoryGpu[g],
         x = bidInventoryGusd[g] - bidInventoryGusd'[g],
         d.ok, n <= d.gpu[g][w], d.gpu[g]["router"] = 0,
         y <= d.gpu[g]["manager"] + (IF routed THEN n ELSE 0)
  PROVE  LET r == SellLogs(d, g, w, routed)
         IN  /\ r \in Tables(S) /\ r.ok /\ r.basis = d.basis /\ Kept(d, r, g)
             /\ Counted(d, r, g, 0, 0, -x, y)
             /\ \A a \in Addresses :
                  r.gpu[g][a] = CASE a = w -> d.gpu[g][a] - n
                                  [] a = "manager" -> d.gpu[g][a] + n - y
                                  [] a = "vault" -> d.gpu[g][a] + y
                                  [] OTHER -> d.gpu[g][a]
<1> DEFINE t == Transfer(d, g, w, "router", n)
           d1 == when(routed, d, Transfer(t, g, "router", "manager", n))
           d2 == when(y > 0, d1, GpuNoted(Transfer(d1, g, "manager", "vault", y), g, y))
           d3 == when(x > 0, d2, InventoryPulled(d2, g, x, TRUE))
           r == when(~routed, d3, Transfer(d3, g, w, "manager", n))
<1>1. SellLogs(d, g, w, routed) = r
  BY Zenon DEF SellLogs
<1>2. /\ d.gpu[g] \in [Addresses -> Int] /\ g \in GpuIds
      /\ {"manager", "vault", "hook", "router"} \subseteq Addresses /\ w \in Addresses
      /\ Zero \notin Addresses /\ "router" \notin Wallets /\ "manager" \notin Wallets
      /\ w # "manager" /\ w # "vault" /\ w # "hook" /\ w # "router"
  BY AddressesApart DEF Tables
<1>3. /\ d1 \in Tables(S) /\ d1.ok /\ d1.basis = d.basis /\ Kept(d, d1, g)
      /\ Counted(d, d1, g, 0, 0, 0, 0)
      /\ \A a \in Addresses :
           d1.gpu[g][a] = IF ~routed THEN d.gpu[g][a]
                          ELSE d.gpu[g][a] + (IF a = "manager" THEN n ELSE 0)
                                 - (IF a = w THEN n ELSE 0)
  <2>1. CASE routed
    <3> DEFINE u == Transfer(t, g, "router", "manager", n)
    <3>1. /\ t \in Tables(S) /\ t.basis = d.basis /\ Kept(d, t, g) /\ t.ok
          /\ Counted(d, t, g, 0, 0, 0, 0) /\ Passed(d, t, g, w, "router", n)
      <4>1. /\ w \in Addresses \cup {Zero} /\ "router" \in Addresses /\ w # "router"
            /\ ~({w, "router"} \subseteq Wallets)
        BY <1>2
      <4> QED BY <4>1, LegByTransfer
    <3> HIDE DEF t
    <3>2. n <= t.gpu[g]["router"]
      <4>1. t.gpu[g]["router"] = 0 + n - 0
        BY <1>2, <3>1 DEF Passed
      <4> QED BY <4>1
    <3>3. /\ u \in Tables(S) /\ u.basis = t.basis /\ Kept(t, u, g) /\ u.ok
          /\ Counted(t, u, g, 0, 0, 0, 0) /\ Passed(t, u, g, "router", "manager", n)
      <4>1. /\ "router" \in Addresses \cup {Zero} /\ "manager" \in Addresses
            /\ "router" # "manager" /\ ~({"router", "manager"} \subseteq Wallets)
        BY <1>2
      <4> QED BY <3>1, <3>2, <4>1, LegByTransfer
    <3>4. d1 = u
      BY <2>1 DEF when
    <3> HIDE DEF d1, u
    <3>5. Kept(d, u, g) /\ Counted(d, u, g, 0 + 0, 0 + 0, 0 + 0, 0 + 0)
      BY <3>1, <3>3, LegsCompose
    <3>6. \A a \in Addresses :
            u.gpu[g][a] = d.gpu[g][a] + (IF a = "manager" THEN n ELSE 0)
                            - (IF a = w THEN n ELSE 0)
      BY <1>2, <3>1, <3>3 DEF Passed
    <3> QED BY <2>1, <3>1, <3>3, <3>4, <3>5, <3>6
  <2>2. CASE ~routed
    <3>1. d1 = d
      BY <2>2 DEF when
    <3> HIDE DEF d1
    <3> QED BY <2>2, <3>1, NoLeg
  <2> QED BY <2>1, <2>2
<1> HIDE DEF d1
<1>4. /\ d2 \in Tables(S) /\ d2.ok /\ d2.basis = d1.basis /\ Kept(d1, d2, g)
      /\ Counted(d1, d2, g, 0, 0, 0, y)
      /\ Passed(d1, d2, g, "manager", "vault", y)
  <2>1. CASE y > 0
    <3> DEFINE u == Transfer(d1, g, "manager", "vault", y)
               v == GpuNoted(u, g, y)
    <3>1. y <= d1.gpu[g]["manager"]
      BY <1>2, <1>3
    <3>2. /\ u \in Tables(S) /\ u.basis = d1.basis /\ Kept(d1, u, g) /\ u.ok
          /\ Counted(d1, u, g, 0, 0, 0, 0) /\ Passed(d1, u, g, "manager", "vault", y)
      <4>1. /\ "manager" \in Addresses \cup {Zero} /\ "vault" \in Addresses
            /\ "manager" # "vault" /\ ~({"manager", "vault"} \subseteq Wallets)
        BY <1>2
      <4> QED BY <1>3, <3>1, <4>1, LegByTransfer
    <3> HIDE DEF u
    <3>3. /\ v \in Tables(S) /\ v.ok /\ v.basis = u.basis /\ v.gpu = u.gpu
          /\ Kept(u, v, g) /\ Counted(u, v, g, 0, 0, 0, y)
      BY <3>2, NoteRows
    <3>4. d2 = v
      BY <2>1 DEF when, u
    <3> HIDE DEF d2, v
    <3>5. Kept(d1, v, g) /\ Counted(d1, v, g, 0 + 0, 0 + 0, 0 + 0, 0 + y)
      BY <1>3, <3>2, <3>3, LegsCompose
    <3>6. Passed(d1, v, g, "manager", "vault", y)
      BY <3>2, <3>3 DEF Passed
    <3> QED BY <3>2, <3>3, <3>4, <3>5, <3>6
  <2>2. CASE ~(y > 0)
    <3>1. y = 0 /\ d2 = d1
      BY <2>2 DEF when
    <3> HIDE DEF d2
    <3>2. d1.gpu[g] \in [Addresses -> Int]
      BY <1>2, <1>3 DEF Tables
    <3>3. Passed(d1, d1, g, "manager", "vault", 0)
      BY <3>2 DEF Passed
    <3> QED BY <1>3, <3>1, <3>3, NoLeg
  <2> QED BY <2>1, <2>2
<1> HIDE DEF d2
<1>5. /\ d3 \in Tables(S) /\ d3.ok /\ d3.basis = d2.basis /\ Kept(d2, d3, g)
      /\ Counted(d2, d3, g, 0, 0, -x, 0) /\ d3.gpu = d2.gpu
  <2>1. CASE x > 0
    <3>1. d3 = InventoryPulled(d2, g, x, TRUE)
      BY <2>1 DEF when
    <3> DEFINE e == InventoryPulled(d2, g, x, TRUE)
    <3>2. /\ e \in Tables(S) /\ (d2.ok => e.ok) /\ e.basis = d2.basis /\ e.gpu = d2.gpu
          /\ Kept(d2, e, g) /\ Counted(d2, e, g, 0, 0, -x, 0)
      BY <1>4, PullGusdRows
    <3> HIDE DEF e, d3
    <3> QED BY <1>4, <3>1, <3>2 DEF e
  <2>2. CASE ~(x > 0)
    <3>1. x = 0 /\ -x = 0 /\ d3 = d2
      BY <2>2 DEF when
    <3> HIDE DEF d3
    <3> QED BY <1>4, <3>1, NoLeg
  <2> QED BY <2>1, <2>2
<1> HIDE DEF d3
<1>6. \A a \in Addresses :
        d3.gpu[g][a] = d1.gpu[g][a] + (IF a = "vault" THEN y ELSE 0)
                         - (IF a = "manager" THEN y ELSE 0)
  BY <1>4, <1>5 DEF Passed
<1>7. /\ r \in Tables(S) /\ r.ok /\ r.basis = d3.basis /\ Kept(d3, r, g)
      /\ Counted(d3, r, g, 0, 0, 0, 0)
      /\ \A a \in Addresses :
           r.gpu[g][a] = IF routed THEN d3.gpu[g][a]
                         ELSE d3.gpu[g][a] + (IF a = "manager" THEN n ELSE 0)
                                - (IF a = w THEN n ELSE 0)
  <2>1. CASE routed
    <3>1. r = d3
      BY <2>1 DEF when
    <3> HIDE DEF r
    <3> QED BY <1>5, <2>1, <3>1, NoLeg
  <2>2. CASE ~routed
    <3>1. r = Transfer(d3, g, w, "manager", n)
      BY <2>2 DEF when
    <3> HIDE DEF r
    <3>2. n <= d3.gpu[g][w]
      <4>1. d1.gpu[g][w] = d.gpu[g][w]
        BY <1>2, <1>3, <2>2
      <4>2. d3.gpu[g][w] = d1.gpu[g][w] + 0 - 0
        BY <1>2, <1>6
      <4> QED BY <1>2, <4>1, <4>2
    <3>3. /\ w \in Addresses \cup {Zero} /\ "manager" \in Addresses /\ w # "manager"
          /\ ~({w, "manager"} \subseteq Wallets)
      BY <1>2
    <3>4. /\ r \in Tables(S) /\ r.ok /\ r.basis = d3.basis /\ Kept(d3, r, g)
          /\ Counted(d3, r, g, 0, 0, 0, 0) /\ Passed(d3, r, g, w, "manager", n)
      BY <1>5, <3>1, <3>2, <3>3, LegByTransfer
    <3> QED BY <2>2, <3>4 DEF Passed
  <2> QED BY <2>1, <2>2
<1> HIDE DEF r
<1>8. Kept(d, r, g) /\ Counted(d, r, g, 0, 0, -x, y)
  <2>1. -x \in Int
    OBVIOUS
  <2>2. Kept(d, d2, g) /\ Counted(d, d2, g, 0 + 0, 0 + 0, 0 + 0, 0 + y)
    BY <1>3, <1>4, LegsCompose
  <2>3. Counted(d, d2, g, 0, 0, 0, y)
    BY <2>2
  <2>4. Kept(d, d3, g) /\ Counted(d, d3, g, 0 + 0, 0 + 0, 0 + (-x), y + 0)
    BY <1>4, <1>5, <2>1, <2>2, <2>3, LegsCompose
  <2>5. Counted(d, d3, g, 0, 0, -x, y)
    BY <2>1, <2>4
  <2>6. Kept(d, r, g) /\ Counted(d, r, g, 0 + 0, 0 + 0, (-x) + 0, y + 0)
    BY <1>5, <1>7, <2>1, <2>4, <2>5, LegsCompose
  <2>7. Counted(d, r, g, 0, 0, -x, y)
    BY <2>1, <2>6
  <2> QED BY <2>6, <2>7
<1>9. \A a \in Addresses :
        r.gpu[g][a] = CASE a = w -> d.gpu[g][a] - n
                        [] a = "manager" -> d.gpu[g][a] + n - y
                        [] a = "vault" -> d.gpu[g][a] + y
                        [] OTHER -> d.gpu[g][a]
  BY <1>2, <1>3, <1>6, <1>7
<1> QED BY <1>1, <1>3, <1>4, <1>5, <1>7, <1>8, <1>9

-----------------------------------------------------------------------------
(* What a step moves of the market of g: i issued for b, c credited to the *)
(* bid inventory, y to the ask inventory and m to the manager.             *)
Traded(g, i, b, c, y, m) ==
  /\ g \in Created
  /\ gpus'[g].created /\ gpus'[g].enabled = gpus[g].enabled /\ gpus'[g].feeBps = gpus[g].feeBps
  /\ gpus'[g].totalIssued = gpus[g].totalIssued + i
  /\ bidInventoryGusd'[g] = bidInventoryGusd[g] + b + c
  /\ askInventoryGpu'[g] = askInventoryGpu[g] + y
  /\ gpu'[g]["manager"] = gpu[g]["manager"] + m
  /\ gpu'[g]["vault"] = gpu[g]["vault"] + y
  /\ bought(g) = i - y - m
  /\ \A h \in GpuIds \ {g} :
       /\ gpus'[h] = gpus[h] /\ gpu'[h] = gpu[h]
       /\ bidInventoryGusd'[h] = bidInventoryGusd[h] /\ askInventoryGpu'[h] = askInventoryGpu[h]
  /\ pools' = pools /\ hookFeeBps' = hookFeeBps

(* A buy: p of the inventory, i of the issuance, q of the native book.     *)
BuyTraded(g, p, i, q, b, c) ==
  /\ Traded(g, i, b, c, -p, -q)
  /\ b = quoteIssue(market(g), i).base /\ (i = 0 => b = 0)
  /\ p <= gpu[g]["vault"] /\ q <= gpu[g]["manager"]

(* The types of what the lemmas below read.                                *)
LEMMA MarketShape ==
  ASSUME BooksExact
  PROVE  /\ gpus \in [GpuIds -> [created : BOOLEAN, enabled : BOOLEAN, feeBps : 0..MaxIssuanceFee,
                                 totalIssued : Nat]]
         /\ bidInventoryGusd \in [GpuIds -> Nat] /\ askInventoryGpu \in [GpuIds -> Nat]
         /\ gpu \in [GpuIds -> [{"traders", "manager", "vault"} -> Nat]]
         /\ pools \subseteq GpuIds
         /\ \A g \in GpuIds : gpu[g]["vault"] = askInventoryGpu[g]
         /\ TypeOK
BY DEF BooksExact, TypeOK, InventoryBacked, GpuHolders

LEMMA FillTraded ==
  ASSUME Inv, NEW g \in Created, NEW f, SoundBuy(market(g), f),
         f.base = quoteIssue(market(g), f.issueGpu).base,
         NEW n \in Nat, NEW q \in Nat, buyFill(g, f, n, q)
  PROVE  BuyTraded(g, f.polGpu, f.issueGpu, q, f.base, f.bidIn)
<1>1. /\ gpus \in [GpuIds -> [created : BOOLEAN, enabled : BOOLEAN, feeBps : 0..MaxIssuanceFee,
                              totalIssued : Nat]]
      /\ bidInventoryGusd \in [GpuIds -> Nat] /\ askInventoryGpu \in [GpuIds -> Nat]
      /\ gpu \in [GpuIds -> [{"traders", "manager", "vault"} -> Nat]]
      /\ gpu[g]["vault"] = askInventoryGpu[g] /\ TypeOK /\ g \in GpuIds /\ gpus[g].created
  BY MarketShape DEF Inv, Created
<1>2. /\ f.polGpu \in Nat /\ f.issueGpu \in Nat /\ f.polGpu <= askInventoryGpu[g]
      /\ f.base \in Nat /\ f.bidIn \in Nat
  BY <1>1, MarketTyped DEF SoundBuy
<1>3. /\ q <= gpu[g]["manager"]
      /\ gpus' = issued(g, f.issueGpu)
      /\ gpu' = [gpu EXCEPT ![g]["traders"] = @ + q + f.polGpu + f.issueGpu,
                        ![g]["manager"] = @ - q,
                        ![g]["vault"] = @ - f.polGpu]
      /\ bidInventoryGusd' = [bidInventoryGusd EXCEPT ![g] = @ + f.base + f.bidIn]
      /\ askInventoryGpu' = [askInventoryGpu EXCEPT ![g] = @ - f.polGpu]
      /\ pools' = pools /\ hookFeeBps' = hookFeeBps
  BY DEF buyFill, settingVars
<1> DEFINE p == f.polGpu
           i == f.issueGpu
           b == f.base
           c == f.bidIn
<1>4. /\ gpus'[g].created /\ gpus'[g].enabled = gpus[g].enabled /\ gpus'[g].feeBps = gpus[g].feeBps
      /\ gpus'[g].totalIssued = gpus[g].totalIssued + i
      /\ \A h \in GpuIds \ {g} : gpus'[h] = gpus[h]
  BY <1>1, <1>3 DEF issued
<1>5. i = 0 => b = 0
  <2>1. ASSUME i = 0 PROVE quoteIssue(market(g), i).base = 0
    <3>1. quoteIssue(market(g), i).base = MulDivCeil(i, market(g).price, CD)
      BY DEF quoteIssue
    <3>2. market(g).price \in Nat /\ CD \in Nat \ {0}
      BY <1>1, MarketTyped, MarketFields, Constants
    <3>3. MulDivCeil(0, market(g).price, CD) = 0
      BY <3>2 DEF MulDivCeil
    <3> QED BY <2>1, <3>1, <3>3
  <2> QED BY <2>1
<1> HIDE DEF p, i, b, c
<1>6. /\ gpu'[g]["traders"] = gpu[g]["traders"] + q + p + i
      /\ gpu'[g]["manager"] = gpu[g]["manager"] - q
      /\ gpu'[g]["vault"] = gpu[g]["vault"] - p
      /\ \A h \in GpuIds \ {g} : gpu'[h] = gpu[h]
  BY <1>1, <1>3 DEF p, i
<1>7. /\ bidInventoryGusd'[g] = bidInventoryGusd[g] + b + c
      /\ askInventoryGpu'[g] = askInventoryGpu[g] - p
      /\ \A h \in GpuIds \ {g} : /\ bidInventoryGusd'[h] = bidInventoryGusd[h]
                                 /\ askInventoryGpu'[h] = askInventoryGpu[h]
  BY <1>1, <1>3 DEF p, b, c
<1>8. /\ p \in Nat /\ i \in Nat /\ b \in Nat /\ c \in Nat /\ p <= askInventoryGpu[g]
      /\ gpu[g]["traders"] \in Nat /\ gpu[g]["manager"] \in Nat /\ gpu[g]["vault"] \in Nat
      /\ askInventoryGpu[g] \in Nat
  BY <1>1, <1>2 DEF p, i, b, c
<1>9. /\ gpu'[g]["manager"] = gpu[g]["manager"] + (-q)
      /\ gpu'[g]["vault"] = gpu[g]["vault"] + (-p)
      /\ askInventoryGpu'[g] = askInventoryGpu[g] + (-p)
      /\ bought(g) = i - (-p) - (-q)
  BY <1>6, <1>7, <1>8 DEF bought
<1>10. Traded(g, i, b, c, -p, -q)
  BY <1>3, <1>4, <1>6, <1>7, <1>9 DEF Traded
<1>11. b = quoteIssue(market(g), i).base
  BY DEF b, i
<1> QED BY <1>1, <1>3, <1>5, <1>8, <1>10, <1>11 DEF BuyTraded, p, i, b, c

(* A fill's base is the issuance's price of what is minted.                *)
LEMMA FillPriced ==
  ASSUME NEW s, NEW a
  PROVE  /\ settleBuyIn(s, a).base = quoteIssue(s, settleBuyIn(s, a).issueGpu).base
         /\ settleBuyOut(s, a).base = quoteIssue(s, settleBuyOut(s, a).issueGpu).base
<1>1. ASSUME NEW y, NEW z, NEW hf, NEW tail, NEW charge, NEW pays
      PROVE  buyFilled(rungs(s, y, z), hf, tail, charge, pays).base
               = quoteIssue(s, buyFilled(rungs(s, y, z), hf, tail, charge, pays).issueGpu).base
  <2> DEFINE L == rungs(s, y, z)
  <2>1. L.base = quoteIssue(s, z).base /\ L.issueGpu = z
    BY DEF rungs
  <2> HIDE DEF L
  <2>2. /\ buyFilled(L, hf, tail, charge, pays).base = L.base
        /\ buyFilled(L, hf, tail, charge, pays).issueGpu = L.issueGpu
    BY DEF buyFilled
  <2> QED BY <2>1, <2>2 DEF L
<1>2. settleBuyIn(s, a).base = quoteIssue(s, settleBuyIn(s, a).issueGpu).base
  <2> DEFINE hf == Lesser(hookFee(s, a), a)
             L == buyLadder(s, a - hf, MaxUint)
             y == Lesser(polAsk(s, MaxUint), gpuFor(a - hf, denomAsk(s)))
             z == backstopGpu(s, MaxUint - y, a - hf - polSpend(s, y))
  <2>1. L = rungs(s, y, z)
    BY DEF buyLadder, ladderFrom
  <2>2. settleBuyIn(s, a)
          = buyFilled(L, hf, a - hf - (L.polSpend + L.total), a, a)
    BY DEF settleBuyIn, buyInFill
  <2> HIDE DEF L, hf, y, z
  <2> QED BY <1>1, <2>1, <2>2
<1>3. settleBuyOut(s, a).base = quoteIssue(s, settleBuyOut(s, a).issueGpu).base
  <2> DEFINE y == polAsk(s, a)
             L == rungs(s, y, a - y)
             charge == L.polSpend + L.total
  <2>1. settleBuyOut(s, a)
          = buyFilled(L, hookFee(s, charge), 0, charge, charge + hookFee(s, charge))
    BY DEF settleBuyOut, buyOutFill
  <2> HIDE DEF charge, y
  <2> QED BY <1>1, <2>1
<1> QED BY <1>2, <1>3

(* The two buys and the primary sale.                                      *)
LEMMA BuyInTraded ==
  ASSUME Inv, NEW g \in GpuIds, NEW x \in Nat, NEW prepaid \in BOOLEAN, NEW w \in 0..x, NEW n \in w..x,
         NEW lps \in BOOLEAN, swapBuyIn(g, x, prepaid, w, n, lps)
  PROVE  \E p, i, q, b, c \in Nat : BuyTraded(g, p, i, q, b, c)
<1> DEFINE pm == gusd["manager"] + (IF prepaid THEN x ELSE 0)
           absorb == Lesser(x - n, pm)
           f == settleBuyIn(market(g), absorb)
           q == nativeGpuOut(g, n)
<1>1. TypeOK /\ CreatedFirst /\ n \in Nat
  BY DEF Inv, BooksExact
<1>2. absorb \in Nat
  <2>1. gusd["manager"] \in Nat
    BY <1>1 DEF TypeOK, GusdHolders
  <2>2. pm \in Nat /\ x - n \in Nat
    BY <2>1
  <2> QED
    BY <2>2 DEF Lesser
<1>3. g \in pools /\ buyFill(g, f, n, q)
  BY DEF swapBuyIn
<1> HIDE DEF absorb
<1>4. SoundBuy(market(g), f)
  BY <1>1, <1>2, MarketTyped, BuyInSound
<1>5. f.base = quoteIssue(market(g), f.issueGpu).base
  BY FillPriced
<1> HIDE DEF f
<1>6. q \in Nat
  BY <1>1, NativeNat
<1> HIDE DEF q
<1>7. g \in Created
  BY <1>1, <1>3 DEF CreatedFirst
<1>8. BuyTraded(g, f.polGpu, f.issueGpu, q, f.base, f.bidIn)
  BY <1>1, <1>3, <1>4, <1>5, <1>6, <1>7, FillTraded
<1>9. f.polGpu \in Nat /\ f.issueGpu \in Nat /\ f.base \in Nat /\ f.bidIn \in Nat
  BY <1>4 DEF SoundBuy
<1> QED BY <1>6, <1>8, <1>9

LEMMA BuyOutTraded ==
  ASSUME Inv, NEW g \in GpuIds, NEW y \in Nat, NEW prepay \in Nat, NEW w \in 0..y,
         NEW lps \in BOOLEAN, swapBuyOut(g, y, prepay, w, lps)
  PROVE  g \in pools /\ \E p, i, q, b, c \in Nat : BuyTraded(g, p, i, q, b, c)
<1> DEFINE plan == IF w < y THEN planBuyOut(market(g), y - w, gusd["manager"] + prepay, lps) ELSE NoPlan
           k == plan.commit
           f == settleBuyOut(market(g), k)
           n == nativeGusdIn(g, y - k)
           q == y - k
<1>1. TypeOK /\ CreatedFirst /\ market(g) \in Markets
  BY MarketTyped DEF Inv, BooksExact
<1>2. k \in Nat /\ k <= y
  <2>1. CASE w < y
    <3>1. y - w \in Nat /\ gusd["manager"] + prepay \in Nat /\ y - w <= y
      BY <1>1, <2>1 DEF TypeOK, GusdHolders
    <3>2. planBuyOut(market(g), y - w, gusd["manager"] + prepay, lps).commit \in Nat
      BY <1>1, <3>1, BuyOutPlan
    <3>3. planBuyOut(market(g), y - w, gusd["manager"] + prepay, lps).commit <= y - w
      BY <1>1, <3>1, BuyOutPlan
    <3> QED
      BY <2>1, <3>1, <3>2, <3>3
  <2>2. CASE ~(w < y)
    BY <2>2 DEF NoPlan
  <2> QED
    BY <2>1, <2>2
<1>3. g \in pools /\ buyFill(g, f, n, q)
  BY DEF swapBuyOut, settledBuyOut
<1> HIDE DEF k, plan
<1>4. SoundBuy(market(g), f)
  BY <1>1, <1>2, BuyOutSound
<1>5. f.base = quoteIssue(market(g), f.issueGpu).base
  BY FillPriced
<1> HIDE DEF f
<1>6. q \in Nat /\ n \in Nat
  BY <1>1, <1>2, NativeNat
<1> HIDE DEF n, q
<1>7. g \in Created
  BY <1>1, <1>3 DEF CreatedFirst
<1>8. BuyTraded(g, f.polGpu, f.issueGpu, q, f.base, f.bidIn)
  BY <1>3, <1>4, <1>5, <1>6, <1>7, FillTraded
<1>9. f.polGpu \in Nat /\ f.issueGpu \in Nat /\ f.base \in Nat /\ f.bidIn \in Nat
  BY <1>4 DEF SoundBuy
<1> QED BY <1>3, <1>6, <1>8, <1>9

LEMMA SaleTraded ==
  ASSUME Inv, NEW g \in GpuIds, NEW y \in Nat, issue(g, y)
  PROVE  /\ quoteIssue(market(g), y).base \in Nat /\ quoteIssue(market(g), y).fee \in Nat
         /\ Traded(g, y, quoteIssue(market(g), y).base, 0, 0, 0)
<1> DEFINE b == quoteIssue(market(g), y).base
<1>1. /\ gpus \in [GpuIds -> [created : BOOLEAN, enabled : BOOLEAN, feeBps : 0..MaxIssuanceFee,
                              totalIssued : Nat]]
      /\ bidInventoryGusd \in [GpuIds -> Nat] /\ askInventoryGpu \in [GpuIds -> Nat]
      /\ gpu \in [GpuIds -> [{"traders", "manager", "vault"} -> Nat]] /\ TypeOK
  BY MarketShape DEF Inv
<1>2. b \in Nat /\ quoteIssue(market(g), y).fee \in Nat
  BY <1>1, MarketTyped, QuoteCovers
<1>3. /\ g \in Created
      /\ gpus' = issued(g, y)
      /\ bidInventoryGusd' = [bidInventoryGusd EXCEPT ![g] = @ + b]
      /\ gpu' = [gpu EXCEPT ![g]["traders"] = @ + y]
      /\ askInventoryGpu' = askInventoryGpu
      /\ pools' = pools /\ hookFeeBps' = hookFeeBps
  BY DEF issue, settingVars
<1> HIDE DEF b
<1>4. gpus[g].created
  BY <1>3 DEF Created
<1>5. /\ gpus'[g].created /\ gpus'[g].enabled = gpus[g].enabled /\ gpus'[g].feeBps = gpus[g].feeBps
      /\ gpus'[g].totalIssued = gpus[g].totalIssued + y
      /\ \A h \in GpuIds \ {g} : gpus'[h] = gpus[h]
  BY <1>1, <1>3, <1>4 DEF issued
<1>6. /\ gpu'[g]["traders"] = gpu[g]["traders"] + y
      /\ gpu'[g]["manager"] = gpu[g]["manager"] + 0
      /\ gpu'[g]["vault"] = gpu[g]["vault"] + 0
      /\ gpu[g]["traders"] \in Nat
      /\ \A h \in GpuIds \ {g} : gpu'[h] = gpu[h]
  BY <1>1, <1>3
<1>7. /\ bidInventoryGusd'[g] = bidInventoryGusd[g] + b + 0
      /\ askInventoryGpu'[g] = askInventoryGpu[g] + 0
      /\ \A h \in GpuIds \ {g} : /\ bidInventoryGusd'[h] = bidInventoryGusd[h]
                                 /\ askInventoryGpu'[h] = askInventoryGpu[h]
  BY <1>1, <1>2, <1>3
<1>8. bought(g) = y - 0 - 0
  BY <1>6 DEF bought
<1>9. Traded(g, y, b, 0, 0, 0)
  BY <1>3, <1>5, <1>6, <1>7, <1>8 DEF Traded
<1> QED BY <1>2, <1>9 DEF b

-----------------------------------------------------------------------------
(* A sale of n in all: y to the inventory, which pays x, the rest native.  *)
SaleOf(g, n, y, x) == Traded(g, 0, 0, -x, y, n - y) /\ bought(g) = -n

LEMMA SellFillTraded ==
  ASSUME Inv, NEW g \in Created, NEW f, SoundSell(market(g), f),
         NEW n \in Nat, NEW q \in Nat, sellFill(g, f, n, q)
  PROVE  SaleOf(g, n + f.gpuIn, f.gpuIn, f.bidOut)
<1>1. /\ gpus \in [GpuIds -> [created : BOOLEAN, enabled : BOOLEAN, feeBps : 0..MaxIssuanceFee,
                              totalIssued : Nat]]
      /\ bidInventoryGusd \in [GpuIds -> Nat] /\ askInventoryGpu \in [GpuIds -> Nat]
      /\ gpu \in [GpuIds -> [{"traders", "manager", "vault"} -> Nat]]
      /\ g \in GpuIds /\ gpus[g].created
  BY MarketShape DEF Inv, Created
<1>2. f.gpuIn \in Nat /\ f.bidOut \in Nat
  BY DEF SoundSell
<1>3. /\ gpus' = gpus
      /\ gpu' = [gpu EXCEPT ![g]["traders"] = @ - n - f.gpuIn,
                            ![g]["manager"] = @ + n,
                            ![g]["vault"] = @ + f.gpuIn]
      /\ bidInventoryGusd' = [bidInventoryGusd EXCEPT ![g] = @ - f.bidOut]
      /\ askInventoryGpu' = [askInventoryGpu EXCEPT ![g] = @ + f.gpuIn]
      /\ pools' = pools /\ hookFeeBps' = hookFeeBps
  BY DEF sellFill, settingVars, issuanceVars
<1> DEFINE y == f.gpuIn
           x == f.bidOut
<1>4. y \in Nat /\ x \in Nat
  BY <1>2
<1>5. /\ gpu'[g]["traders"] = gpu[g]["traders"] - n - y
      /\ gpu'[g]["manager"] = gpu[g]["manager"] + n
      /\ gpu'[g]["vault"] = gpu[g]["vault"] + y
      /\ \A h \in GpuIds \ {g} : gpu'[h] = gpu[h]
  BY <1>1, <1>3
<1>6. /\ bidInventoryGusd'[g] = bidInventoryGusd[g] - x
      /\ askInventoryGpu'[g] = askInventoryGpu[g] + y
      /\ \A h \in GpuIds \ {g} : /\ bidInventoryGusd'[h] = bidInventoryGusd[h]
                                 /\ askInventoryGpu'[h] = askInventoryGpu[h]
  BY <1>1, <1>3
<1> HIDE DEF x, y
<1>7. /\ gpu[g]["traders"] \in Nat /\ gpu[g]["manager"] \in Nat /\ bidInventoryGusd[g] \in Nat
      /\ gpus[g].totalIssued \in Nat
  BY <1>1
<1>8. /\ bought(g) = 0 - y - ((n + y) - y) /\ bought(g) = -(n + y)
      /\ gpu'[g]["manager"] = gpu[g]["manager"] + ((n + y) - y)
      /\ bidInventoryGusd'[g] = bidInventoryGusd[g] + 0 + (-x)
      /\ gpus'[g].totalIssued = gpus[g].totalIssued + 0
  BY <1>3, <1>4, <1>5, <1>6, <1>7 DEF bought
<1>9. Traded(g, 0, 0, -x, y, (n + y) - y)
  BY <1>1, <1>3, <1>5, <1>6, <1>8 DEF Traded
<1> QED BY <1>8, <1>9 DEF SaleOf, x, y

LEMMA SellInTraded ==
  ASSUME Inv, NEW g \in GpuIds, NEW y \in Nat, NEW prepaid \in BOOLEAN, NEW w \in 0..y,
         NEW n \in w..y, NEW lps \in BOOLEAN, swapSellIn(g, y, prepaid, w, n, lps)
  PROVE  \E m, v, x \in Nat :
           /\ SaleOf(g, m, v, x) /\ (prepaid => m = y)
           /\ v <= gpu[g]["manager"] + (IF prepaid THEN m ELSE 0)
<1> DEFINE pm == gpu[g]["manager"] + (IF prepaid THEN y ELSE 0)
           absorb == Lesser(y - n, pm)
           f == settleSellIn(market(g), absorb)
<1>1. TypeOK /\ CreatedFirst /\ n \in Nat /\ n <= y /\ gpu[g]["manager"] \in Nat
  BY Balances DEF Inv, BooksExact
<1>2. /\ absorb \in Nat /\ absorb <= pm
      /\ prepaid => n + absorb = y /\ absorb <= y
  BY <1>1 DEF Lesser
<1>3. g \in pools /\ sellFill(g, f, n, nativeGusdOut(g, n)) /\ f.gpuIn = absorb
  BY DEF swapSellIn, settleSellIn
<1>4. ~prepaid => pm = gpu[g]["manager"]
  BY <1>1
<1> HIDE DEF absorb, pm
<1>5. SoundSell(market(g), f)
  BY <1>1, <1>2, MarketTyped, SellInSound
<1> HIDE DEF f
<1>6. nativeGusdOut(g, n) \in Nat /\ g \in Created
  BY <1>1, <1>3, NativeNat DEF CreatedFirst
<1>7. SaleOf(g, n + f.gpuIn, f.gpuIn, f.bidOut)
  BY <1>1, <1>3, <1>5, <1>6, SellFillTraded
<1>8. f.bidOut \in Nat /\ n + absorb \in Nat
  BY <1>1, <1>2, <1>5 DEF SoundSell
<1>9. absorb <= gpu[g]["manager"] + (IF prepaid THEN n + absorb ELSE 0)
  BY <1>1, <1>2, <1>4
<1> QED BY <1>2, <1>3, <1>7, <1>8, <1>9

LEMMA SellOutTraded ==
  ASSUME Inv, NEW g \in GpuIds, NEW x \in Nat, NEW w \in 0..x,
         NEW lps \in BOOLEAN, swapSellOut(g, x, 0, w, lps)
  PROVE  \E m, v, z \in Nat : SaleOf(g, m, v, z) /\ v <= gpu[g]["manager"]
<1> DEFINE m == market(g)
           plan == IF w < x THEN planSellOut(m, x - w, gpu[g]["manager"] + 0, lps) ELSE NoPlan
           c == plan.commit
           f == settleSellOut(m, c)
           n == nativeGpuIn(g, x - c)
<1>1. BooksExact /\ TypeOK /\ CreatedFirst /\ m \in Markets /\ gpu[g]["manager"] \in Nat
  BY MarketTyped, Balances DEF Inv, BooksExact
<1>2. c \in Nat /\ c <= x /\ grossOf(m, c) <= m.capLeft
  <2>1. CASE w < x
    <3>1. x - w \in Nat /\ gpu[g]["manager"] + 0 \in Nat /\ x - w <= x
      BY <1>1, <2>1
    <3> DEFINE k == planSellOut(m, x - w, gpu[g]["manager"] + 0, lps).commit
    <3>2. k \in Nat /\ k <= x - w /\ grossOf(m, k) <= m.capLeft
      BY <1>1, <3>1, SellOutPlan
    <3>3. c = k
      BY <2>1
    <3> HIDE DEF k, c, m
    <3> QED
      BY <3>1, <3>2, <3>3
  <2>2. CASE ~(w < x)
    <3>1. c = 0
      BY <2>2 DEF NoPlan
    <3>2. polFee(m, 0) <= 0 /\ hookFee(m, 0) <= 0 /\ polFee(m, 0) \in Nat /\ hookFee(m, 0) \in Nat
      BY <1>1, FeesWithin
    <3>3. grossOf(m, 0) = 0 /\ m.capLeft \in Nat
      BY <1>1, <3>2, MarketFields DEF grossOf
    <3> HIDE DEF c, m
    <3> QED
      BY <3>1, <3>3
  <2> QED
    BY <2>1, <2>2
<1>3. /\ g \in pools /\ sellFill(g, f, n, x - c)
      /\ f.gpuIn <= gpu[g]["manager"] + 0
  BY DEF swapSellOut, settledSellOut
<1> HIDE DEF c, plan
<1>4. SoundSell(m, f)
  BY <1>1, <1>2, SellOutSound
<1> HIDE DEF f
<1>5. x - c \in Nat /\ n \in Nat /\ g \in Created
  BY <1>1, <1>2, <1>3, NativeNat DEF CreatedFirst
<1> HIDE DEF n
<1>6. SaleOf(g, n + f.gpuIn, f.gpuIn, f.bidOut)
  BY <1>3, <1>4, <1>5, SellFillTraded
<1>7. f.gpuIn \in Nat /\ f.bidOut \in Nat /\ n + f.gpuIn \in Nat /\ f.gpuIn <= gpu[g]["manager"]
  BY <1>1, <1>3, <1>4, <1>5 DEF SoundSell
<1> QED BY <1>6, <1>7

LEMMA LiquidityTraded ==
  ASSUME Inv, NEW g \in GpuIds, NEW in \in BOOLEAN, NEW x \in Nat, NEW y \in Nat,
         modifyLiquidity(g, in, x, y)
  PROVE  /\ in => Traded(g, 0, 0, 0, 0, y) /\ bought(g) = -y
         /\ ~in => Traded(g, 0, 0, 0, 0, -y) /\ bought(g) = y /\ y <= gpu[g]["manager"]
<1> DEFINE from == IF in THEN "traders" ELSE "manager"
           to == IF in THEN "manager" ELSE "traders"
<1>1. /\ gpus \in [GpuIds -> [created : BOOLEAN, enabled : BOOLEAN, feeBps : 0..MaxIssuanceFee,
                              totalIssued : Nat]]
      /\ bidInventoryGusd \in [GpuIds -> Nat] /\ askInventoryGpu \in [GpuIds -> Nat]
      /\ gpu \in [GpuIds -> [{"traders", "manager", "vault"} -> Nat]]
  BY MarketShape DEF Inv
<1>2. /\ g \in pools /\ y <= gpu[g][from]
      /\ gpu' = [gpu EXCEPT ![g][from] = @ - y, ![g][to] = @ + y]
      /\ gpus' = gpus /\ bidInventoryGusd' = bidInventoryGusd
      /\ askInventoryGpu' = askInventoryGpu /\ pools' = pools /\ hookFeeBps' = hookFeeBps
  BY DEF modifyLiquidity, issuanceVars, vaultVars, settingVars
<1>3. g \in Created /\ gpus[g].created
  BY <1>2 DEF Inv, CreatedFirst, Created
<1>4. /\ gpu'[g][from] = gpu[g][from] - y /\ gpu'[g][to] = gpu[g][to] + y
      /\ gpu'[g]["vault"] = gpu[g]["vault"]
      /\ \A h \in GpuIds \ {g} : gpu'[h] = gpu[h]
  BY <1>1, <1>2
<1>5. /\ gpu[g]["traders"] \in Nat /\ gpu[g]["manager"] \in Nat /\ bidInventoryGusd[g] \in Nat
      /\ gpu[g]["vault"] \in Nat
      /\ askInventoryGpu[g] \in Nat /\ gpus[g].totalIssued \in Nat
  BY <1>1
<1>6. /\ gpus'[g].totalIssued = gpus[g].totalIssued + 0
      /\ bidInventoryGusd'[g] = bidInventoryGusd[g] + 0 + 0
      /\ askInventoryGpu'[g] = askInventoryGpu[g] + 0
      /\ \A h \in GpuIds \ {g} :
           /\ gpus'[h] = gpus[h] /\ gpu'[h] = gpu[h]
           /\ bidInventoryGusd'[h] = bidInventoryGusd[h] /\ askInventoryGpu'[h] = askInventoryGpu[h]
      /\ gpus'[g].created /\ gpus'[g].enabled = gpus[g].enabled /\ gpus'[g].feeBps = gpus[g].feeBps
      /\ pools' = pools /\ hookFeeBps' = hookFeeBps
  <2>1. /\ gpus[g].totalIssued = gpus[g].totalIssued + 0
        /\ bidInventoryGusd[g] = bidInventoryGusd[g] + 0 + 0
        /\ askInventoryGpu[g] = askInventoryGpu[g] + 0
    BY <1>5
  <2> HIDE DEF from, to
  <2> QED BY <1>2, <1>3, <1>4, <2>1, Zenon
<1>7. CASE in
  <2>1. /\ gpu'[g]["manager"] = gpu[g]["manager"] + y
        /\ gpu'[g]["vault"] = gpu[g]["vault"] + 0
        /\ bought(g) = 0 - 0 - y /\ bought(g) = -y
    BY <1>4, <1>5, <1>7 DEF bought
  <2>2. Traded(g, 0, 0, 0, 0, y)
    BY <1>3, <1>6, <2>1, Zenon DEF Traded
  <2> QED BY <1>7, <2>1, <2>2
<1>8. CASE ~in
  <2>1. /\ gpu'[g]["manager"] = gpu[g]["manager"] + (-y)
        /\ gpu'[g]["vault"] = gpu[g]["vault"] + 0
        /\ bought(g) = 0 - 0 - (-y) /\ bought(g) = y /\ y <= gpu[g]["manager"]
    BY <1>2, <1>4, <1>5, <1>8 DEF bought
  <2>2. Traded(g, 0, 0, 0, 0, -y)
    BY <1>3, <1>6, <2>1, Zenon DEF Traded
  <2> QED BY <1>8, <2>1, <2>2
<1> QED BY <1>7, <1>8

-----------------------------------------------------------------------------
(* The tables beside the market                                            *)

RowMatches(g) ==
  LET row == tables.assets[g]
  IN  /\ row.issuedGpu = gpus[g].totalIssued
      /\ row.issuanceEnabled = gpus[g].enabled /\ row.issuanceFeeBps = gpus[g].feeBps
      /\ row.canonicalPool <=> g \in pools
      /\ row.polGpu = askInventoryGpu[g]
      /\ row.polGusd + row.principalContributedGusd = bidInventoryGusd[g]

BalancesMatch(g) ==
  \A a \in Addresses :
    tables.gpu[g][a] = CASE a \in Wallets -> held[g][a]
                         [] a \in {"manager", "vault"} -> gpu[g][a]
                         [] OTHER -> 0

(* What the handlers keep true, of the GPUs not created too.               *)
Mirrored ==
  /\ Inv
  /\ tables \in Tables(Created) /\ tables.ok
  /\ held \in [GpuIds -> [Wallets -> Nat]] /\ offBook \in [GpuIds -> SUBSET Wallets]
  /\ tables.hookFeeBps \in {Null, hookFeeBps}
  /\ \A g \in Created : RowMatches(g)
  /\ \A g \in GpuIds : BalancesMatch(g)
  /\ \A g \in GpuIds \ Created : bidInventoryGusd[g] = 0 /\ askInventoryGpu[g] = 0
  /\ BasisIsHolding

(* What the events of a trade of g by w did to the tables.                 *)
Logged(r, g, w, i, b, c, y, m) ==
  /\ r \in Tables(Created) /\ r.ok /\ Kept(tables, r, g) /\ Counted(tables, r, g, i, b, c, y)
  /\ \A a \in Addresses :
       r.gpu[g][a] = tables.gpu[g][a] + (IF a = w THEN i - y - m
                                         ELSE IF a = "manager" THEN m
                                         ELSE IF a = "vault" THEN y ELSE 0)

(* A basis that still counts counted before, and moved with the holding.   *)
BasisFollows(r, g, w) ==
  /\ offBook' \in [GpuIds -> SUBSET Wallets]
  /\ \A h \in GpuIds, x \in Wallets :
       r.basis[h][x].complete /\ x \notin offBook'[h] =>
         /\ tables.basis[h][x].complete /\ x \notin offBook[h]
         /\ r.basis[h][x].qty = tables.basis[h][x].qty + (IF h = g /\ x = w THEN bought(g) ELSE 0)

LEMMA TradeFollows ==
  ASSUME Mirrored, Inv', NEW g \in GpuIds, NEW w \in Wallets,
         NEW i \in Int, NEW b \in Int, NEW c \in Int, NEW y \in Int, NEW m \in Int,
         Traded(g, i, b, c, y, m), Logged(tables', g, w, i, b, c, y, m),
         owns(g, w), BasisFollows(tables', g, w)
  PROVE  Mirrored'
<1>1. /\ gpus \in [GpuIds -> [created : BOOLEAN, enabled : BOOLEAN, feeBps : 0..MaxIssuanceFee,
                              totalIssued : Nat]]
      /\ bidInventoryGusd \in [GpuIds -> Nat] /\ askInventoryGpu \in [GpuIds -> Nat]
      /\ gpu \in [GpuIds -> [{"traders", "manager", "vault"} -> Nat]]
      /\ tables \in Tables(Created) /\ held \in [GpuIds -> [Wallets -> Nat]]
  BY MarketShape DEF Mirrored, Inv
<1>2. /\ g \in Created /\ gpus'[g].created
      /\ \A h \in GpuIds \ {g} :
           /\ gpus'[h] = gpus[h] /\ gpu'[h] = gpu[h]
           /\ bidInventoryGusd'[h] = bidInventoryGusd[h] /\ askInventoryGpu'[h] = askInventoryGpu[h]
      /\ pools' = pools /\ hookFeeBps' = hookFeeBps /\ bought(g) = i - y - m
  BY DEF Traded
<1>3. Created' = Created
  BY <1>2 DEF Created
<1>4. tables' \in Tables(Created') /\ tables'.ok
  BY <1>3 DEF Logged
<1>5. /\ held' = [held EXCEPT ![g][w] = held[g][w] + bought(g)] /\ held'[g][w] >= 0
  BY DEF owns
<1>6. /\ held'[g][w] = held[g][w] + bought(g) /\ held[g][w] \in Nat
      /\ \A h \in GpuIds, x \in Wallets : (h = g /\ x = w) \/ held'[h][x] = held[h][x]
  BY <1>1, <1>5
<1>7. held' \in [GpuIds -> [Wallets -> Nat]]
  <2>1. held[g][w] + bought(g) \in Nat
    BY <1>2, <1>5, <1>6
  <2> QED BY <1>1, <1>5, <2>1
<1>8. tables'.hookFeeBps \in {Null, hookFeeBps'}
  BY <1>2 DEF Mirrored, Logged, Kept
<1>9. \A h \in Created' : RowMatches(h)'
  <2>1. RowMatches(g) /\ tables.assets[g] \in AssetRow
    BY <1>1, <1>2 DEF Mirrored, Tables
  <2>2. /\ Counted(tables, tables', g, i, b, c, y) /\ Kept(tables, tables', g)
    BY DEF Logged
  <2>3. /\ gpus'[g].totalIssued = gpus[g].totalIssued + i
        /\ gpus'[g].enabled = gpus[g].enabled /\ gpus'[g].feeBps = gpus[g].feeBps
        /\ bidInventoryGusd'[g] = bidInventoryGusd[g] + b + c
        /\ askInventoryGpu'[g] = askInventoryGpu[g] + y
    BY DEF Traded
  <2>4. RowMatches(g)'
    <3>1. /\ tables'.assets[g].issuedGpu = gpus'[g].totalIssued
          /\ tables'.assets[g].polGpu = askInventoryGpu'[g]
          /\ tables'.assets[g].issuanceEnabled = gpus'[g].enabled
          /\ tables'.assets[g].issuanceFeeBps = gpus'[g].feeBps
      BY <2>1, <2>2, <2>3 DEF RowMatches, Counted, Kept
    <3>2. tables'.assets[g].canonicalPool <=> g \in pools'
      BY <1>2, <2>1, <2>2 DEF RowMatches, Kept
    <3>3. tables'.assets[g].polGusd + tables'.assets[g].principalContributedGusd
            = bidInventoryGusd'[g]
      BY <2>1, <2>2, <2>3 DEF RowMatches, Counted, AssetRow
    <3> QED BY <3>1, <3>2, <3>3 DEF RowMatches
  <2>5. ASSUME NEW h \in Created \ {g} PROVE RowMatches(h)'
    <3>1. h \in GpuIds /\ DOMAIN tables.assets = Created /\ RowMatches(h)
      BY <1>1 DEF Created, Tables, Mirrored
    <3>2. tables'.assets[h] = tables.assets[h]
      BY <2>2, <3>1 DEF Kept
    <3> QED BY <1>2, <3>1, <3>2 DEF RowMatches
  <2> QED BY <1>3, <2>4, <2>5
<1>10. \A h \in GpuIds : BalancesMatch(h)'
  <2>1. BalancesMatch(g) /\ \A h \in GpuIds : BalancesMatch(h)
    BY DEF Mirrored
  <2>2. /\ gpu'[g]["manager"] = gpu[g]["manager"] + m
        /\ gpu'[g]["vault"] = gpu[g]["vault"] + y
    BY DEF Traded
  <2>3. ASSUME NEW a \in Addresses
        PROVE  tables'.gpu[g][a] = CASE a \in Wallets -> held'[g][a]
                                     [] a \in {"manager", "vault"} -> gpu'[g][a]
                                     [] OTHER -> 0
    <3>1. tables'.gpu[g][a] = tables.gpu[g][a] + (IF a = w THEN i - y - m
                                                  ELSE IF a = "manager" THEN m
                                                  ELSE IF a = "vault" THEN y ELSE 0)
      BY DEF Logged
    <3>2. tables.gpu[g][a] = CASE a \in Wallets -> held[g][a]
                               [] a \in {"manager", "vault"} -> gpu[g][a]
                               [] OTHER -> 0
      BY <2>1 DEF BalancesMatch
    <3>3. CASE a = w
      <4>1. a \in Wallets /\ a # "manager" /\ a # "vault"
        BY <3>3, AddressesApart
      <4>2. held'[g][w] = held[g][w] + (i - y - m)
        BY <1>2, <1>6
      <4> QED BY <3>1, <3>2, <3>3, <4>1, <4>2
    <3>4. CASE a \in Wallets \ {w}
      <4>1. a # "manager" /\ a # "vault" /\ held'[g][a] = held[g][a] /\ held[g][a] \in Nat
        BY <1>1, <1>6, <3>4, AddressesApart
      <4> QED BY <3>1, <3>2, <3>4, <4>1
    <3>5. CASE a \notin Wallets
      <4>1. a # w /\ gpu[g]["manager"] \in Nat /\ gpu[g]["vault"] \in Nat
        BY <1>1, <3>5
      <4>2. CASE a = "manager"
        BY <2>2, <3>1, <3>2, <3>5, <4>1, <4>2
      <4>3. CASE a = "vault"
        BY <2>2, <3>1, <3>2, <3>5, <4>1, <4>3
      <4>4. CASE a \notin {"manager", "vault"}
        BY <3>1, <3>2, <3>5, <4>1, <4>4
      <4> QED BY <4>2, <4>3, <4>4
    <3> QED BY <3>3, <3>4, <3>5
  <2>4. ASSUME NEW h \in GpuIds \ {g} PROVE BalancesMatch(h)'
    <3>1. tables'.gpu[h] = tables.gpu[h]
      BY DEF Logged, Kept
    <3>2. \A x \in Wallets : held'[h][x] = held[h][x]
      BY <1>6
    <3> QED BY <1>2, <2>1, <3>1, <3>2 DEF BalancesMatch
  <2>5. BalancesMatch(g)'
    BY <2>3 DEF BalancesMatch
  <2> QED BY <2>4, <2>5
<1>11. \A h \in GpuIds \ Created' : bidInventoryGusd'[h] = 0 /\ askInventoryGpu'[h] = 0
  BY <1>2, <1>3 DEF Mirrored
<1>12. BasisIsHolding'
  <2>1. ASSUME NEW h \in GpuIds, NEW x \in Wallets,
               tables'.basis[h][x].complete, x \notin offBook'[h]
        PROVE  tables'.basis[h][x].qty = held'[h][x]
    <3>1. /\ tables.basis[h][x].complete /\ x \notin offBook[h]
          /\ tables'.basis[h][x].qty
               = tables.basis[h][x].qty + (IF h = g /\ x = w THEN bought(g) ELSE 0)
      BY <2>1 DEF BasisFollows
    <3>2. tables.basis[h][x].qty = held[h][x] /\ held[h][x] \in Nat
      BY <1>1, <3>1 DEF Mirrored, BasisIsHolding
    <3> QED BY <1>6, <3>1, <3>2
  <2> QED BY <2>1 DEF BasisIsHolding
<1>13. offBook' \in [GpuIds -> SUBSET Wallets]
  BY DEF BasisFollows
<1> QED BY <1>4, <1>7, <1>8, <1>9, <1>10, <1>11, <1>12, <1>13 DEF Mirrored

-----------------------------------------------------------------------------
(* A trade, event by event                                                 *)

(* What the tables' balances of a GPU are.                                 *)
LEMMA MirroredBalances ==
  ASSUME Mirrored, NEW g \in GpuIds
  PROVE  /\ tables.gpu[g]["vault"] = gpu[g]["vault"] /\ gpu[g]["vault"] \in Nat
         /\ tables.gpu[g]["manager"] = gpu[g]["manager"] /\ gpu[g]["manager"] \in Nat
         /\ tables.gpu[g]["hook"] = 0 /\ tables.gpu[g]["router"] = 0
         /\ \A w \in Wallets : tables.gpu[g][w] = held[g][w] /\ held[g][w] \in Nat
<1>1. /\ gpu \in [GpuIds -> [{"traders", "manager", "vault"} -> Nat]]
      /\ held \in [GpuIds -> [Wallets -> Nat]] /\ BalancesMatch(g)
  BY MarketShape DEF Mirrored, Inv
<1>2. /\ "manager" \notin Wallets /\ "vault" \notin Wallets /\ "hook" \notin Wallets
      /\ "router" \notin Wallets /\ {"manager", "vault", "hook", "router"} \subseteq Addresses
      /\ Wallets \subseteq Addresses
  BY AddressesApart
<1>3. ASSUME NEW w \in Wallets PROVE tables.gpu[g][w] = held[g][w]
  <2>1. w \in Addresses /\ w # "manager" /\ w # "vault"
    BY <1>2
  <2> QED BY <1>1, <2>1 DEF BalancesMatch
<1>4. /\ tables.gpu[g]["vault"] = gpu[g]["vault"]
      /\ tables.gpu[g]["manager"] = gpu[g]["manager"]
  BY <1>1, <1>2 DEF BalancesMatch
<1>5. tables.gpu[g]["hook"] = 0 /\ tables.gpu[g]["router"] = 0
  BY <1>1, <1>2 DEF BalancesMatch
<1>6. \A w \in Wallets : held[g][w] \in Nat
  BY <1>1
<1> QED BY <1>1, <1>3, <1>4, <1>5, <1>6

(* A basis written after the events' other handlers.                       *)
LEMMA LoggedRecorded ==
  ASSUME Mirrored, NEW g \in Created, NEW w \in Wallets, NEW to \in Wallets, NEW e, NEW r,
         NEW i, NEW b, NEW c, NEW y, NEW m,
         Logged(e, g, w, i, b, c, y, m), r \in Tables(Created), Recorded(e, r, g, to)
  PROVE  Logged(r, g, w, i, b, c, y, m)
BY ZenonT(90) DEF Logged, Kept, Counted, Recorded

LEMMA BuyLogged ==
  ASSUME Mirrored, NEW g \in GpuIds, NEW w \in Wallets,
         NEW p \in Nat, NEW i \in Nat, NEW q \in Nat, NEW b \in Nat, NEW c \in Nat,
         BuyTraded(g, p, i, q, b, c)
  PROVE  LET r == BuyLogs(tables, g, w)
         IN  Logged(r, g, w, i, b, c, -p, -q) /\ r.basis = tables.basis
<1> DEFINE n == bought(g)
           r == BuyLogs(tables, g, w)
<1>1. /\ Traded(g, i, b, c, -p, -q) /\ b = quoteIssue(market(g), i).base /\ (i = 0 => b = 0)
      /\ p <= gpu[g]["vault"] /\ q <= gpu[g]["manager"]
  BY DEF BuyTraded
<1>2. /\ gpus[g].totalIssued \in Nat /\ bidInventoryGusd[g] \in Nat /\ askInventoryGpu[g] \in Nat
      /\ Created \in SUBSET GpuIds /\ tables \in Tables(Created) /\ tables.ok /\ g \in Created
  BY <1>1, MarketShape DEF Mirrored, Inv, Created, Traded
<1>3. /\ gpus'[g].totalIssued = gpus[g].totalIssued + i
      /\ bidInventoryGusd'[g] = bidInventoryGusd[g] + b + c
      /\ askInventoryGpu'[g] = askInventoryGpu[g] + (-p)
      /\ n = i - (-p) - (-q)
  BY <1>1 DEF Traded
<1>4. /\ p = askInventoryGpu[g] - askInventoryGpu'[g]
      /\ i = gpus'[g].totalIssued - gpus[g].totalIssued
      /\ c = bidInventoryGusd'[g] - bidInventoryGusd[g] - b
      /\ n \in Nat /\ n = i + p + q
  BY <1>2, <1>3
<1>5. /\ p <= tables.gpu[g]["vault"] /\ tables.gpu[g]["hook"] = 0
      /\ n <= tables.gpu[g]["manager"] + p + i
      /\ tables.gpu[g] \in [Addresses -> Int]
  BY <1>1, <1>2, <1>4, MirroredBalances DEF Tables
<1>6. n = bought(g)
  OBVIOUS
<1> HIDE DEF n
<1>7. /\ r \in Tables(Created) /\ r.ok /\ r.basis = tables.basis /\ Kept(tables, r, g)
      /\ Counted(tables, r, g, i, b, c, -p)
      /\ \A a \in Addresses :
           r.gpu[g][a] = CASE a = w -> tables.gpu[g][a] + n
                           [] a = "manager" -> tables.gpu[g][a] + p + i - n
                           [] a = "vault" -> tables.gpu[g][a] - p
                           [] OTHER -> tables.gpu[g][a]
  BY <1>1, <1>2, <1>4, <1>5, <1>6, BuyLogsRows
<1> HIDE DEF r
<1>8. ASSUME NEW a \in Addresses
      PROVE  r.gpu[g][a] = tables.gpu[g][a] + (IF a = w THEN i - (-p) - (-q)
                                               ELSE IF a = "manager" THEN -q
                                               ELSE IF a = "vault" THEN -p ELSE 0)
  <2>1. tables.gpu[g][a] \in Int /\ w # "manager" /\ w # "vault"
    BY <1>5, AddressesApart
  <2> QED BY <1>4, <1>7, <2>1
<1>9. Logged(r, g, w, i, b, c, -p, -q)
  BY <1>7, <1>8 DEF Logged
<1> QED BY <1>7, <1>9 DEF r

LEMMA SaleLogged ==
  ASSUME Mirrored, NEW g \in GpuIds, NEW w \in Wallets, NEW caller \in {w, "router"},
         NEW y \in Nat, issue(g, y)
  PROVE  LET r == IssueLogs(tables, g, caller, w)
             b == quoteIssue(market(g), y).base
         IN  /\ Logged(r, g, w, y, b, 0, 0, 0) /\ b \in Nat /\ Traded(g, y, b, 0, 0, 0)
             /\ bought(g) = y
             /\ \A h \in GpuIds, x \in Wallets :
                  (h = g /\ x = w) \/ r.basis[h][x] = tables.basis[h][x]
             /\ r.basis[g][w].complete = tables.basis[g][w].complete
             /\ r.basis[g][w].qty
                  = tables.basis[g][w].qty + (IF caller = "router" THEN 0 ELSE y)
<1> DEFINE r == IssueLogs(tables, g, caller, w)
           b == quoteIssue(market(g), y).base
           fee == quoteIssue(market(g), y).fee
<1>1. b \in Nat /\ fee \in Nat /\ Traded(g, y, b, 0, 0, 0)
  BY SaleTraded DEF Mirrored
<1>2. /\ Created \in SUBSET GpuIds /\ tables \in Tables(Created) /\ tables.ok /\ g \in Created
      /\ tables.gpu[g] \in [Addresses -> Int]
  BY <1>1 DEF Mirrored, Created, Traded, Tables
<1>3. bought(g) = y
  BY <1>1 DEF Traded
<1>4. b = quoteIssue(market(g), y).base /\ fee = quoteIssue(market(g), y).fee
  OBVIOUS
<1> HIDE DEF b, fee
<1>5. /\ r \in Tables(Created) /\ r.ok /\ Kept(tables, r, g) /\ Counted(tables, r, g, y, b, 0, 0)
      /\ \A a \in Addresses : r.gpu[g][a] = tables.gpu[g][a] + (IF a = w THEN y ELSE 0)
      /\ \A h \in GpuIds, x \in Wallets :
           (h = g /\ x = w) \/ r.basis[h][x] = tables.basis[h][x]
      /\ r.basis[g][w].complete = tables.basis[g][w].complete
      /\ r.basis[g][w].qty
           = tables.basis[g][w].qty + (IF caller = "router" THEN 0 ELSE y)
  BY <1>1, <1>2, <1>3, <1>4, IssueLogsRows
<1> HIDE DEF r
<1>6. \A a \in Addresses :
        r.gpu[g][a] = tables.gpu[g][a] + (IF a = w THEN y - 0 - 0
                                          ELSE IF a = "manager" THEN 0
                                          ELSE IF a = "vault" THEN 0 ELSE 0)
  BY <1>2, <1>5
<1>7. Logged(r, g, w, y, b, 0, 0, 0)
  BY <1>5, <1>6 DEF Logged
<1> QED BY <1>1, <1>3, <1>4, <1>5, <1>7 DEF r, b

LEMMA SellLogged ==
  ASSUME Mirrored, NEW g \in GpuIds, NEW w \in Wallets, NEW routed \in BOOLEAN,
         NEW n \in Nat, NEW y \in Nat, NEW x \in Nat, SaleOf(g, n, y, x),
         y <= gpu[g]["manager"] + (IF routed THEN n ELSE 0), owns(g, w)
  PROVE  LET r == SellLogs(tables, g, w, routed)
         IN  Logged(r, g, w, 0, 0, -x, y, n - y) /\ r.basis = tables.basis
<1> DEFINE r == SellLogs(tables, g, w, routed)
<1>1. Traded(g, 0, 0, -x, y, n - y) /\ bought(g) = -n
  BY DEF SaleOf
<1>2. /\ bidInventoryGusd[g] \in Nat /\ askInventoryGpu[g] \in Nat
      /\ Created \in SUBSET GpuIds /\ tables \in Tables(Created) /\ tables.ok /\ g \in Created
      /\ tables.gpu[g] \in [Addresses -> Int] /\ held \in [GpuIds -> [Wallets -> Nat]]
  BY <1>1, MarketShape DEF Mirrored, Inv, Created, Traded, Tables
<1>3. /\ bidInventoryGusd'[g] = bidInventoryGusd[g] + 0 + (-x)
      /\ askInventoryGpu'[g] = askInventoryGpu[g] + y
  BY <1>1 DEF Traded
<1>4. /\ n = -bought(g) /\ y = askInventoryGpu'[g] - askInventoryGpu[g]
      /\ x = bidInventoryGusd[g] - bidInventoryGusd'[g]
  BY <1>1, <1>2, <1>3
<1>5. n <= held[g][w]
  <2>1. held'[g][w] = held[g][w] + bought(g) /\ held'[g][w] >= 0
    BY <1>2 DEF owns
  <2> QED BY <1>1, <1>2, <2>1
<1>6. /\ n <= tables.gpu[g][w] /\ tables.gpu[g]["router"] = 0
      /\ y <= tables.gpu[g]["manager"] + (IF routed THEN n ELSE 0)
  BY <1>5, MirroredBalances
<1>7. /\ r \in Tables(Created) /\ r.ok /\ r.basis = tables.basis /\ Kept(tables, r, g)
      /\ Counted(tables, r, g, 0, 0, -x, y)
      /\ \A a \in Addresses :
           r.gpu[g][a] = CASE a = w -> tables.gpu[g][a] - n
                           [] a = "manager" -> tables.gpu[g][a] + n - y
                           [] a = "vault" -> tables.gpu[g][a] + y
                           [] OTHER -> tables.gpu[g][a]
  BY <1>2, <1>4, <1>6, SellLogsRows
<1> HIDE DEF r
<1>8. ASSUME NEW a \in Addresses
      PROVE  r.gpu[g][a] = tables.gpu[g][a] + (IF a = w THEN 0 - y - (n - y)
                                               ELSE IF a = "manager" THEN n - y
                                               ELSE IF a = "vault" THEN y ELSE 0)
  <2>1. tables.gpu[g][a] \in Int /\ w # "manager" /\ w # "vault"
    BY <1>2, AddressesApart
  <2> QED BY <1>7, <2>1
<1>9. Logged(r, g, w, 0, 0, -x, y, n - y)
  BY <1>7, <1>8 DEF Logged
<1> QED BY <1>7, <1>9 DEF r

(* The bases of a trade whose events name the trader, and of one past them.*)
LEMMA Attributed ==
  ASSUME Mirrored, NEW g \in GpuIds, NEW w \in Wallets, NEW r, attributed,
         \A h \in GpuIds, x \in Wallets : (h = g /\ x = w) \/ r.basis[h][x] = tables.basis[h][x],
         r.basis[g][w].complete =>
           /\ tables.basis[g][w].complete
           /\ r.basis[g][w].qty = tables.basis[g][w].qty + bought(g)
  PROVE  BasisFollows(r, g, w)
<1>1. /\ offBook' = offBook /\ offBook \in [GpuIds -> SUBSET Wallets]
      /\ \A h \in GpuIds, x \in Wallets : tables.basis[h][x].qty \in Nat
  BY DEF attributed, Mirrored, Tables, Basis
<1>2. ASSUME NEW h \in GpuIds, NEW x \in Wallets, r.basis[h][x].complete, x \notin offBook'[h]
      PROVE  /\ tables.basis[h][x].complete /\ x \notin offBook[h]
             /\ r.basis[h][x].qty
                  = tables.basis[h][x].qty + (IF h = g /\ x = w THEN bought(g) ELSE 0)
  <2>1. CASE h = g /\ x = w
    BY <1>1, <1>2, <2>1
  <2>2. CASE ~(h = g /\ x = w)
    <3>1. r.basis[h][x] = tables.basis[h][x] /\ tables.basis[h][x].qty \in Nat
      BY <1>1, <2>2
    <3> QED BY <1>1, <1>2, <2>2, <3>1
  <2> QED BY <2>1, <2>2
<1> QED BY <1>1, <1>2 DEF BasisFollows

LEMMA Unattributed ==
  ASSUME Mirrored, NEW g \in GpuIds, NEW w \in Wallets, NEW r,
         NEW ws \in SUBSET Wallets, w \in ws, unattributed(g, ws),
         \A h \in GpuIds, x \in Wallets :
           (h = g /\ x \in ws) \/ r.basis[h][x] = tables.basis[h][x]
  PROVE  BasisFollows(r, g, w)
<1>1. /\ offBook' = [offBook EXCEPT ![g] = @ \cup ws] /\ offBook \in [GpuIds -> SUBSET Wallets]
      /\ \A h \in GpuIds, x \in Wallets : tables.basis[h][x].qty \in Nat
  BY DEF unattributed, Mirrored, Tables, Basis
<1>2. /\ offBook' \in [GpuIds -> SUBSET Wallets]
      /\ \A h \in GpuIds, x \in Wallets :
           x \notin offBook'[h] => x \notin offBook[h] /\ ~(h = g /\ x \in ws)
  BY <1>1
<1>3. ASSUME NEW h \in GpuIds, NEW x \in Wallets, r.basis[h][x].complete, x \notin offBook'[h]
      PROVE  /\ tables.basis[h][x].complete /\ x \notin offBook[h]
             /\ r.basis[h][x].qty
                  = tables.basis[h][x].qty + (IF h = g /\ x = w THEN bought(g) ELSE 0)
  <2>1. ~(h = g /\ x \in ws) /\ x \notin offBook[h]
    BY <1>2, <1>3
  <2>2. r.basis[h][x] = tables.basis[h][x] /\ tables.basis[h][x].qty \in Nat
    BY <1>1, <2>1
  <2> QED BY <1>3, <2>1, <2>2
<1> QED BY <1>2, <1>3 DEF BasisFollows

LEMMA PaidInt ==
  ASSUME Inv, Inv'
  PROVE  paid \in Int
<1>1. gusd \in [GusdHolders -> Nat] /\ gusd' \in [GusdHolders -> Nat]
  BY DEF Inv, BooksExact, TypeOK
<1> QED BY <1>1 DEF paid, GusdHolders

(* A buy through the router, in a pool.                                    *)
LEMMA RoutedBuyFollows ==
  ASSUME Mirrored, Inv', NEW g \in GpuIds, NEW w \in Wallets,
         NEW p \in Nat, NEW i \in Nat, NEW q \in Nat, NEW b \in Nat, NEW c \in Nat,
         BuyTraded(g, p, i, q, b, c), owns(g, w), attributed,
         tables' = Buy(BuyLogs(tables, g, w), g, w, bought(g), paid)
  PROVE  Mirrored'
<1> DEFINE e == BuyLogs(tables, g, w)
           n == bought(g)
<1>1. Logged(e, g, w, i, b, c, -p, -q) /\ e.basis = tables.basis
  BY BuyLogged
<1>2. Traded(g, i, b, c, -p, -q) /\ g \in Created /\ n = i - (-p) - (-q)
  BY DEF BuyTraded, Traded
<1>3. n \in Nat /\ paid \in Int
  BY <1>2, PaidInt DEF Mirrored
<1>4. e \in Tables(Created) /\ Created \in SUBSET GpuIds /\ n = bought(g)
  BY <1>1 DEF Logged, Created
<1> HIDE DEF e, n
<1>5. /\ tables' \in Tables(Created) /\ Recorded(e, tables', g, w)
      /\ tables'.basis[g][w].qty = e.basis[g][w].qty + n
      /\ tables'.basis[g][w].complete = e.basis[g][w].complete
  <2>1. tables' = Buy(e, g, w, n, paid)
    BY DEF e, n
  <2> HIDE DEF Buy
  <2> DEFINE r == Buy(e, g, w, n, paid)
  <2>2. /\ r \in Tables(Created) /\ Recorded(e, r, g, w)
        /\ r.basis[g][w].qty = e.basis[g][w].qty + n
        /\ r.basis[g][w].complete = e.basis[g][w].complete
    BY <1>2, <1>3, <1>4, RouterBuyRows
  <2> HIDE DEF r
  <2> QED BY <2>1, <2>2 DEF r
<1>6. Logged(tables', g, w, i, b, c, -p, -q)
  BY <1>1, <1>2, <1>5, LoggedRecorded
<1>7. BasisFollows(tables', g, w)
  <2>1. \A h \in GpuIds, x \in Wallets :
          (h = g /\ x = w) \/ tables'.basis[h][x] = tables.basis[h][x]
    BY <1>1, <1>5 DEF Recorded
  <2> QED BY <1>1, <1>4, <1>5, <2>1, Attributed
<1>8. i \in Int /\ b \in Int /\ c \in Int /\ -p \in Int /\ -q \in Int
  OBVIOUS
<1> QED BY <1>2, <1>6, <1>7, <1>8, TradeFollows

(* From the pool manager directly.                                         *)
LEMMA DirectBuyFollows ==
  ASSUME Mirrored, Inv', NEW g \in GpuIds, NEW w \in Wallets,
         NEW p \in Nat, NEW i \in Nat, NEW q \in Nat, NEW b \in Nat, NEW c \in Nat,
         BuyTraded(g, p, i, q, b, c), owns(g, w), unattributed(g, {w}),
         tables' = BuyLogs(tables, g, w)
  PROVE  Mirrored'
<1>1. Logged(tables', g, w, i, b, c, -p, -q) /\ tables'.basis = tables.basis
  BY BuyLogged
<1>2. Traded(g, i, b, c, -p, -q)
  BY DEF BuyTraded
<1>3. BasisFollows(tables', g, w)
  BY <1>1, Unattributed
<1>4. i \in Int /\ b \in Int /\ c \in Int /\ -p \in Int /\ -q \in Int
  OBVIOUS
<1> QED BY <1>1, <1>2, <1>3, <1>4, TradeFollows

(* Outside the pools the router's buy is a primary sale.                   *)
LEMMA RoutedSaleFollows ==
  ASSUME Mirrored, Inv', NEW g \in GpuIds, NEW w \in Wallets, NEW y \in Nat,
         issue(g, y), owns(g, w), attributed,
         tables' = Buy(IssueLogs(tables, g, "router", w), g, w, bought(g), paid)
  PROVE  Mirrored'
<1> DEFINE e == IssueLogs(tables, g, "router", w)
           b == quoteIssue(market(g), y).base
<1>1. /\ Logged(e, g, w, y, b, 0, 0, 0) /\ b \in Nat /\ Traded(g, y, b, 0, 0, 0)
      /\ bought(g) = y
      /\ \A h \in GpuIds, x \in Wallets :
           (h = g /\ x = w) \/ e.basis[h][x] = tables.basis[h][x]
      /\ e.basis[g][w].complete = tables.basis[g][w].complete
      /\ e.basis[g][w].qty = tables.basis[g][w].qty + 0
  BY SaleLogged
<1>2. /\ e \in Tables(Created) /\ Created \in SUBSET GpuIds /\ g \in Created /\ paid \in Int
      /\ tables.basis[g][w].qty \in Nat
  BY <1>1, PaidInt DEF Logged, Created, Traded, Mirrored, Tables, Basis
<1> HIDE DEF e, b
<1>3. /\ tables' \in Tables(Created) /\ Recorded(e, tables', g, w)
      /\ tables'.basis[g][w].qty = e.basis[g][w].qty + y
      /\ tables'.basis[g][w].complete = e.basis[g][w].complete
  <2>1. tables' = Buy(e, g, w, y, paid)
    BY <1>1 DEF e
  <2> DEFINE r == Buy(e, g, w, y, paid)
  <2>2. /\ r \in Tables(Created) /\ Recorded(e, r, g, w)
        /\ r.basis[g][w].qty = e.basis[g][w].qty + y
        /\ r.basis[g][w].complete = e.basis[g][w].complete
    BY <1>2, RouterBuyRows
  <2> HIDE DEF r
  <2> QED BY <2>1, <2>2 DEF r
<1>4. Logged(tables', g, w, y, b, 0, 0, 0)
  BY <1>1, <1>2, <1>3, LoggedRecorded
<1>5. BasisFollows(tables', g, w)
  <2>1. \A h \in GpuIds, x \in Wallets :
          (h = g /\ x = w) \/ tables'.basis[h][x] = tables.basis[h][x]
    BY <1>1, <1>3 DEF Recorded
  <2>2. tables'.basis[g][w].qty = tables.basis[g][w].qty + bought(g)
    BY <1>1, <1>2, <1>3
  <2> QED BY <1>1, <1>3, <2>1, <2>2, Attributed
<1>6. y \in Int /\ b \in Int /\ 0 \in Int
  BY <1>1
<1> QED BY <1>1, <1>4, <1>5, <1>6, TradeFollows

(* A sale by the issuance itself.                                          *)
LEMMA SaleFollows ==
  ASSUME Mirrored, Inv', NEW g \in GpuIds, NEW w \in Wallets, NEW y \in Nat,
         issue(g, y), owns(g, w), attributed, tables' = IssueLogs(tables, g, w, w)
  PROVE  Mirrored'
<1> DEFINE b == quoteIssue(market(g), y).base
<1>1. w # "router"
  BY AddressesApart
<1>2. /\ Logged(tables', g, w, y, b, 0, 0, 0) /\ b \in Nat /\ Traded(g, y, b, 0, 0, 0)
      /\ bought(g) = y
      /\ \A h \in GpuIds, x \in Wallets :
           (h = g /\ x = w) \/ tables'.basis[h][x] = tables.basis[h][x]
      /\ tables'.basis[g][w].complete = tables.basis[g][w].complete
      /\ tables'.basis[g][w].qty = tables.basis[g][w].qty + y
  <2> w \in {w, "router"}
    OBVIOUS
  <2> QED BY <1>1, SaleLogged
<1> HIDE DEF b
<1>3. BasisFollows(tables', g, w)
  BY <1>2, Attributed
<1>4. y \in Int /\ b \in Int /\ 0 \in Int
  BY <1>2
<1> QED BY <1>2, <1>3, <1>4, TradeFollows

(* A sale through the router, logged under its recipient.                  *)
LEMMA RoutedSellFollows ==
  ASSUME Mirrored, Inv', NEW g \in GpuIds, NEW w \in Wallets, NEW to \in Wallets,
         NEW n \in Nat, NEW y \in Nat, NEW x \in Nat, SaleOf(g, n, y, x),
         y <= gpu[g]["manager"] + n, owns(g, w),
         IF to = w THEN attributed ELSE unattributed(g, {w, to}),
         tables' = Sell(SellLogs(tables, g, w, TRUE), g, to, n, -paid)
  PROVE  Mirrored'
<1> DEFINE e == SellLogs(tables, g, w, TRUE)
           proceeds == -paid
<1>1. Traded(g, 0, 0, -x, y, n - y) /\ bought(g) = -n /\ g \in Created
  BY DEF SaleOf, Traded
<1>2. Logged(e, g, w, 0, 0, -x, y, n - y) /\ e.basis = tables.basis
  BY SellLogged
<1>3. proceeds \in Int
  BY PaidInt DEF Mirrored
<1>4. e \in Tables(Created) /\ Created \in SUBSET GpuIds
  BY <1>2 DEF Logged, Created
<1> HIDE DEF e, proceeds
<1>5. /\ tables' \in Tables(Created) /\ Recorded(e, tables', g, to)
      /\ tables'.basis[g][to].complete = e.basis[g][to].complete
      /\ e.basis[g][to].complete =>
           tables'.basis[g][to].qty = e.basis[g][to].qty - Lesser(n, e.basis[g][to].qty)
  <2>1. tables' = Sell(e, g, to, n, proceeds)
    BY DEF e, proceeds
  <2> DEFINE r == Sell(e, g, to, n, proceeds)
  <2>2. /\ r \in Tables(Created) /\ Recorded(e, r, g, to)
        /\ r.basis[g][to].complete = e.basis[g][to].complete
        /\ e.basis[g][to].complete =>
             r.basis[g][to].qty = e.basis[g][to].qty - Lesser(n, e.basis[g][to].qty)
    BY <1>1, <1>3, <1>4, RouterSellRows
  <2> HIDE DEF r
  <2> QED BY <2>1, <2>2 DEF r
<1>6. Logged(tables', g, w, 0, 0, -x, y, n - y)
  BY <1>1, <1>2, <1>5, LoggedRecorded
<1>7. \A h \in GpuIds, z \in Wallets :
        (h = g /\ z = to) \/ tables'.basis[h][z] = tables.basis[h][z]
  BY <1>2, <1>5 DEF Recorded
<1>8. BasisFollows(tables', g, w)
  <2>1. CASE to # w
    <3>1. {w, to} \in SUBSET Wallets /\ unattributed(g, {w, to})
      BY <2>1
    <3>2. \A h \in GpuIds, z \in Wallets :
            (h = g /\ z \in {w, to}) \/ tables'.basis[h][z] = tables.basis[h][z]
      BY <1>7
    <3> QED BY <3>1, <3>2, Unattributed
  <2>2. CASE to = w
    <3>1. attributed
      BY <2>2
    <3>2. CASE w \in offBook[g]
      <4>1. /\ offBook' = offBook /\ offBook \in [GpuIds -> SUBSET Wallets]
            /\ \A h \in GpuIds, z \in Wallets : tables.basis[h][z].qty \in Nat
        BY <3>1 DEF attributed, Mirrored, Tables, Basis
      <4>2. ASSUME NEW h \in GpuIds, NEW z \in Wallets, tables'.basis[h][z].complete,
                   z \notin offBook'[h]
            PROVE  /\ tables.basis[h][z].complete /\ z \notin offBook[h]
                   /\ tables'.basis[h][z].qty
                        = tables.basis[h][z].qty + (IF h = g /\ z = w THEN bought(g) ELSE 0)
        <5>1. ~(h = g /\ z = w)
          BY <3>2, <4>1, <4>2
        <5>2. tables'.basis[h][z] = tables.basis[h][z] /\ tables.basis[h][z].qty \in Nat
          BY <1>7, <2>2, <4>1, <5>1
        <5>3. z \notin offBook[h] /\ tables.basis[h][z].complete
          BY <4>1, <4>2, <5>2
        <5>4. (IF h = g /\ z = w THEN bought(g) ELSE 0) = 0
          BY <5>1
        <5>5. tables'.basis[h][z].qty = tables.basis[h][z].qty + 0
          BY ONLY <5>2
        <5> QED BY <5>3, <5>4, <5>5, Zenon
      <4> QED BY <4>1, <4>2 DEF BasisFollows
    <3>3. CASE w \notin offBook[g]
      <4>1. ASSUME tables'.basis[g][w].complete
            PROVE  /\ tables.basis[g][w].complete
                   /\ tables'.basis[g][w].qty = tables.basis[g][w].qty + bought(g)
        <5>1. tables.basis[g][w].complete
          BY <1>2, <1>5, <2>2, <4>1
        <5>2. tables.basis[g][w].qty = held[g][w] /\ held[g][w] \in Nat
          BY <3>3, <5>1 DEF Mirrored, BasisIsHolding
        <5>3. n <= held[g][w]
          <6>1. held'[g][w] = held[g][w] + bought(g) /\ held'[g][w] >= 0
            BY DEF owns, Mirrored
          <6> QED BY <1>1, <5>2, <6>1
        <5>4. Lesser(n, held[g][w]) = n
          BY <5>2, <5>3 DEF Lesser
        <5> QED BY <1>1, <1>2, <1>5, <2>2, <5>1, <5>2, <5>4
      <4> QED BY <1>7, <2>2, <3>1, <4>1, Attributed
    <3> QED BY <3>2, <3>3
  <2> QED BY <2>1, <2>2
<1>9. 0 \in Int /\ -x \in Int /\ y \in Int /\ n - y \in Int
  OBVIOUS
<1> QED BY <1>1, <1>6, <1>8, <1>9, TradeFollows

LEMMA DirectSellFollows ==
  ASSUME Mirrored, Inv', NEW g \in GpuIds, NEW w \in Wallets,
         NEW n \in Nat, NEW y \in Nat, NEW x \in Nat, SaleOf(g, n, y, x),
         y <= gpu[g]["manager"], owns(g, w), unattributed(g, {w}),
         tables' = SellLogs(tables, g, w, FALSE)
  PROVE  Mirrored'
<1>1. Traded(g, 0, 0, -x, y, n - y)
  BY DEF SaleOf
<1>2. gpu[g]["manager"] + 0 = gpu[g]["manager"]
  BY MirroredBalances
<1>3. Logged(tables', g, w, 0, 0, -x, y, n - y) /\ tables'.basis = tables.basis
  BY <1>2, SellLogged
<1>4. BasisFollows(tables', g, w)
  BY <1>3, Unattributed
<1>5. 0 \in Int /\ -x \in Int /\ y \in Int /\ n - y \in Int
  OBVIOUS
<1> QED BY <1>1, <1>3, <1>4, <1>5, TradeFollows

-----------------------------------------------------------------------------
(* Every step of the indexed market                                        *)

LEMMA BuyFollows ==
  ASSUME Mirrored, Inv', NEW g \in GpuIds, NEW w \in Wallets, NEW x \in Nat, NEW y \in Nat,
         NEW lps \in BOOLEAN, IndexedBuy(g, w, x, y, lps), owns(g, w)
  PROVE  Mirrored'
<1>1. Inv
  BY DEF Mirrored
<1>2. ASSUME NEW fill \in 0..x, NEW prepaid \in BOOLEAN, swapBuyIn(g, x, prepaid, fill, fill, lps)
      PROVE  \E p, i, q, b, c \in Nat : BuyTraded(g, p, i, q, b, c)
  <2>1. fill \in fill..x
    OBVIOUS
  <2> QED BY <1>1, <1>2, <2>1, BuyInTraded
<1>3. CASE /\ \E fill \in 0..x : swapBuyIn(g, x, TRUE, fill, fill, lps)
           /\ logged(Buy(BuyLogs(tables, g, w), g, w, bought(g), paid))
           /\ attributed
  <2>1. PICK p \in Nat, i \in Nat, q \in Nat, b \in Nat, c \in Nat : BuyTraded(g, p, i, q, b, c)
    BY <1>2, <1>3
  <2>2. tables' = Buy(BuyLogs(tables, g, w), g, w, bought(g), paid)
    BY <1>3 DEF logged
  <2> QED BY <1>3, <2>1, <2>2, RoutedBuyFollows
<1>4. CASE /\ \E fill \in 0..y : buy(g, y, x, fill, lps)
           /\ logged(Buy(IF g \in pools THEN BuyLogs(tables, g, w)
                                        ELSE IssueLogs(tables, g, "router", w),
                         g, w, bought(g), paid))
           /\ attributed
  <2>1. PICK fill \in 0..y : buy(g, y, x, fill, lps)
    BY <1>4
  <2>2. tables' = Buy(IF g \in pools THEN BuyLogs(tables, g, w)
                                     ELSE IssueLogs(tables, g, "router", w),
                      g, w, bought(g), paid)
    BY <1>4 DEF logged
  <2>3. CASE g \in pools
    <3>1. swapBuyOut(g, y, x, fill, lps)
      BY <2>1, <2>3 DEF buy
    <3>2. PICK p \in Nat, i \in Nat, q \in Nat, b \in Nat, c \in Nat : BuyTraded(g, p, i, q, b, c)
      BY <1>1, <3>1, BuyOutTraded
    <3>3. tables' = Buy(BuyLogs(tables, g, w), g, w, bought(g), paid)
      BY <2>2, <2>3
    <3> QED BY <1>4, <3>2, <3>3, RoutedBuyFollows
  <2>4. CASE g \notin pools
    <3>1. ~swapBuyOut(g, y, x, fill, lps)
      BY <1>1, <2>4, BuyOutTraded
    <3>2. issue(g, y)
      BY <2>1, <3>1 DEF buy
    <3>3. tables' = Buy(IssueLogs(tables, g, "router", w), g, w, bought(g), paid)
      BY <2>2, <2>4
    <3> QED BY <1>4, <3>2, <3>3, RoutedSaleFollows
  <2> QED BY <2>3, <2>4
<1>5. CASE /\ \/ \E fill \in 0..x : swapBuyIn(g, x, FALSE, fill, fill, lps)
              \/ \E fill \in 0..y : swapBuyOut(g, y, 0, fill, lps)
           /\ logged(BuyLogs(tables, g, w))
           /\ unattributed(g, {w})
  <2>1. PICK p \in Nat, i \in Nat, q \in Nat, b \in Nat, c \in Nat : BuyTraded(g, p, i, q, b, c)
    <3>1. CASE \E fill \in 0..x : swapBuyIn(g, x, FALSE, fill, fill, lps)
      BY <1>2, <3>1
    <3>2. CASE \E fill \in 0..y : swapBuyOut(g, y, 0, fill, lps)
      <4>1. 0 \in Nat
        OBVIOUS
      <4> QED BY <1>1, <3>2, <4>1, BuyOutTraded
    <3> QED BY <1>5, <3>1, <3>2
  <2>2. tables' = BuyLogs(tables, g, w) /\ unattributed(g, {w})
    BY <1>5 DEF logged
  <2> QED BY <2>1, <2>2, DirectBuyFollows
<1> QED BY <1>3, <1>4, <1>5 DEF IndexedBuy

LEMMA SellFollows ==
  ASSUME Mirrored, Inv', NEW g \in GpuIds, NEW w \in Wallets, NEW x \in Nat, NEW y \in Nat,
         NEW lps \in BOOLEAN, IndexedSell(g, w, x, y, lps), owns(g, w)
  PROVE  Mirrored'
<1>1. Inv
  BY DEF Mirrored
<1>2. ASSUME NEW fill \in 0..y, NEW prepaid \in BOOLEAN, prepaid,
             swapSellIn(g, y, prepaid, fill, fill, lps)
      PROVE  \E v, z \in Nat : SaleOf(g, y, v, z) /\ v <= gpu[g]["manager"] + y
  <2>1. fill \in fill..y
    OBVIOUS
  <2>2. \E m, v, z \in Nat :
          /\ SaleOf(g, m, v, z) /\ (prepaid => m = y)
          /\ v <= gpu[g]["manager"] + (IF prepaid THEN m ELSE 0)
    <3>1. /\ Inv /\ g \in GpuIds /\ y \in Nat /\ prepaid \in BOOLEAN /\ fill \in 0..y
          /\ fill \in fill..y /\ lps \in BOOLEAN /\ swapSellIn(g, y, prepaid, fill, fill, lps)
      BY <1>1, <1>2, <2>1
    <3> QED BY ONLY <3>1, SellInTraded
  <2> QED BY <1>2, <2>2
<1>3. ASSUME NEW fill \in 0..y, NEW prepaid \in BOOLEAN, ~prepaid,
             swapSellIn(g, y, prepaid, fill, fill, lps)
      PROVE  \E m, v, z \in Nat : SaleOf(g, m, v, z) /\ v <= gpu[g]["manager"]
  <2>1. fill \in fill..y /\ gpu[g]["manager"] \in Nat
    BY MirroredBalances
  <2>2. \E m, v, z \in Nat :
          /\ SaleOf(g, m, v, z) /\ (prepaid => m = y)
          /\ v <= gpu[g]["manager"] + (IF prepaid THEN m ELSE 0)
    BY <1>1, <1>3, <2>1, SellInTraded
  <2> QED BY <1>3, <2>1, <2>2
<1>4. CASE \E recipient \in Wallets, fill \in 0..y :
             /\ swapSellIn(g, y, TRUE, fill, fill, lps)
             /\ logged(Sell(SellLogs(tables, g, w, TRUE), g, recipient, y, -paid))
             /\ IF recipient = w THEN attributed ELSE unattributed(g, {w, recipient})
  <2>1. PICK to \in Wallets, fill \in 0..y :
             /\ swapSellIn(g, y, TRUE, fill, fill, lps)
             /\ logged(Sell(SellLogs(tables, g, w, TRUE), g, to, y, -paid))
             /\ IF to = w THEN attributed ELSE unattributed(g, {w, to})
    BY <1>4
  <2>2. PICK v \in Nat, z \in Nat : SaleOf(g, y, v, z) /\ v <= gpu[g]["manager"] + y
    <3>1. swapSellIn(g, y, TRUE, fill, fill, lps)
      BY <2>1
    <3> QED BY <1>2, <3>1
  <2>3. tables' = Sell(SellLogs(tables, g, w, TRUE), g, to, y, -paid)
    BY <2>1 DEF logged
  <2>4. IF to = w THEN attributed ELSE unattributed(g, {w, to})
    BY <2>1
  <2> QED BY <2>2, <2>3, <2>4, RoutedSellFollows
<1>5. CASE /\ \/ \E fill \in 0..y : swapSellIn(g, y, FALSE, fill, fill, lps)
              \/ \E fill \in 0..x : swapSellOut(g, x, 0, fill, lps)
           /\ logged(SellLogs(tables, g, w, FALSE))
           /\ unattributed(g, {w})
  <2>1. PICK m \in Nat, v \in Nat, z \in Nat : SaleOf(g, m, v, z) /\ v <= gpu[g]["manager"]
    <3>1. CASE \E fill \in 0..y : swapSellIn(g, y, FALSE, fill, fill, lps)
      BY <1>3, <3>1
    <3>2. CASE \E fill \in 0..x : swapSellOut(g, x, 0, fill, lps)
      BY <1>1, <3>2, SellOutTraded
    <3> QED BY <1>5, <3>1, <3>2
  <2>2. tables' = SellLogs(tables, g, w, FALSE) /\ unattributed(g, {w})
    BY <1>5 DEF logged
  <2> QED BY <2>1, <2>2, DirectSellFollows
<1> QED BY <1>4, <1>5 DEF IndexedSell

LEMMA TradesFollow ==
  ASSUME Mirrored, Inv', IndexedTrade
  PROVE  Mirrored'
<1>1. GusdAmounts \subseteq Nat /\ GpuAmounts \subseteq Nat
  BY SpotConstants
<1>2. PICK g \in GpuIds, w \in Wallets :
    /\ \/ \E x \in GusdAmounts, y \in GpuAmounts, lps \in BOOLEAN :
            IndexedBuy(g, w, x, y, lps) \/ IndexedSell(g, w, x, y, lps)
       \/ \E y \in GpuAmounts : issue(g, y) /\ logged(IssueLogs(tables, g, w, w)) /\ attributed
    /\ owns(g, w)
  BY DEF IndexedTrade
<1>3. ASSUME NEW x \in GusdAmounts, NEW y \in GpuAmounts, NEW lps \in BOOLEAN,
             IndexedBuy(g, w, x, y, lps) \/ IndexedSell(g, w, x, y, lps)
      PROVE  Mirrored'
  <2>1. x \in Nat /\ y \in Nat
    BY <1>1
  <2>2. CASE IndexedBuy(g, w, x, y, lps)
    BY <1>2, <2>1, <2>2, BuyFollows
  <2>3. CASE IndexedSell(g, w, x, y, lps)
    BY <1>2, <2>1, <2>3, SellFollows
  <2> QED BY <1>3, <2>2, <2>3
<1>4. ASSUME NEW y \in GpuAmounts, issue(g, y), logged(IssueLogs(tables, g, w, w)), attributed
      PROVE  Mirrored'
  <2>1. tables' = IssueLogs(tables, g, w, w) /\ y \in Nat
    BY <1>1, <1>4 DEF logged
  <2> QED BY <1>2, <1>4, <2>1, SaleFollows
<1> QED BY <1>2, <1>3, <1>4

(* Liquidity between a wallet and the manager.                             *)
LEMMA LiquidityFollows ==
  ASSUME Mirrored, Inv', NEW g \in GpuIds, NEW w \in Wallets, NEW in \in BOOLEAN,
         NEW x \in Nat, NEW y \in Nat, modifyLiquidity(g, in, x, y),
         tables' = (IF in THEN Transfer(tables, g, w, "manager", y)
                          ELSE Transfer(tables, g, "manager", w, y)),
         unattributed(g, {w}), owns(g, w)
  PROVE  Mirrored'
<1>1. /\ in => Traded(g, 0, 0, 0, 0, y) /\ bought(g) = -y
      /\ ~in => Traded(g, 0, 0, 0, 0, -y) /\ bought(g) = y /\ y <= gpu[g]["manager"]
  BY LiquidityTraded DEF Mirrored
<1>2. /\ Created \in SUBSET GpuIds /\ tables \in Tables(Created) /\ tables.ok /\ g \in Created
      /\ tables.gpu[g] \in [Addresses -> Int] /\ held \in [GpuIds -> [Wallets -> Nat]]
  BY <1>1 DEF Mirrored, Created, Traded, Tables
<1>3. /\ "manager" \in Addresses /\ w \in Addresses /\ w # "manager" /\ w # "vault"
      /\ "manager" \notin Wallets /\ w # Zero /\ "manager" # Zero
  BY AddressesApart
<1>4. ~({w, "manager"} \subseteq Wallets) /\ ~({"manager", w} \subseteq Wallets)
  BY <1>3
<1>5. ASSUME NEW m \in Int, Traded(g, 0, 0, 0, 0, m), Logged(tables', g, w, 0, 0, 0, 0, m),
             tables'.basis = tables.basis
      PROVE  Mirrored'
  <2>1. BasisFollows(tables', g, w)
    BY <1>5, Unattributed
  <2>2. 0 \in Int
    OBVIOUS
  <2> QED BY <1>5, <2>1, <2>2, TradeFollows
<1>6. CASE in
  <2> DEFINE r == Transfer(tables, g, w, "manager", y)
  <2>1. y <= tables.gpu[g][w]
    <3>1. held'[g][w] = held[g][w] + bought(g) /\ held'[g][w] >= 0 /\ held[g][w] \in Nat
      BY <1>2 DEF owns
    <3>2. tables.gpu[g][w] = held[g][w]
      BY MirroredBalances
    <3> QED BY <1>1, <1>6, <3>1, <3>2
  <2>2. /\ r \in Tables(Created) /\ r.basis = tables.basis /\ Kept(tables, r, g) /\ r.ok
        /\ Counted(tables, r, g, 0, 0, 0, 0) /\ Passed(tables, r, g, w, "manager", y)
    BY <1>2, <1>3, <1>4, <2>1, LegByTransfer
  <2>3. tables' = r
    BY <1>6
  <2> HIDE DEF r
  <2>4. \A a \in Addresses :
          r.gpu[g][a] = tables.gpu[g][a] + (IF a = w THEN 0 - 0 - y
                                            ELSE IF a = "manager" THEN y
                                            ELSE IF a = "vault" THEN 0 ELSE 0)
    BY <1>2, <1>3, <2>2 DEF Passed
  <2>5. Logged(r, g, w, 0, 0, 0, 0, y)
    BY <2>2, <2>4 DEF Logged
  <2>6. Logged(tables', g, w, 0, 0, 0, 0, y) /\ tables'.basis = tables.basis
    BY <2>2, <2>3, <2>5
  <2>7. y \in Int /\ Traded(g, 0, 0, 0, 0, y)
    BY <1>1, <1>6
  <2> QED BY <1>5, <2>6, <2>7
<1>7. CASE ~in
  <2> DEFINE r == Transfer(tables, g, "manager", w, y)
  <2>1. y <= tables.gpu[g]["manager"]
    BY <1>1, <1>7, MirroredBalances
  <2>2. /\ r \in Tables(Created) /\ r.basis = tables.basis /\ Kept(tables, r, g) /\ r.ok
        /\ Counted(tables, r, g, 0, 0, 0, 0) /\ Passed(tables, r, g, "manager", w, y)
    BY <1>2, <1>3, <1>4, <2>1, LegByTransfer
  <2>3. tables' = r
    BY <1>7
  <2> HIDE DEF r
  <2>4. \A a \in Addresses :
          r.gpu[g][a] = tables.gpu[g][a] + (IF a = w THEN 0 - 0 - (-y)
                                            ELSE IF a = "manager" THEN -y
                                            ELSE IF a = "vault" THEN 0 ELSE 0)
    BY <1>2, <1>3, <2>2 DEF Passed
  <2>5. Logged(r, g, w, 0, 0, 0, 0, -y)
    BY <2>2, <2>4 DEF Logged
  <2>6. Logged(tables', g, w, 0, 0, 0, 0, -y) /\ tables'.basis = tables.basis
    BY <2>2, <2>3, <2>5
  <2>7. -y \in Int /\ Traded(g, 0, 0, 0, 0, -y)
    BY <1>1, <1>7
  <2> QED BY <1>5, <2>6, <2>7
<1> QED BY <1>6, <1>7

(* A transfer from wallet to wallet.                                       *)
LEMMA GiftFollows ==
  ASSUME Mirrored, NEW g \in GpuIds, NEW w \in Wallets, NEW to \in Wallets, NEW y \in Nat,
         w # to, y <= held[g][w], tables' = Transfer(tables, g, w, to, y),
         held' = [held EXCEPT ![g][w] = @ - y, ![g][to] = @ + y],
         UNCHANGED <<vars, offBook>>
  PROVE  Mirrored'
<1>1. /\ gpus' = gpus /\ pools' = pools /\ hookFeeBps' = hookFeeBps /\ gpu' = gpu
      /\ bidInventoryGusd' = bidInventoryGusd /\ askInventoryGpu' = askInventoryGpu
      /\ offBook' = offBook /\ UNCHANGED vars
  BY DEF vars, issuanceVars, vaultVars, settingVars
<1>2. Inv' /\ Created' = Created
  BY <1>1, StepInv DEF Mirrored, Created
<1>3. /\ Created \in SUBSET GpuIds /\ tables \in Tables(Created) /\ tables.ok
      /\ held \in [GpuIds -> [Wallets -> Nat]] /\ tables.gpu \in [GpuIds -> [Addresses -> Int]]
  BY DEF Mirrored, Created, Tables
<1>4. y <= tables.gpu[g][w]
  BY MirroredBalances
<1>5. /\ tables' \in Tables(Created) /\ tables'.assets = tables.assets
      /\ (tables.ok /\ y <= tables.gpu[g][w] => tables'.ok)
      /\ tables'.hookFeeBps = tables.hookFeeBps
      /\ \A h \in GpuIds \ {g} : tables'.gpu[h] = tables.gpu[h]
      /\ Passed(tables, tables', g, w, to, y)
      /\ ~tables'.basis[g][w].complete /\ ~tables'.basis[g][to].complete
      /\ \A h \in GpuIds, x \in Wallets :
           (h = g /\ x \in {w, to}) \/ tables'.basis[h][x] = tables.basis[h][x]
  <2> DEFINE r == Transfer(tables, g, w, to, y)
  <2>0. /\ Created \in SUBSET GpuIds /\ tables \in Tables(Created) /\ g \in GpuIds /\ y \in Nat
        /\ w \in Wallets /\ to \in Wallets /\ w # to
    BY <1>3
  <2>1. /\ r \in Tables(Created) /\ r.assets = tables.assets
        /\ (tables.ok /\ y <= tables.gpu[g][w] => r.ok)
        /\ r.hookFeeBps = tables.hookFeeBps
        /\ \A h \in GpuIds \ {g} : r.gpu[h] = tables.gpu[h]
        /\ Passed(tables, r, g, w, to, y)
        /\ ~r.basis[g][w].complete /\ ~r.basis[g][to].complete
        /\ \A h \in GpuIds, x \in Wallets :
             (h = g /\ x \in {w, to}) \/ r.basis[h][x] = tables.basis[h][x]
    BY ONLY <2>0, WalletRows
  <2> HIDE DEF r
  <2> QED BY <2>1 DEF r
<1>6. tables'.ok
  BY <1>3, <1>4, <1>5
<1>7. /\ held' \in [GpuIds -> [Wallets -> Nat]]
      /\ held'[g][w] = held[g][w] - y /\ held'[g][to] = held[g][to] + y
      /\ \A h \in GpuIds, x \in Wallets : (h = g /\ x \in {w, to}) \/ held'[h][x] = held[h][x]
  <2>1. held[g][w] - y \in Nat /\ held[g][to] + y \in Nat
    BY <1>3
  <2> QED BY <1>3, <2>1
<1>8. \A h \in Created' : RowMatches(h)'
  BY <1>1, <1>2, <1>5 DEF Mirrored, RowMatches
<1>9. \A h \in GpuIds : BalancesMatch(h)'
  <2>1. \A h \in GpuIds : BalancesMatch(h)
    BY DEF Mirrored
  <2>2. ASSUME NEW h \in GpuIds \ {g} PROVE BalancesMatch(h)'
    <3>1. \A x \in Wallets : held'[h][x] = held[h][x]
      BY <1>7
    <3>2. tables'.gpu[h] = tables.gpu[h] /\ gpu' = gpu /\ BalancesMatch(h)
      BY <1>1, <1>5, <2>1
    <3> QED BY <3>1, <3>2 DEF BalancesMatch
  <2>3. ASSUME NEW a \in Addresses
        PROVE  tables'.gpu[g][a] = CASE a \in Wallets -> held'[g][a]
                                     [] a \in {"manager", "vault"} -> gpu'[g][a]
                                     [] OTHER -> 0
    <3>1. tables'.gpu[g][a] = tables.gpu[g][a] + (IF a = to THEN y ELSE 0)
                                - (IF a = w THEN y ELSE 0)
      BY <1>5 DEF Passed
    <3>2. tables.gpu[g][a] = CASE a \in Wallets -> held[g][a]
                               [] a \in {"manager", "vault"} -> gpu[g][a]
                               [] OTHER -> 0
      BY <2>1 DEF BalancesMatch
    <3>3. tables.gpu[g][a] \in Int
      BY <1>3
    <3>4. CASE a \in Wallets
      <4>1. a # "manager" /\ a # "vault"
        BY <3>4, AddressesApart
      <4>2. tables.gpu[g][a] = held[g][a]
        BY <3>2, <3>4, <4>1
      <4>3. held'[g][a] = held[g][a] + (IF a = to THEN y ELSE 0) - (IF a = w THEN y ELSE 0)
        <5>1. held[g][a] \in Nat
          BY <1>3, <3>4
        <5> QED BY <1>7, <3>4, <5>1
      <4>4. tables'.gpu[g][a] = held'[g][a]
        BY <3>1, <4>2, <4>3
      <4> QED BY <3>4, <4>1, <4>4
    <3>5. CASE a \notin Wallets
      <4>1. a # to /\ a # w
        BY <3>5
      <4>2. tables'.gpu[g][a] = tables.gpu[g][a]
        BY <3>1, <3>3, <4>1
      <4> QED BY <1>1, <3>2, <3>5, <4>2, Zenon
    <3> QED BY <3>4, <3>5
  <2>4. BalancesMatch(g)'
    BY <2>3 DEF BalancesMatch
  <2> QED BY <2>2, <2>4
<1>10. BasisIsHolding'
  <2>1. ASSUME NEW h \in GpuIds, NEW x \in Wallets,
               tables'.basis[h][x].complete, x \notin offBook'[h]
        PROVE  tables'.basis[h][x].qty = held'[h][x]
    <3>1. ~(h = g /\ x \in {w, to})
      BY <1>5, <2>1
    <3>2. tables'.basis[h][x] = tables.basis[h][x] /\ held'[h][x] = held[h][x]
      BY <1>5, <1>7, <3>1
    <3> QED BY <1>1, <2>1, <3>2 DEF Mirrored, BasisIsHolding
  <2> QED BY <2>1 DEF BasisIsHolding
<1> QED BY <1>1, <1>2, <1>5, <1>6, <1>7, <1>8, <1>9, <1>10 DEF Mirrored

LEMMA MovesFollow ==
  ASSUME Mirrored, Inv', IndexedMove
  PROVE  Mirrored'
<1>1. GpuAmounts \subseteq Nat /\ LpAmounts \subseteq Nat \X Nat
  BY SpotConstants
<1>2. CASE \E g \in GpuIds, w \in Wallets, lp \in LpAmounts, in \in BOOLEAN :
             /\ modifyLiquidity(g, in, lp[1], lp[2])
             /\ logged(IF in THEN Transfer(tables, g, w, "manager", lp[2])
                             ELSE Transfer(tables, g, "manager", w, lp[2]))
             /\ unattributed(g, {w})
             /\ owns(g, w)
  <2>1. PICK g \in GpuIds, w \in Wallets, lp \in LpAmounts, in \in BOOLEAN :
             /\ modifyLiquidity(g, in, lp[1], lp[2])
             /\ logged(IF in THEN Transfer(tables, g, w, "manager", lp[2])
                             ELSE Transfer(tables, g, "manager", w, lp[2]))
             /\ unattributed(g, {w})
             /\ owns(g, w)
    BY <1>2
  <2>2. lp[1] \in Nat /\ lp[2] \in Nat
    BY <1>1
  <2>3. tables' = (IF in THEN Transfer(tables, g, w, "manager", lp[2])
                         ELSE Transfer(tables, g, "manager", w, lp[2]))
    BY <2>1 DEF logged
  <2> QED BY <2>1, <2>2, <2>3, LiquidityFollows
<1>3. CASE \E g \in GpuIds, w, to \in Wallets, y \in GpuAmounts :
             /\ w # to /\ y <= held[g][w]
             /\ logged(Transfer(tables, g, w, to, y))
             /\ held' = [held EXCEPT ![g][w] = @ - y, ![g][to] = @ + y]
             /\ UNCHANGED <<vars, offBook>>
  <2>1. PICK g \in GpuIds, w \in Wallets, to \in Wallets, y \in GpuAmounts :
             /\ w # to /\ y <= held[g][w]
             /\ logged(Transfer(tables, g, w, to, y))
             /\ held' = [held EXCEPT ![g][w] = @ - y, ![g][to] = @ + y]
             /\ UNCHANGED <<vars, offBook>>
    BY <1>3
  <2>2. y \in Nat /\ tables' = Transfer(tables, g, w, to, y)
    BY <1>1, <2>1 DEF logged
  <2> QED BY <2>1, <2>2, GiftFollows
<1> QED BY <1>2, <1>3 DEF IndexedMove

-----------------------------------------------------------------------------
(* The owner's settings: the balances and the bases stay.                  *)
LEMMA SettingFollows ==
  ASSUME Mirrored, Inv', Created \subseteq Created',
         tables' \in Tables(Created'), tables'.ok, tables'.hookFeeBps \in {Null, hookFeeBps'},
         tables'.gpu = tables.gpu, tables'.basis = tables.basis,
         UNCHANGED <<held, offBook, gpu, bidInventoryGusd, askInventoryGpu>>,
         \A h \in Created' : RowMatches(h)'
  PROVE  Mirrored'
<1>1. /\ held' = held /\ offBook' = offBook /\ gpu' = gpu
      /\ bidInventoryGusd' = bidInventoryGusd /\ askInventoryGpu' = askInventoryGpu
  OBVIOUS
<1>2. ASSUME NEW h \in GpuIds PROVE BalancesMatch(h)'
  <2>1. BalancesMatch(h)
    BY DEF Mirrored
  <2> QED BY <1>1, <2>1, Zenon DEF BalancesMatch
<1>3. BasisIsHolding'
  BY <1>1, Zenon DEF Mirrored, BasisIsHolding
<1>4. \A h \in GpuIds \ Created' : bidInventoryGusd'[h] = 0 /\ askInventoryGpu'[h] = 0
  BY <1>1 DEF Mirrored
<1>5. held' \in [GpuIds -> [Wallets -> Nat]] /\ offBook' \in [GpuIds -> SUBSET Wallets]
  BY <1>1 DEF Mirrored
<1> QED BY <1>2, <1>3, <1>4, <1>5 DEF Mirrored

LEMMA CreateFollows ==
  ASSUME Mirrored, Inv', NEW g \in GpuIds, NEW fee \in Nat, createGpu(g, fee),
         tables' = GpuCreated(tables, g, fee), UNCHANGED <<held, offBook>>
  PROVE  Mirrored'
<1>1. /\ gpus \in [GpuIds -> [created : BOOLEAN, enabled : BOOLEAN, feeBps : 0..MaxIssuanceFee,
                              totalIssued : Nat]]
      /\ pools \subseteq Created /\ Created \in SUBSET GpuIds
      /\ tables \in Tables(Created) /\ tables.ok
  BY MarketShape DEF Mirrored, Inv, CreatedFirst, Created
<1>2. /\ g \notin Created
      /\ gpus' = [gpus EXCEPT ![g] = [created |-> TRUE, enabled |-> FALSE, feeBps |-> fee,
                                      totalIssued |-> 0]]
      /\ bidInventoryGusd' = bidInventoryGusd /\ askInventoryGpu' = askInventoryGpu
      /\ gpu' = gpu /\ pools' = pools /\ hookFeeBps' = hookFeeBps
  BY DEF createGpu, vaultVars, settingVars
<1>3. /\ gpus'[g].created /\ gpus'[g].enabled = FALSE /\ gpus'[g].feeBps = fee
      /\ gpus'[g].totalIssued = 0 /\ \A h \in GpuIds \ {g} : gpus'[h] = gpus[h]
  BY <1>1, <1>2
<1>4. Created' = Created \cup {g}
  BY <1>1, <1>3 DEF Created
<1> DEFINE a == [x \in Created \cup {g} |-> IF x = g THEN NewAsset(fee) ELSE tables.assets[x]]
<1>5. /\ NewAsset(fee) \in AssetRow
      /\ NewAsset(fee).issuedGpu = 0 /\ NewAsset(fee).issuanceEnabled = FALSE
      /\ NewAsset(fee).issuanceFeeBps = fee /\ NewAsset(fee).canonicalPool = FALSE
      /\ NewAsset(fee).polGpu = 0 /\ NewAsset(fee).polGusd = 0
      /\ NewAsset(fee).principalContributedGusd = 0
  BY DEF NewAsset, AssetRow
<1>6. tables.assets \in [Created -> AssetRow] /\ DOMAIN tables.assets = Created
  BY <1>1 DEF Tables
<1>7. a \in [Created \cup {g} -> AssetRow]
  BY <1>5, <1>6
<1>8. tables' = [tables EXCEPT !.assets = a]
  BY <1>6 DEF GpuCreated
<1>9. a[g] = NewAsset(fee) /\ \A h \in Created : a[h] = tables.assets[h]
  BY <1>2
<1> HIDE DEF a
<1>10. /\ tables' \in Tables(Created') /\ tables'.assets = a /\ tables'.ok
       /\ tables'.gpu = tables.gpu /\ tables'.basis = tables.basis
       /\ tables'.hookFeeBps = tables.hookFeeBps
  BY <1>1, <1>4, <1>7, <1>8 DEF Tables
<1>11. RowMatches(g)'
  <2>1. g \notin pools' /\ bidInventoryGusd'[g] = 0 /\ askInventoryGpu'[g] = 0
    BY <1>1, <1>2 DEF Mirrored
  <2>2. tables'.assets[g] = NewAsset(fee)
    BY <1>9, <1>10
  <2>3. /\ tables'.assets[g].issuedGpu = gpus'[g].totalIssued
        /\ tables'.assets[g].issuanceFeeBps = gpus'[g].feeBps
        /\ tables'.assets[g].polGpu = askInventoryGpu'[g]
        /\ tables'.assets[g].polGusd + tables'.assets[g].principalContributedGusd
             = bidInventoryGusd'[g]
    BY <1>3, <1>5, <2>1, <2>2
  <2>4. tables'.assets[g].issuanceEnabled = gpus'[g].enabled
    BY <1>3, <1>5, <2>2, Zenon
  <2>5. tables'.assets[g].canonicalPool <=> g \in pools'
    BY <1>5, <2>1, <2>2, Zenon
  <2> QED BY <2>3, <2>4, <2>5 DEF RowMatches
<1>12. ASSUME NEW h \in Created PROVE RowMatches(h)'
  <2>1. /\ RowMatches(h) /\ tables'.assets[h] = tables.assets[h] /\ gpus'[h] = gpus[h]
        /\ bidInventoryGusd' = bidInventoryGusd /\ askInventoryGpu' = askInventoryGpu
        /\ pools' = pools
    BY <1>1, <1>2, <1>3, <1>9, <1>10 DEF Mirrored
  <2> QED BY <2>1 DEF RowMatches
<1>13. tables'.hookFeeBps \in {Null, hookFeeBps'}
  BY <1>2, <1>10 DEF Mirrored
<1> QED BY <1>2, <1>4, <1>10, <1>11, <1>12, <1>13, SettingFollows

(* A handler that writes one setting of g's row.                           *)
LEMMA PutFollows ==
  ASSUME Mirrored, Inv', NEW g \in Created, NEW row \in AssetRow,
         tables' = RowPut(tables, g, row), Created' = Created,
         UNCHANGED <<held, offBook, gpu, bidInventoryGusd, askInventoryGpu, hookFeeBps>>,
         \A h \in Created \ {g} : gpus'[h] = gpus[h] /\ (h \in pools' <=> h \in pools),
         row.issuedGpu = gpus'[g].totalIssued, row.issuanceFeeBps = gpus'[g].feeBps,
         row.issuanceEnabled = gpus'[g].enabled, row.canonicalPool <=> g \in pools',
         row.polGpu = tables.assets[g].polGpu, row.polGusd = tables.assets[g].polGusd,
         row.principalContributedGusd = tables.assets[g].principalContributedGusd
  PROVE  Mirrored'
<1>1. /\ Created \in SUBSET GpuIds /\ tables \in Tables(Created) /\ tables.ok
      /\ bidInventoryGusd' = bidInventoryGusd /\ askInventoryGpu' = askInventoryGpu
      /\ hookFeeBps' = hookFeeBps
  BY DEF Mirrored, Created
<1> DEFINE r == RowPut(tables, g, row)
<1>2. /\ r \in Tables(Created) /\ r.ok = tables.ok /\ r.basis = tables.basis
      /\ r.gpu = tables.gpu /\ r.hookFeeBps = tables.hookFeeBps /\ r.assets[g] = row
      /\ \A h \in Created \ {g} : r.assets[h] = tables.assets[h]
  <2>1. Created \in SUBSET GpuIds /\ tables \in Tables(Created) /\ g \in Created /\ row \in AssetRow
    BY <1>1
  <2> QED BY ONLY <2>1, RowPutRows
<1>3. tables' = r
  OBVIOUS
<1> HIDE DEF r
<1>4. RowMatches(g)'
  <2>1. RowMatches(g) /\ tables'.assets[g] = row
    BY <1>2, <1>3 DEF Mirrored
  <2> QED BY <1>1, <2>1 DEF RowMatches
<1>5. ASSUME NEW h \in Created \ {g} PROVE RowMatches(h)'
  <2>1. RowMatches(h) /\ tables'.assets[h] = tables.assets[h]
    BY <1>2, <1>3 DEF Mirrored
  <2> QED BY <1>1, <2>1 DEF RowMatches
<1>6. tables'.hookFeeBps \in {Null, hookFeeBps'}
  BY <1>1, <1>2, <1>3 DEF Mirrored
<1>7. /\ tables' \in Tables(Created') /\ tables'.ok /\ tables'.gpu = tables.gpu
      /\ tables'.basis = tables.basis
  BY <1>1, <1>2, <1>3
<1> QED BY <1>4, <1>5, <1>6, <1>7, SettingFollows

LEMMA OwnersFollow ==
  ASSUME Mirrored, Inv', IndexedOwnerStep
  PROVE  Mirrored'
<1>1. /\ gpus \in [GpuIds -> [created : BOOLEAN, enabled : BOOLEAN, feeBps : 0..MaxIssuanceFee,
                              totalIssued : Nat]]
      /\ FeeChoices \subseteq Nat /\ Created \in SUBSET GpuIds
      /\ tables \in Tables(Created) /\ tables.ok /\ tables.assets \in [Created -> AssetRow]
  BY MarketShape, SpotConstants DEF Mirrored, Inv, Created, Tables
<1>2. ASSUME NEW g \in GpuIds, NEW fee \in FeeChoices, createGpu(g, fee),
             setUp(GpuCreated(tables, g, fee))
      PROVE  Mirrored'
  BY <1>1, <1>2, CreateFollows DEF setUp
<1>3. ASSUME NEW g \in GpuIds, NEW fee \in FeeChoices, setIssuanceFee(g, fee),
             setUp(IssuanceFeeSet(tables, g, fee))
      PROVE  Mirrored'
  <2> DEFINE a == tables.assets[g]
             row == [a EXCEPT !.issuanceFeeBps = fee]
  <2>1. /\ g \in Created /\ gpus' = [gpus EXCEPT ![g].feeBps = fee]
        /\ UNCHANGED <<held, offBook, gpu, bidInventoryGusd, askInventoryGpu, hookFeeBps>>
        /\ pools' = pools
    BY <1>3 DEF setIssuanceFee, setUp, vaultVars, settingVars
  <2>2. /\ gpus'[g].created /\ gpus'[g].enabled = gpus[g].enabled /\ gpus'[g].feeBps = fee
        /\ gpus'[g].totalIssued = gpus[g].totalIssued
        /\ \A h \in GpuIds \ {g} : gpus'[h] = gpus[h]
    BY <1>1, <2>1 DEF Created
  <2>3. Created' = Created
    BY <1>1, <2>1, <2>2 DEF Created
  <2>4. a \in AssetRow /\ fee \in Int /\ RowMatches(g)
    BY <1>1, <2>1 DEF Mirrored
  <2>5. /\ row \in AssetRow /\ row.issuedGpu = a.issuedGpu /\ row.issuanceFeeBps = fee
        /\ row.issuanceEnabled = a.issuanceEnabled /\ row.canonicalPool = a.canonicalPool
        /\ row.polGpu = a.polGpu /\ row.polGusd = a.polGusd
        /\ row.principalContributedGusd = a.principalContributedGusd
    BY <2>4 DEF AssetRow
  <2>6. tables' = RowPut(tables, g, row)
    BY <1>1, <1>3, <2>1 DEF setUp, IssuanceFeeSet, RowPut, Tables
  <2> HIDE DEF row
  <2>7. /\ row.issuedGpu = gpus'[g].totalIssued /\ row.issuanceFeeBps = gpus'[g].feeBps
        /\ row.issuanceEnabled = gpus'[g].enabled /\ (row.canonicalPool <=> g \in pools')
    BY <2>1, <2>2, <2>4, <2>5 DEF RowMatches
  <2>8. \A h \in Created \ {g} : gpus'[h] = gpus[h] /\ (h \in pools' <=> h \in pools)
    BY <1>1, <2>1, <2>2
  <2> QED BY <2>1, <2>3, <2>5, <2>6, <2>7, <2>8, PutFollows
<1>4. ASSUME NEW g \in GpuIds, NEW b \in BOOLEAN, setIssuanceEnabled(g, b),
             setUp(IssuanceEnabledSet(tables, g, b))
      PROVE  Mirrored'
  <2> DEFINE a == tables.assets[g]
             row == [a EXCEPT !.issuanceEnabled = b]
  <2>1. /\ g \in Created /\ gpus' = [gpus EXCEPT ![g].enabled = b]
        /\ UNCHANGED <<held, offBook, gpu, bidInventoryGusd, askInventoryGpu, hookFeeBps>>
        /\ pools' = pools
    BY <1>4 DEF setIssuanceEnabled, setUp, vaultVars, settingVars
  <2>2. /\ gpus'[g].created /\ gpus'[g].enabled = b /\ gpus'[g].feeBps = gpus[g].feeBps
        /\ gpus'[g].totalIssued = gpus[g].totalIssued
        /\ \A h \in GpuIds \ {g} : gpus'[h] = gpus[h]
    BY <1>1, <2>1 DEF Created
  <2>3. Created' = Created
    BY <1>1, <2>1, <2>2 DEF Created
  <2>4. a \in AssetRow /\ RowMatches(g)
    BY <1>1, <2>1 DEF Mirrored
  <2>5. /\ row \in AssetRow /\ row.issuedGpu = a.issuedGpu
        /\ row.issuanceFeeBps = a.issuanceFeeBps
        /\ row.issuanceEnabled = b /\ row.canonicalPool = a.canonicalPool
        /\ row.polGpu = a.polGpu /\ row.polGusd = a.polGusd
        /\ row.principalContributedGusd = a.principalContributedGusd
    BY <2>4 DEF AssetRow
  <2>6. tables' = RowPut(tables, g, row)
    BY <1>1, <1>4, <2>1 DEF setUp, IssuanceEnabledSet, RowPut, Tables
  <2> HIDE DEF row
  <2>7. /\ row.issuedGpu = gpus'[g].totalIssued /\ row.issuanceFeeBps = gpus'[g].feeBps
        /\ row.issuanceEnabled = gpus'[g].enabled /\ (row.canonicalPool <=> g \in pools')
    BY <2>1, <2>2, <2>4, <2>5 DEF RowMatches
  <2>8. \A h \in Created \ {g} : gpus'[h] = gpus[h] /\ (h \in pools' <=> h \in pools)
    BY <1>1, <2>1, <2>2
  <2> QED BY <2>1, <2>3, <2>5, <2>6, <2>7, <2>8, PutFollows
<1>5. ASSUME NEW g \in GpuIds, afterInitialize(g), setUp(PoolRegistered(tables, g))
      PROVE  Mirrored'
  <2> DEFINE a == tables.assets[g]
             row == [a EXCEPT !.canonicalPool = TRUE]
  <2>1. /\ g \in Created /\ gpus' = gpus /\ pools' = pools \cup {g}
        /\ UNCHANGED <<held, offBook, gpu, bidInventoryGusd, askInventoryGpu, hookFeeBps>>
    BY <1>5 DEF afterInitialize, setUp, vaultVars, issuanceVars
  <2>2. Created' = Created
    BY <2>1 DEF Created
  <2>3. a \in AssetRow /\ RowMatches(g)
    BY <1>1, <2>1 DEF Mirrored
  <2>4. /\ row \in AssetRow /\ row.issuedGpu = a.issuedGpu
        /\ row.issuanceFeeBps = a.issuanceFeeBps
        /\ row.issuanceEnabled = a.issuanceEnabled /\ row.canonicalPool = TRUE
        /\ row.polGpu = a.polGpu /\ row.polGusd = a.polGusd
        /\ row.principalContributedGusd = a.principalContributedGusd
    BY <2>3 DEF AssetRow
  <2>5. tables' = RowPut(tables, g, row)
    BY <1>1, <1>5, <2>1 DEF setUp, PoolRegistered, RowPut, Tables
  <2> HIDE DEF row
  <2>6. /\ row.issuedGpu = gpus'[g].totalIssued /\ row.issuanceFeeBps = gpus'[g].feeBps
        /\ row.issuanceEnabled = gpus'[g].enabled /\ (row.canonicalPool <=> g \in pools')
    BY <2>1, <2>3, <2>4 DEF RowMatches
  <2>7. \A h \in Created \ {g} : gpus'[h] = gpus[h] /\ (h \in pools' <=> h \in pools)
    BY <2>1
  <2> QED BY <2>1, <2>2, <2>4, <2>5, <2>6, <2>7, PutFollows
<1>6. ASSUME NEW fee \in FeeChoices, setHookFeeBps(fee), setUp(HookFeeBpsSet(tables, fee))
      PROVE  Mirrored'
  <2>1. /\ gpus' = gpus /\ pools' = pools /\ hookFeeBps' = fee
        /\ UNCHANGED <<held, offBook, gpu, bidInventoryGusd, askInventoryGpu>>
        /\ tables' = [tables EXCEPT !.hookFeeBps = fee]
    BY <1>6 DEF setHookFeeBps, setUp, vaultVars, issuanceVars, HookFeeBpsSet
  <2>2. Created' = Created /\ fee \in Int
    BY <1>1, <2>1 DEF Created
  <2>3. /\ tables' \in Tables(Created') /\ tables'.ok /\ tables'.gpu = tables.gpu
        /\ tables'.basis = tables.basis /\ tables'.assets = tables.assets
        /\ tables'.hookFeeBps = fee
    BY <1>1, <2>1, <2>2 DEF Tables
  <2>4. ASSUME NEW h \in Created PROVE RowMatches(h)'
    <3>1. RowMatches(h)
      BY DEF Mirrored
    <3> QED BY <2>1, <2>3, <3>1 DEF RowMatches
  <2> QED BY <2>1, <2>2, <2>3, <2>4, SettingFollows
<1> QED BY <1>2, <1>3, <1>4, <1>5, <1>6 DEF IndexedOwnerStep

(* The market of an indexed step takes a step of its own, or rests.        *)
LEMMA IndexedSteps == IndexedNext => Next \/ UNCHANGED vars
<1>1. ASSUME IndexedOwnerStep PROVE Next
  BY <1>1 DEF IndexedOwnerStep, Next, OwnerStep, PublicStep
<1>2. ASSUME IndexedTrade PROVE Next
  <2>1. PICK g \in GpuIds, w \in Wallets :
           \/ \E x \in GusdAmounts, y \in GpuAmounts, lps \in BOOLEAN :
                IndexedBuy(g, w, x, y, lps) \/ IndexedSell(g, w, x, y, lps)
           \/ \E y \in GpuAmounts : issue(g, y)
    BY <1>2 DEF IndexedTrade
  <2>2. CASE \E y \in GpuAmounts : issue(g, y)
    BY <2>2 DEF Next, PublicStep
  <2>3. ASSUME NEW x \in GusdAmounts, NEW y \in GpuAmounts, NEW lps \in BOOLEAN,
               IndexedBuy(g, w, x, y, lps) \/ IndexedSell(g, w, x, y, lps)
        PROVE  TraderStep
    <3>1. \/ \E fill \in 0..x, prepaid \in BOOLEAN : swapBuyIn(g, x, prepaid, fill, fill, lps)
          \/ \E fill \in 0..y : buy(g, y, x, fill, lps)
          \/ \E fill \in 0..y : swapBuyOut(g, y, 0, fill, lps)
          \/ \E fill \in 0..y, prepaid \in BOOLEAN : swapSellIn(g, y, prepaid, fill, fill, lps)
          \/ \E fill \in 0..x : swapSellOut(g, x, 0, fill, lps)
      BY <2>3, Zenon DEF IndexedBuy, IndexedSell
    <3>2. x \in Nat /\ y \in Nat
      BY SpotConstants
    <3>3. ASSUME NEW fill \in 0..x, NEW prepaid \in BOOLEAN,
                 swapBuyIn(g, x, prepaid, fill, fill, lps)
          PROVE  TraderStep
      <4>1. fill \in fill..x
        BY <3>2
      <4> QED BY <3>3, <4>1 DEF TraderStep
    <3>4. ASSUME NEW fill \in 0..y, NEW prepaid \in BOOLEAN,
                 swapSellIn(g, y, prepaid, fill, fill, lps)
          PROVE  TraderStep
      <4>1. fill \in fill..y
        BY <3>2
      <4> QED BY <3>4, <4>1 DEF TraderStep
    <3>5. ASSUME NEW fill \in 0..y, buy(g, y, x, fill, lps) PROVE TraderStep
      BY <3>5 DEF TraderStep
    <3>6. ASSUME NEW fill \in 0..y, swapBuyOut(g, y, 0, fill, lps) PROVE TraderStep
      BY <3>6 DEF TraderStep
    <3>7. ASSUME NEW fill \in 0..x, swapSellOut(g, x, 0, fill, lps) PROVE TraderStep
      <4>1. 0 \in {0} \cup GpuAmounts
        OBVIOUS
      <4> QED BY <3>7, <4>1 DEF TraderStep
    <3> QED BY <3>1, <3>3, <3>4, <3>5, <3>6, <3>7
  <2> QED BY <2>1, <2>2, <2>3 DEF Next
<1>3. ASSUME IndexedMove PROVE Next \/ UNCHANGED vars
  BY <1>3 DEF IndexedMove, Next, PublicStep
<1> QED BY <1>1, <1>2, <1>3 DEF IndexedNext

LEMMA IndexedInitMirrored == IndexedInit => Mirrored
<1> SUFFICES ASSUME IndexedInit PROVE Mirrored
  OBVIOUS
<1>1. Inv
  BY InitInv DEF IndexedInit
<1>2. /\ gpus = [g \in GpuIds |-> [created |-> FALSE, enabled |-> FALSE, feeBps |-> 0,
                                   totalIssued |-> 0]]
      /\ bidInventoryGusd = [g \in GpuIds |-> 0] /\ askInventoryGpu = [g \in GpuIds |-> 0]
      /\ gpu = [g \in GpuIds |-> [h \in GpuHolders |-> 0]]
      /\ held = [g \in GpuIds |-> [w \in Wallets |-> 0]]
      /\ offBook = [g \in GpuIds |-> {}] /\ tables = EmptyTables
  BY DEF IndexedInit, Init
<1>3. Created = {}
  BY <1>2 DEF Created
<1>4. emptyBasis \in Basis /\ emptyBasis.qty = 0
  BY DEF emptyBasis, Basis
<1>5. /\ tables \in Tables(Created) /\ tables.ok /\ tables.hookFeeBps = Null
      /\ tables.gpu = [g \in GpuIds |-> [a \in Addresses |-> 0]]
      /\ tables.basis = [g \in GpuIds |-> [w \in Wallets |-> emptyBasis]]
  <2>1. [g \in {} |-> {}] \in [{} -> AssetRow]
    OBVIOUS
  <2>2. Null \in Int
    BY DEF Null
  <2>3. [g \in GpuIds |-> [w \in Wallets |-> emptyBasis]] \in [GpuIds -> [Wallets -> Basis]]
    BY <1>4
  <2> QED BY <1>2, <1>3, <2>1, <2>2, <2>3 DEF EmptyTables, Tables
<1>6. \A g \in GpuIds : BalancesMatch(g)
  <2>1. ASSUME NEW g \in GpuIds, NEW a \in Addresses
        PROVE  tables.gpu[g][a] = CASE a \in Wallets -> held[g][a]
                                     [] a \in {"manager", "vault"} -> gpu[g][a]
                                     [] OTHER -> 0
    <3>1. tables.gpu[g][a] = 0
      BY <1>5
    <3>2. CASE a \in Wallets
      <4>1. a # "manager" /\ a # "vault" /\ held[g][a] = 0
        BY <1>2, <3>2, AddressesApart
      <4> QED BY <3>1, <3>2, <4>1
    <3>3. CASE a \notin Wallets
      <4>1. gpu[g]["manager"] = 0 /\ gpu[g]["vault"] = 0
        BY <1>2 DEF GpuHolders
      <4> QED BY <3>1, <3>3, <4>1
    <3> QED BY <3>2, <3>3
  <2> QED BY <2>1 DEF BalancesMatch
<1>7. BasisIsHolding
  BY <1>2, <1>4, <1>5 DEF BasisIsHolding
<1>8. held \in [GpuIds -> [Wallets -> Nat]] /\ offBook \in [GpuIds -> SUBSET Wallets]
  BY <1>2
<1>9. \A g \in GpuIds \ Created : bidInventoryGusd[g] = 0 /\ askInventoryGpu[g] = 0
  BY <1>2
<1> QED BY <1>1, <1>3, <1>5, <1>6, <1>7, <1>8, <1>9 DEF Mirrored

LEMMA MirroredStep == Mirrored /\ IndexedNext => Mirrored'
<1> SUFFICES ASSUME Mirrored, IndexedNext PROVE Mirrored'
  OBVIOUS
<1>1. Inv'
  BY IndexedSteps, StepInv DEF Mirrored
<1> QED BY <1>1, OwnersFollow, TradesFollow, MovesFollow DEF IndexedNext

LEMMA MirroredRests == Mirrored /\ UNCHANGED <<vars, indexVars>> => Mirrored'
<1> SUFFICES ASSUME Mirrored, UNCHANGED <<vars, indexVars>> PROVE Mirrored'
  OBVIOUS
<1>1. UNCHANGED vars
  OBVIOUS
<1>2. Inv'
  BY <1>1, StepInv DEF Mirrored
<1>3. /\ gpus' = gpus /\ pools' = pools /\ hookFeeBps' = hookFeeBps
      /\ UNCHANGED <<held, offBook, gpu, bidInventoryGusd, askInventoryGpu>> /\ tables' = tables
  BY DEF vars, issuanceVars, vaultVars, settingVars, indexVars
<1>4. Created' = Created
  BY <1>3 DEF Created
<1>5. ASSUME NEW h \in Created' PROVE RowMatches(h)'
  <2>1. RowMatches(h)
    BY <1>4, <1>5 DEF Mirrored
  <2> QED BY <1>3, <2>1 DEF RowMatches
<1>6. tables' \in Tables(Created') /\ tables'.ok /\ tables'.hookFeeBps \in {Null, hookFeeBps'}
  BY <1>3, <1>4 DEF Mirrored
<1> QED BY <1>2, <1>3, <1>4, <1>5, <1>6, SettingFollows

LEMMA MirroredFollows == Mirrored => MarketRowsFollow /\ BasisIsHolding
<1> SUFFICES ASSUME Mirrored PROVE MarketRowsFollow /\ BasisIsHolding
  OBVIOUS
<1>1. DOMAIN tables.assets = Created /\ Created \subseteq GpuIds
  BY DEF Mirrored, Tables, Created
<1>2. /\ tables.ok /\ tables.hookFeeBps \in {Null, hookFeeBps} /\ BasisIsHolding
      /\ \A g \in Created : RowMatches(g) /\ BalancesMatch(g)
  BY <1>1 DEF Mirrored
<1> QED BY <1>1, <1>2, Zenon DEF MarketRowsFollow, RowMatches, BalancesMatch

(* handlers/issuance.ts, liquidity.ts, router.ts, hook.ts, gpu-token.ts:   *)
(* whatever the owner sets and whatever wallets trade, provide and give,   *)
(* through the router or past it, no handler throws, the rows of each GPU  *)
(* and every balance are the market's, and a complete cost basis of a      *)
(* wallet that only traded where a handler looks holds what the wallet     *)
(* holds.                                                                  *)
THEOREM MarketIndexed == MCSpec => []MarketTables
<1> DEFINE J == focus \in {"market", "indexer"} /\ (focus = "indexer" => Mirrored)
<1>1. MCInit => J
  BY IndexedInitMirrored DEF MCInit
<1>2. J /\ [MCNext]_mcVars => J'
  <2> SUFFICES ASSUME J, [MCNext]_mcVars PROVE J'
    OBVIOUS
  <2>1. CASE focus = "market" /\ MCNext
    BY <2>1 DEF MCNext
  <2>2. CASE focus = "indexer" /\ MCNext
    <3>1. IndexedNext /\ focus' = focus
      BY <2>2 DEF MCNext
    <3> QED BY <2>2, <3>1, MirroredStep
  <2>3. CASE UNCHANGED mcVars
    <3>1. focus' = focus /\ UNCHANGED <<vars, indexVars>>
      BY <2>3 DEF mcVars
    <3> QED BY <3>1, MirroredRests
  <2> QED BY <2>1, <2>2, <2>3
<1>3. J => MarketTables
  BY MirroredFollows DEF MarketTables
<1> QED BY <1>1, <1>2, <1>3, PTL DEF MCSpec
===============================================================================
