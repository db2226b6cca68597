----------------------------- MODULE HookQuote ------------------------------
(***************************************************************************)
(* hook-quote.ts: the web client's own computation of what the hook will   *)
(* do with a trade on a pool without native liquidity, from the same       *)
(* market record; the report has been verified by the read that produced   *)
(* it.  And what it promises: the quote is the execution.                  *)
(***************************************************************************)
EXTENDS SpotMarket

Rejected == [ok |-> FALSE]

mulDivFloor(a, b, d) == (a * b) \div d

mulDivCeil(a, b, d) ==
  LET p == a * b
  IN  IF p % d = 0 THEN p \div d ELSE p \div d + 1

effAsk(s) == LET eff == IF s.polPaused THEN 0 ELSE s.askBps
             IN  IF s.issueFeeBps < eff THEN s.issueFeeBps ELSE eff

askDenom(s) == s.price * (BPS + effAsk(s))

issuePrice(s, amount) ==
  LET base == mulDivCeil(s.price * amount, 1, CD)
  IN  [base |-> base, fee |-> mulDivCeil(base, s.issueFeeBps, BPS),
       total |-> base + mulDivCeil(base, s.issueFeeBps, BPS)]

minBig(S) == CHOOSE m \in S : \A n \in S : m <= n

backstopMirror(s, want, leftover) ==
  LET headroom == IF leftover >= 2 THEN leftover - 2 ELSE 0
      affords == mulDivFloor(headroom * CD * BPS, 1, s.price * (BPS + s.issueFeeBps))
      fits == want # 0 /\ issuePrice(s, want).total <= leftover
  IN  IF ~s.open THEN 0 ELSE IF fits THEN want ELSE minBig({want, affords})

ladderParts(s, polGpu, spend, issueGpu) ==
  [polGpu |-> polGpu, polSpend |-> spend, polFee |-> mulDivCeil(spend, s.polFeeBps, BPS),
   issueGpu |-> issueGpu, total |-> issuePrice(s, issueGpu).total]

ladderOn(s, budget, demandCap, polGpu) ==
  LET spend == mulDivCeil(polGpu * askDenom(s), 1, Unit)
  IN  ladderParts(s, polGpu, spend, backstopMirror(s, demandCap - polGpu, budget - spend))

ladderMirror(s, budget, demandCap) ==
  LET capGpu == mulDivFloor(s.capLeft, Unit, askDenom(s))
      affordable == mulDivFloor(budget, Unit, askDenom(s))
  IN  ladderOn(s, budget, demandCap, minBig({affordable, s.ask, capGpu, demandCap}))

grossMirror(s, x) == x + mulDivCeil(x, s.polFeeBps, BPS) + mulDivCeil(x, s.hookFeeBps, BPS)

(* One round of the loop, which has four.                                  *)
supplyStep(s, budget, x) ==
  LET gross == grossMirror(s, x)
  IN  IF gross <= budget THEN x
      ELSE IF gross - budget >= x THEN 0 ELSE x - (gross - budget)

supplyMirror(s, budget) ==
  LET s0 == mulDivFloor(budget, BPS, BPS + s.polFeeBps + s.hookFeeBps)
      s2 == supplyStep(s, budget, supplyStep(s, budget, s0))
  IN  supplyStep(s, budget, supplyStep(s, budget, s2))

quoteBuyExactOutMirror(s, size) ==
  LET polGpu == minBig({size, s.ask, mulDivFloor(s.capLeft, Unit, askDenom(s))})
      spend == mulDivCeil(polGpu * askDenom(s), 1, Unit)
      issueGpu == size - polGpu
      charge == spend + (IF s.open THEN issuePrice(s, issueGpu).total ELSE 0)
      fee == mulDivCeil(charge, s.hookFeeBps, BPS)
  IN  IF ~s.open /\ issueGpu > GpuDust THEN Rejected
      ELSE [ok |-> TRUE, gusdIn |-> charge + fee, gpuOut |-> size, polGpu |-> polGpu,
            backstopGpu |-> issueGpu, hookFeeGusd |-> fee,
            polFeeGusd |-> mulDivCeil(spend, s.polFeeBps, BPS)]

boughtMirror(spend, fee, L) ==
  IF L.polGpu + L.issueGpu = 0 THEN Rejected
  ELSE [ok |-> TRUE, gusdIn |-> spend, gpuOut |-> L.polGpu + L.issueGpu, polGpu |-> L.polGpu,
        backstopGpu |-> L.issueGpu, hookFeeGusd |-> fee, polFeeGusd |-> L.polFee]

quoteBuyMirror(s, spend) ==
  LET fee == minBig({mulDivCeil(spend, s.hookFeeBps, BPS), spend})
  IN  boughtMirror(spend, fee, ladderMirror(s, spend - fee, MaxUint))

quoteSellMirror(s, size) ==
  LET denom == s.price * (BPS - s.bidBps)
      polGpu == minBig({size, mulDivFloor(s.bid, Unit, denom), mulDivFloor(s.capLeft, Unit, denom)})
      gross == mulDivFloor(polGpu * denom, 1, Unit)
      pf == mulDivCeil(gross, s.polFeeBps, BPS)
      hf == mulDivCeil(gross - pf, s.hookFeeBps, BPS)
  IN  IF size - polGpu > GpuDust THEN Rejected
      ELSE [ok |-> TRUE, gusdOut |-> gross - pf - hf, gpuIn |-> size, polFeeGusd |-> pf,
            hookFeeGusd |-> hf]

quoteSellExactOutMirror(s, proceeds) ==
  LET denom == s.price * (BPS - s.bidBps)
      supply == minBig({proceeds, supplyMirror(s, minBig({s.bid, s.capLeft}))})
      pf == mulDivCeil(supply, s.polFeeBps, BPS)
      hf == mulDivCeil(supply, s.hookFeeBps, BPS)
  IN  IF proceeds - supply > GusdDust THEN Rejected
      ELSE [ok |-> TRUE, gusdOut |-> supply, gpuIn |-> mulDivCeil(supply + pf + hf, Unit, denom),
            polFeeGusd |-> pf, hookFeeGusd |-> hf]

-----------------------------------------------------------------------------
(* Pools without native liquidity and without POL volume in the block: the  *)
(* scope of hook-quote.ts.                                                  *)
Quotable(g) == g \in pools /\ gusd["manager"] = 0 /\ gpu[g]["manager"] = 0 /\ polVolume = 0 /\ ~paused

(* A quote q, what the hook plans and what it settles, agree.               *)
BuyOutAgrees(y, q, plan, f) ==
  /\ plan.ok /\ plan.commit = y /\ plan.charge = f.charge
  /\ f.pays = q.gusdIn /\ f.polGpu = q.polGpu
  /\ f.polFee = q.polFeeGusd /\ f.hookFee = q.hookFeeGusd

BuyInAgrees(x, q, plan, f) ==
  /\ plan = [ok |-> TRUE, commit |-> x]
  /\ f.polGpu + f.issueGpu = q.gpuOut /\ f.hookFee = q.hookFeeGusd

SellInAgrees(y, q, plan, f) ==
  /\ q.ok <=> plan.ok
  /\ q.ok => plan.commit = y /\ f.proceeds = q.gusdOut /\ f.hookFee = q.hookFeeGusd

SellOutAgrees(x, q, plan, f) ==
  plan.ok /\ plan.commit = x /\ f.gpuIn = q.gpuIn /\ plan.charge = q.gpuIn

(* hook-quote.ts: a quote of the web client is what the hook then does when *)
(* the router pays exactly the quoted amount: the plan commits, covers the  *)
(* whole trade and settles it at the quoted figures, fees included, down to *)
(* the last unit; and a rejected sale is one the hook refuses.              *)
QuoteIsExecution ==
  \A g \in GpuIds : Quotable(g) =>
    \E m \in {market(g)} :
      /\ \A y \in GpuAmounts : \E q \in {quoteBuyExactOutMirror(m, y)} :
           q.ok /\ m.open => BuyOutAgrees(y, q, planBuyOut(m, y, q.gusdIn, FALSE), settleBuyOut(m, y))
      /\ \A x \in GusdAmounts : \E q \in {quoteBuyMirror(m, x)} :
           q.ok => BuyInAgrees(x, q, planBuyIn(m, x, x, FALSE), settleBuyIn(m, x))
      /\ \A y \in GpuAmounts :
           SellInAgrees(y, quoteSellMirror(m, y), planSellIn(m, y, y, FALSE), settleSellIn(m, y))
      /\ \A x \in GusdAmounts : \E q \in {quoteSellExactOutMirror(m, x)} :
           q.ok /\ q.gusdOut = x =>
             SellOutAgrees(x, q, planSellOut(m, x, q.gpuIn, FALSE), settleSellOut(m, x))
=============================================================================
