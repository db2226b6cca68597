------------------------------ MODULE PerpPort -------------------------------
(***************************************************************************)
(* The web client's perp desk (onchain-perp-port.ts) over the engine's     *)
(* state: the gates a request passes before it is signed, the orders it    *)
(* becomes, and the figures shown to the trader.  All reads are of one     *)
(* block; a request that fails a gate throws and nothing is signed.        *)
(***************************************************************************)
EXTENDS PerpKeeper

CONSTANTS
  Leverages,     \* leverage, in basis points, a trader may ask for
  Tolerances,    \* slippage tolerances, in basis points
  Requests       \* amounts a trader may type: collateral, sizes, claims

ASSUME PortConstants ==
  /\ Leverages \subseteq Nat
  /\ Tolerances \subseteq 0..BPS
  /\ Requests \subseteq Nat

W == INSTANCE PortMath

clampRaw(value, cap) == IF value > cap THEN cap ELSE value

(* Gates that count only the collateral being added.                       *)
skipMinCollateral(a, g, isLong, collateral, leverageBps) ==
  LET params == market[g].params
      size == W!sizeFromCollateral(collateral, leverageBps)
  IN  /\ market[g].enabled
      /\ collateral > 0 /\ size # 0
      /\ W!leverageBpsCeil(size, collateral) <= params.maxLeverageBps
      /\ size <= params.maxPositionUsd
      /\ (IF isLong THEN market[g].openLong ELSE market[g].openShort) + size <= params.maxOiUsd
      /\ gusd.wallets >= collateral + MinExecutionFee

(* open (and quoteOpen, without the balance): the engine's gates, voiced.  *)
opens(a, g, isLong, collateral, leverageBps) ==
  LET params == market[g].params
      size == W!sizeFromCollateral(collateral, leverageBps)
  IN  /\ market[g].enabled
      /\ collateral > 0 /\ size # 0
      /\ W!leverageBpsCeil(size, collateral) <= params.maxLeverageBps
      /\ size <= params.maxPositionUsd
      /\ (IF isLong THEN market[g].openLong ELSE market[g].openShort) + size <= params.maxOiUsd
      /\ positions[<<a, g, isLong>>].collateral + collateral >= params.minCollateralUsd
      /\ gusd.wallets >= collateral + MinExecutionFee

(* submitDecrease, for a close or a trigger of `requested' (0: all).       *)
decreases(k) == positions[k].size # 0 /\ gusd.wallets >= MinExecutionFee
decreaseSize(k, requested) ==
  IF requested = 0 THEN positions[k].size ELSE clampRaw(requested, positions[k].size)

(* claim: everything when no amount is given.                              *)
claimAmount(a, amount) ==
  IF amount = 0 THEN claimableOf[a] ELSE clampRaw(amount, claimableOf[a])

(* getPosition: the engine's view marks the position with the cumulatives  *)
(* of the market's last touch, and the net funding state is read off it.   *)
shownBoundary(k, price) ==
  LET pos == positions[k]
      m == market[k[2]]
      fundingDebt == pos.collateral + pnl(pos.size, pos.entry, k[3], price)
                       - equityOf(m, pos, k[3], price)
  IN  W!liquidationPriceEstimate(pos.size, pos.collateral, pos.entry, k[3],
                                 m.params.maintenanceMarginBps, fundingDebt)

(* A preview that forgets the credit since the last touch.                 *)
carriedOnly(pos, sEarnedWhole) == pos.earnedFunding

(* The earned state a close slices: carried and since the last touch.      *)
balanceTotal(pos, sEarnedWhole) == pos.earnedFunding + sEarnedWhole

(* quoteClose: what closing `size' at `price' pays, and the liquidation    *)
(* price of what is left (0: a whole close leaves nothing).                *)
quoteClose(k, size, price) ==
  LET pos == positions[k]
      m == market[k[2]]
      isLong == k[3]
      owed(n) == W!fundingOwed(n, chargeCum(m, isLong), pos.feeCkpt)
                   + W!fundingOwed(n, m.borrow, pos.borrowCkpt)
      balance == balanceTotal(pos, W!fundingEarned(pos.size, creditCum(m, isLong),
                                                   pos.creditCkpt))
      sliceEarned == W!floor(balance, size, pos.size)
      released == W!floor(pos.collateral, size, pos.size)
      due == released + W!pnl(size, pos.entry, isLong, price)
               - W!feeBps(size, m.params.closeFeeBps) - owed(size) + sliceEarned
      left == pos.size - size
  IN  [proceeds |-> IF due > 0 THEN due ELSE 0,
       boundary |-> IF left = 0 THEN 0
                    ELSE W!liquidationPriceEstimate(left, pos.collateral - released, pos.entry,
                           isLong, m.params.maintenanceMarginBps,
                           owed(left) - (balance - sliceEarned))]

-----------------------------------------------------------------------------
(* Properties                                                              *)

(* A market whose cumulatives the next touch will find as they are.        *)
Current(g) == accrue(market[g], now) = [market[g] EXCEPT !.updatedAt = now]

(* The prices on the safe side of a displayed boundary.                    *)
SafeSide(isLong, boundary) ==
  {p \in Prices : IF isLong THEN p > boundary ELSE p < boundary}

(* liquidationPriceEstimate "can only understate the distance, never       *)
(* overstate it": marked at any price, for any debt, credit or negative    *)
(* headroom, no price on the safe side of the displayed boundary is one    *)
(* the engine liquidates at.                                               *)
BoundaryIsSafe ==
  \A k \in PositionKeys :
    positions[k].size > 0 /\ Current(k[2]) =>
      \A mark \in Prices : \A p \in SafeSide(k[3], shownBoundary(k, mark)) :
        ~liquidatableAt(market[k[2]], positions[k], k[3], p)

(* quoteClose "mirrors the decrease tranche exactly": a close executed on  *)
(* the state that was quoted credits the quoted proceeds, and what is left *)
(* open is not liquidatable on the safe side of the quoted boundary.       *)
CloseQuoteExact ==
  [][\A id \in OrderIds :
       LET o == orders[id]
           k == KeyOf(o)
           closed == positions[k].size - positions'[k].size
           q == quoteClose(k, closed, epochPrice'[o.market])
       IN  /\ o.status = "Pending" /\ orders'[id].status = "Executed"
           /\ o.kind # "MarketIncrease" /\ Current(o.market)
           => /\ claimableOf'[o.account] = claimableOf[o.account] + q.proceeds
              /\ positions'[k].size > 0 =>
                   \A p \in SafeSide(o.isLong, q.boundary) :
                     ~liquidatableAt(market'[o.market], positions'[k], o.isLong, p)]_vars

(* A request that passes the desk's gates is one the engine accepts: no    *)
(* open, close, trigger or claim built by the port reverts on the state it *)
(* was built from, and the signed bound admits the quoted price.           *)
RequestsAccepted ==
  \A k \in PositionKeys :
    LET a == k[1]
        g == k[2]
        isLong == k[3]
    IN  /\ ~paused /\ market[g].exists /\ orderNonce < MaxOrders =>
             \A p \in Prices, tol \in Tolerances :
               LET bound(inc) == W!acceptablePriceBound(p, tol, isLong, inc)
               IN  /\ \A c \in Requests, lev \in Leverages :
                        opens(a, g, isLong, c, lev) =>
                          /\ ENABLED createIncrease(a, g, isLong,
                               W!sizeFromCollateral(c, lev), c, bound(TRUE), MinExecutionFee)
                          /\ IF isLong THEN p <= bound(TRUE) ELSE p >= bound(TRUE)
                   /\ \A r \in Requests :
                        decreases(k) =>
                          /\ ENABLED createDecrease(a, g, isLong, decreaseSize(k, r),
                                                    bound(FALSE), MinExecutionFee)
                          /\ IF isLong THEN p >= bound(FALSE) ELSE p <= bound(FALSE)
                          /\ \A kind \in TriggerKinds :
                               ENABLED createTrigger(a, g, isLong, kind, decreaseSize(k, r),
                                                     p, MinExecutionFee)
        /\ \A r \in Requests :
             claimAmount(a, r) # 0 => ENABLED claim(a, claimAmount(a, r), "wallets")
=============================================================================
