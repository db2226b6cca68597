----------------------------- MODULE PerpIndexer -----------------------------
(***************************************************************************)
(* The indexer's perpetual tables (apps/indexer/src/handlers/perp.ts),     *)
(* composed with the engine whose events fill them.  Handlers run one      *)
(* after the other in log order, so a transaction's effect on the tables   *)
(* is the composition of its events' handlers; `db' is the tables after    *)
(* the last indexed transaction (how far a reader lags behind is Keeper's  *)
(* subject).                                                               *)
(*                                                                         *)
(* A handler is an operator from tables to tables, named after its event   *)
(* and applied to the values the contract emits.  Rows have the shape of   *)
(* the contract's records; a row that was never written is the record of   *)
(* zeros that a fresh insert starts from.  The append-only log rows, the   *)
(* timestamps and the touch counters, which nothing reads back, are left   *)
(* out.                                                                    *)
(***************************************************************************)
EXTENDS PerpEngine

VARIABLE db

indexedVars == <<vars, db>>

(* The columns of a PerpPosition row at a position's state.                *)
positionRow(pos, realized) ==
  [size |-> pos.size, collateral |-> pos.collateral, entry |-> pos.entry,
   feeCkpt |-> pos.feeCkpt, creditCkpt |-> pos.creditCkpt,
   borrowCkpt |-> pos.borrowCkpt, earnedFunding |-> pos.earnedFunding,
   realizedPnlGusd |-> realized]

Null == -1

zeroEngineStats ==
  [minOrderDelaySec |-> Null, orderCount |-> 0, liquidationCount |-> 0, claimedGusd |-> 0]

EmptyTables ==
  [markets |-> [g \in GpuIds |-> NoMarket],
   positions |-> [k \in PositionKeys |-> positionRow(NoPosition, 0)],
   orders |-> [id \in OrderIds |-> NoOrder],
   claimable |-> [a \in Accounts |-> [balance |-> 0, totalSettled |-> 0, totalClaimed |-> 0]],
   stats |-> zeroEngineStats]

-----------------------------------------------------------------------------
(* Mutants                                                                 *)

(* The claimable delta of OrderExecuted folded in as well.                 *)
settledTwice(d, a, amount) == [d EXCEPT !.claimable[a].balance = @ + 2 * amount,
                                        !.claimable[a].totalSettled = @ + amount]

-----------------------------------------------------------------------------
(* Handlers                                                                *)

MarketCreated(d, g, p) ==
  [d EXCEPT !.markets[g] = [NoMarket EXCEPT !.exists = TRUE, !.enabled = TRUE,
                                            !.params = p, !.updatedAt = now]]

MarketParamsUpdated(d, g, p) ==
  IF d.markets[g].exists THEN [d EXCEPT !.markets[g].params = p] ELSE d

MarketEnabled(d, g, enabled) ==
  IF d.markets[g].exists THEN [d EXCEPT !.markets[g].enabled = enabled] ELSE d

MinOrderDelaySet(d, seconds) == [d EXCEPT !.stats.minOrderDelaySec = seconds]

OrderCreated(d, id, o) == [d EXCEPT !.orders[id] = o, !.stats.orderCount = @ + 1]

creditPositionPnl(d, k, realizedPnl) == [d EXCEPT !.positions[k].realizedPnlGusd = @ + realizedPnl]

(* Realized PnL is credited here and only for decreases.                   *)
OrderExecuted(d, id, o, realizedPnl) ==
  LET e == [d EXCEPT !.orders[id].status = "Executed"]
  IN  IF o.kind = "MarketIncrease" THEN e ELSE creditPositionPnl(e, KeyOf(o), realizedPnl)

OrderCancelled(d, id) == [d EXCEPT !.orders[id].status = "Cancelled"]

(* The event's values are absolute and overwrite the row.                  *)
PositionIncreased(d, k, pos) ==
  [d EXCEPT !.positions[k] = positionRow(pos, @.realizedPnlGusd)]

(* A decrease does not carry the entry price: the row keeps its own.       *)
PositionDecreased(d, k, pos) ==
  [d EXCEPT !.positions[k] =
     [positionRow(pos, @.realizedPnlGusd) EXCEPT !.entry = d.positions[k].entry]]

(* Rows are never deleted: only the size goes.                             *)
PositionClosed(d, k) == [d EXCEPT !.positions[k].size = 0]

PositionLiquidated(d, k) ==
  [d EXCEPT !.positions[k].size = 0, !.stats.liquidationCount = @ + 1]

bumpClaimable(d, a, balance, totalSettled, totalClaimed) ==
  [d EXCEPT !.claimable[a] = [balance |-> @.balance + balance,
                              totalSettled |-> @.totalSettled + totalSettled,
                              totalClaimed |-> @.totalClaimed + totalClaimed]]

(* The one source of claimable credits; emitted when there is one.         *)
ClaimableSettled(d, a, amount) == bumpClaimable(d, a, amount, amount, 0)

Claimed(d, a, paid) ==
  [bumpClaimable(d, a, -paid, 0, paid) EXCEPT !.stats.claimedGusd = @ + paid]

(* Refreshes the cumulatives; the open interest columns are not the        *)
(* event's, and no handler writes them again.                              *)
FundingAccrued(d, g, m) ==
  LET row == d.markets[g]
  IN  [d EXCEPT !.markets[g] = [row EXCEPT
         !.exists = TRUE, !.enabled = row.enabled \/ ~row.exists,
         !.chargeLong = m.chargeLong, !.chargeShort = m.chargeShort,
         !.creditLong = m.creditLong, !.creditShort = m.creditShort,
         !.borrow = m.borrow, !.updatedAt = m.updatedAt]]

-----------------------------------------------------------------------------
(* Which events a transaction emits, in log order                          *)

(* PerpFunding.accrue announces the stored cumulatives, unless no time has *)
(* passed; nothing else in a transaction moves them.                       *)
accrued(d, g) ==
  IF now > market[g].updatedAt THEN FundingAccrued(d, g, market'[g]) ELSE d

(* The claimable an execution credited, if any.                            *)
settled(d, a) ==
  LET due == claimableOf'[a] - claimableOf[a]
  IN  IF due > 0 THEN ClaimableSettled(d, a, due) ELSE d

newOrder(d) == OrderCreated(d, orderNonce', orders'[orderNonce'])

(* createOrder cancels the trigger order it replaces first.                *)
replaced(d, a, g, isLong, kind) ==
  LET old == activeTrigger[<<<<a, g, isLong>>, kind>>]
  IN  IF old # 0 THEN OrderCancelled(d, old) ELSE d

decreased(d, k) ==
  IF positions'[k].size = 0 THEN PositionClosed(d, k) ELSE PositionDecreased(d, k, positions'[k])

IndexedOwnerStep ==
  \/ \E g \in GpuIds, p \in ParamChoices :
       \/ createMarket(g, p) /\ db' = MarketCreated(db, g, p)
       \/ setMarketParams(g, p) /\ db' = MarketParamsUpdated(accrued(db, g), g, p)
  \/ \E g \in GpuIds, b \in BOOLEAN : setMarketEnabled(g, b) /\ db' = MarketEnabled(db, g, b)
  \/ \E s \in Delays : setMinOrderDelay(s) /\ db' = MinOrderDelaySet(db, s)
  \/ (pause \/ unpause \/ \E c \in Caps : setEngineMaxWithdrawPerBlock(c)) /\ UNCHANGED db

IndexedTraderStep ==
  \/ \E a \in Accounts, g \in GpuIds, l \in BOOLEAN, s \in Sizes,
       p \in LimitPrices, f \in ExecFees :
       \/ \E c \in Collaterals : createIncrease(a, g, l, s, c, p, f) /\ db' = newOrder(db)
       \/ createDecrease(a, g, l, s, p, f) /\ db' = newOrder(db)
       \/ \E k \in TriggerKinds : /\ createTrigger(a, g, l, k, s, p, f)
                                  /\ db' = newOrder(replaced(db, a, g, l, k))
  \/ \E id \in OrderIds : cancelOrder(id) /\ db' = OrderCancelled(db, id)
  \/ \E a \in Accounts, x \in ClaimAmounts, to \in Payees :
       claim(a, x, to) /\ db' = Claimed(db, a, claimableOf[a] - claimableOf'[a])

IndexedKeeperStep ==
  \E p \in Prices :
    \/ \E id \in OrderIds :
         LET o == orders[id]
             k == KeyOf(o)
             pos == positions[k]
         IN  \/ /\ executeIncrease(id, p)
                /\ db' = OrderExecuted(PositionIncreased(accrued(db, o.market), k, positions'[k]),
                                       id, o, 0)
             \/ /\ executeDecreaseGone(id, p)
                /\ db' = OrderCancelled(accrued(db, o.market), id)
             \/ /\ executeDecrease(id, p)
                /\ db' = OrderExecuted(decreased(settled(accrued(db, o.market), o.account), k),
                                       id, o, pnl(closedSize(o, pos), pos.entry, o.isLong, p))
    \/ \E a \in Accounts, g \in GpuIds, l \in BOOLEAN :
         /\ liquidate(a, g, l, p)
         /\ db' = PositionLiquidated(settled(accrued(db, g), a), <<a, g, l>>)

IndexedNext ==
  IndexedOwnerStep \/ IndexedTraderStep \/ IndexedKeeperStep \/ (EnvironmentStep /\ UNCHANGED db)

IndexedInit == Init /\ db = EmptyTables

IndexedSpec == IndexedInit /\ [][IndexedNext]_indexedVars

-----------------------------------------------------------------------------
(* Properties                                                              *)

(* The columns in which a row and the engine's record must agree.          *)
SamePosition(row, pos) == row = positionRow(pos, row.realizedPnlGusd)

(* perp.ts folds deltas and overwrites; whatever the order of partial      *)
(* closes, liquidations, reopenings, replaced triggers and partial claims, *)
(* the rows are the engine's storage: every order with its status, every   *)
(* open position with its rewound checkpoints and carried funding, a       *)
(* closed one with size 0, every market's parameters and cumulatives, and  *)
(* claimable balances counted once.                                        *)
RowsMirrorEngine ==
  /\ db.orders = orders
  /\ \A k \in PositionKeys : IF positions[k].size = 0 THEN db.positions[k].size = 0
                             ELSE SamePosition(db.positions[k], positions[k])
  /\ \A g \in GpuIds : db.markets[g] = [market[g] EXCEPT !.openLong = db.markets[g].openLong,
                                                         !.openShort = db.markets[g].openShort]
  /\ \A a \in Accounts : /\ db.claimable[a].balance = claimableOf[a]
                         /\ claimableOf[a] = db.claimable[a].totalSettled
                                               - db.claimable[a].totalClaimed
  /\ db.stats.orderCount = orderNonce
  /\ db.stats.minOrderDelaySec \in {Null, minOrderDelay}
=============================================================================
