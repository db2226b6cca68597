-------------------------- MODULE PerpMirrorProofs ---------------------------
(***************************************************************************)
(* Proofs that the copies of the engine's state agree with it: the         *)
(* indexer's rows, what the keeper decides from them, and what the desk    *)
(* quotes and shows.                                                       *)
(***************************************************************************)
EXTENDS PerpPort, PerpEngineProofs

-----------------------------------------------------------------------------
(* The tables and their handlers                                           *)

PositionRow ==
  [size: Nat, collateral: Nat, entry: Nat, feeCkpt: Nat, creditCkpt: Nat,
   borrowCkpt: Nat, earnedFunding: Nat, realizedPnlGusd: Int]

ClaimableRow == [balance: Int, totalSettled: Int, totalClaimed: Int]

StatsRow ==
  [minOrderDelaySec: Int, orderCount: Int, liquidationCount: Int, claimedGusd: Int]

Tables ==
  [markets: [GpuIds -> Market], positions: [PositionKeys -> PositionRow],
   orders: [OrderIds -> Order], claimable: [Accounts -> ClaimableRow], stats: StatsRow]

(* What a handler that writes one table leaves alone.                      *)
OnlyMarkets(d, e) ==
  /\ e.orders = d.orders /\ e.positions = d.positions
  /\ e.claimable = d.claimable /\ e.stats = d.stats
OnlyOrders(d, e) ==
  /\ e.markets = d.markets /\ e.positions = d.positions
  /\ e.claimable = d.claimable /\ e.stats = d.stats
OnlyPositions(d, e) ==
  /\ e.markets = d.markets /\ e.orders = d.orders
  /\ e.claimable = d.claimable /\ e.stats = d.stats

(* A row stands for a market: every column the engine's events carry.  No  *)
(* event carries the open interest, and those columns stay at zero.        *)
MarketMirrors(row, m) ==
  /\ row.exists = m.exists /\ row.enabled = m.enabled /\ row.params = m.params
  /\ row.chargeLong = m.chargeLong /\ row.chargeShort = m.chargeShort
  /\ row.creditLong = m.creditLong /\ row.creditShort = m.creditShort
  /\ row.borrow = m.borrow /\ row.updatedAt = m.updatedAt
  /\ row.openLong = 0 /\ row.openShort = 0

(* A row stands for a position: a closed one is only known to be closed.   *)
PositionMirrors(row, pos) ==
  IF pos.size = 0 THEN row.size = 0
  ELSE /\ row.size = pos.size /\ row.collateral = pos.collateral
       /\ row.entry = pos.entry /\ row.feeCkpt = pos.feeCkpt
       /\ row.creditCkpt = pos.creditCkpt /\ row.borrowCkpt = pos.borrowCkpt
       /\ row.earnedFunding = pos.earnedFunding

ClaimableMirrors(row, amount) ==
  row.balance = amount /\ amount = row.totalSettled - row.totalClaimed

(* A row that agrees column by column is the engine's record but for its   *)
(* open interest.                                                          *)
LEMMA MarketRowExact ==
  ASSUME NEW row \in Market, NEW m \in Market, MarketMirrors(row, m)
  PROVE  row = [m EXCEPT !.openLong = row.openLong, !.openShort = row.openShort]
BY DEF MarketMirrors, Market

LEMMA PositionRowExact ==
  ASSUME NEW row \in PositionRow, NEW pos \in Position, pos.size # 0, PositionMirrors(row, pos)
  PROVE  SamePosition(row, pos)
BY DEF PositionMirrors, SamePosition, positionRow, PositionRow, Position

(* The columns an accrual moves.                                           *)
SameCumulatives(m, n) ==
  /\ m.chargeLong = n.chargeLong /\ m.chargeShort = n.chargeShort
  /\ m.creditLong = n.creditLong /\ m.creditShort = n.creditShort
  /\ m.borrow = n.borrow /\ m.updatedAt = n.updatedAt

(* FundingAccrued brings the cumulatives to the event's.                   *)
LEMMA FundingRow ==
  ASSUME NEW d \in Tables, NEW g \in GpuIds, NEW m \in Market, NEW n \in Market,
         SameCumulatives(m, n), d.markets[g].exists, n.exists,
         d.markets[g].enabled = n.enabled, d.markets[g].params = n.params,
         d.markets[g].openLong = 0, d.markets[g].openShort = 0
  PROVE  LET e == FundingAccrued(d, g, m)
         IN  /\ e \in Tables /\ OnlyMarkets(d, e)
             /\ \A h \in GpuIds \ {g} : e.markets[h] = d.markets[h]
             /\ MarketMirrors(e.markets[g], n)
<1> DEFINE row == [d.markets[g] EXCEPT
                     !.exists = TRUE, !.enabled = d.markets[g].enabled \/ ~d.markets[g].exists,
                     !.chargeLong = m.chargeLong, !.chargeShort = m.chargeShort,
                     !.creditLong = m.creditLong, !.creditShort = m.creditShort,
                     !.borrow = m.borrow, !.updatedAt = m.updatedAt]
           e == [d EXCEPT !.markets[g] = row]
<1>1. d.markets \in [GpuIds -> Market] /\ d.markets[g] \in Market
  BY DEF Tables
<1>2. row \in Market
  <2>1. (d.markets[g].enabled \/ ~d.markets[g].exists) \in BOOLEAN
    OBVIOUS
  <2> QED BY <1>1, <2>1 DEF Market
<1>3. MarketMirrors(row, n)
  BY <1>1 DEF MarketMirrors, Market, SameCumulatives
<1>4. FundingAccrued(d, g, m) = e
  BY DEF FundingAccrued
<1> HIDE DEF row
<1>5. e \in Tables /\ OnlyMarkets(d, e)
  BY <1>1, <1>2 DEF Tables, OnlyMarkets
<1>6. e.markets = [d.markets EXCEPT ![g] = row]
  BY <1>1 DEF Tables
<1> QED BY <1>1, <1>3, <1>4, <1>5, <1>6

(* Writing the row of one market.                                          *)
LEMMA OneMarketRow ==
  ASSUME NEW d \in Tables, NEW g \in GpuIds, NEW row \in Market
  PROVE  LET e == [d EXCEPT !.markets[g] = row]
         IN  /\ e \in Tables /\ OnlyMarkets(d, e)
             /\ e.markets = [d.markets EXCEPT ![g] = row]
             /\ e.markets[g] = row
             /\ \A h \in GpuIds \ {g} : e.markets[h] = d.markets[h]
<1>1. d.markets \in [GpuIds -> Market] /\ d.markets[g] \in Market
  BY DEF Tables
<1> QED BY <1>1 DEF Tables, OnlyMarkets

(* The events of an order.                                                 *)
LEMMA CreatedRows ==
  ASSUME NEW d \in Tables, NEW id \in OrderIds, NEW o \in Order
  PROVE  LET e == OrderCreated(d, id, o)
         IN  /\ e \in Tables
             /\ e.orders = [d.orders EXCEPT ![id] = o]
             /\ e.stats = [d.stats EXCEPT !.orderCount = @ + 1]
             /\ e.markets = d.markets /\ e.positions = d.positions /\ e.claimable = d.claimable
<1>1. d.orders \in [OrderIds -> Order] /\ d.stats \in StatsRow
  BY DEF Tables
<1>2. [d.stats EXCEPT !.orderCount = @ + 1] \in StatsRow
  BY <1>1 DEF StatsRow
<1>3. [d.orders EXCEPT ![id] = o] \in [OrderIds -> Order]
  BY <1>1
<1> QED BY <1>2, <1>3 DEF OrderCreated, Tables

LEMMA StatusRow ==
  ASSUME NEW d \in Tables, NEW id \in OrderIds, NEW status \in {"Cancelled", "Executed"}
  PROVE  LET e == [d EXCEPT !.orders[id].status = status]
         IN  /\ e \in Tables /\ OnlyOrders(d, e)
             /\ e.orders = [d.orders EXCEPT ![id].status = status]
<1>1. d.orders \in [OrderIds -> Order] /\ d.orders[id] \in Order
  BY DEF Tables
<1>2. [d.orders EXCEPT ![id].status = status] \in [OrderIds -> Order]
  BY <1>1 DEF Order
<1> QED BY <1>2 DEF Tables, OnlyOrders

LEMMA CancelledRows ==
  ASSUME NEW d \in Tables, NEW id \in OrderIds
  PROVE  LET e == OrderCancelled(d, id)
         IN  /\ e \in Tables /\ OnlyOrders(d, e)
             /\ e.orders = [d.orders EXCEPT ![id].status = "Cancelled"]
BY StatusRow DEF OrderCancelled

(* Crediting realized PnL moves no column that mirrors the engine.         *)
LEMMA ExecutedRows ==
  ASSUME NEW d \in Tables, NEW id \in OrderIds, NEW o \in Order, NEW x \in Int
  PROVE  LET e == OrderExecuted(d, id, o, x)
         IN  /\ e \in Tables
             /\ e.orders = [d.orders EXCEPT ![id].status = "Executed"]
             /\ e.markets = d.markets /\ e.claimable = d.claimable /\ e.stats = d.stats
             /\ \A k \in PositionKeys : \A pos :
                  PositionMirrors(d.positions[k], pos) => PositionMirrors(e.positions[k], pos)
<1>1. d.positions \in [PositionKeys -> PositionRow] /\ KeyOf(o) \in PositionKeys
  BY DEF Tables, KeyOf, PositionKeys, Order
<1> DEFINE e1 == [d EXCEPT !.orders[id].status = "Executed"]
           k1 == KeyOf(o)
           credited == [d.positions EXCEPT ![k1].realizedPnlGusd = @ + x]
           e2 == [e1 EXCEPT !.positions[k1].realizedPnlGusd = @ + x]
<1>2. /\ e1 \in Tables /\ OnlyOrders(d, e1)
      /\ e1.orders = [d.orders EXCEPT ![id].status = "Executed"]
  BY StatusRow
<1> HIDE DEF e1
<1>3. credited \in [PositionKeys -> PositionRow]
  BY <1>1 DEF PositionRow
<1>4. \A k \in PositionKeys : \A pos :
        PositionMirrors(d.positions[k], pos) => PositionMirrors(credited[k], pos)
  <2>1. \A k \in PositionKeys :
          credited[k] = IF k = k1 THEN [d.positions[k] EXCEPT !.realizedPnlGusd = @ + x]
                                  ELSE d.positions[k]
    BY <1>1
  <2>2. ASSUME NEW k \in PositionKeys
        PROVE  /\ credited[k].size = d.positions[k].size
               /\ credited[k].collateral = d.positions[k].collateral
               /\ credited[k].entry = d.positions[k].entry
               /\ credited[k].feeCkpt = d.positions[k].feeCkpt
               /\ credited[k].creditCkpt = d.positions[k].creditCkpt
               /\ credited[k].borrowCkpt = d.positions[k].borrowCkpt
               /\ credited[k].earnedFunding = d.positions[k].earnedFunding
    <3>1. d.positions[k] \in PositionRow
      BY <1>1
    <3> QED BY <2>1, <3>1 DEF PositionRow
  <2> HIDE DEF credited
  <2> QED BY <2>2 DEF PositionMirrors
<1>5. /\ e2.positions = credited /\ e2.orders = e1.orders /\ e2.markets = e1.markets
      /\ e2.claimable = e1.claimable /\ e2.stats = e1.stats /\ e2 \in Tables
  BY <1>2, <1>3 DEF OnlyOrders, Tables
<1>6. OrderExecuted(d, id, o, x) \in {e1, e2}
  BY DEF OrderExecuted, creditPositionPnl, e1
<1> HIDE DEF e2, credited
<1> QED BY <1>2, <1>4, <1>5, <1>6 DEF OnlyOrders

(* The events of a position: the row stands for the position they leave.   *)
LEMMA OnePositionRow ==
  ASSUME NEW d \in Tables, NEW k \in PositionKeys, NEW row \in PositionRow
  PROVE  LET e == [d EXCEPT !.positions[k] = row]
         IN  /\ e \in Tables /\ OnlyPositions(d, e) /\ e.positions[k] = row
             /\ \A j \in PositionKeys \ {k} : e.positions[j] = d.positions[j]
<1>1. d.positions \in [PositionKeys -> PositionRow]
  BY DEF Tables
<1> QED BY <1>1 DEF Tables, OnlyPositions

LEMMA IncreasedRow ==
  ASSUME NEW d \in Tables, NEW k \in PositionKeys, NEW pos \in Position
  PROVE  LET e == PositionIncreased(d, k, pos)
         IN  /\ e \in Tables /\ OnlyPositions(d, e)
             /\ PositionMirrors(e.positions[k], pos)
             /\ \A j \in PositionKeys \ {k} : e.positions[j] = d.positions[j]
<1> DEFINE row == positionRow(pos, d.positions[k].realizedPnlGusd)
<1>1. d.positions[k] \in PositionRow
  BY DEF Tables
<1>2. row \in PositionRow /\ PositionMirrors(row, pos)
  BY <1>1 DEF PositionRow, positionRow, Position, PositionMirrors
<1>3. PositionIncreased(d, k, pos) = [d EXCEPT !.positions[k] = row]
  BY DEF PositionIncreased
<1> HIDE DEF row
<1> QED BY <1>2, <1>3, OnePositionRow

(* A partial close: the row keeps its entry price, which is the engine's.  *)
LEMMA DecreasedRow ==
  ASSUME NEW d \in Tables, NEW k \in PositionKeys, NEW pos \in Position,
         d.positions[k].entry = pos.entry
  PROVE  LET e == PositionDecreased(d, k, pos)
         IN  /\ e \in Tables /\ OnlyPositions(d, e)
             /\ PositionMirrors(e.positions[k], pos)
             /\ \A j \in PositionKeys \ {k} : e.positions[j] = d.positions[j]
<1> DEFINE row == [positionRow(pos, d.positions[k].realizedPnlGusd)
                     EXCEPT !.entry = d.positions[k].entry]
<1>1. d.positions[k] \in PositionRow
  BY DEF Tables
<1>2. row \in PositionRow /\ PositionMirrors(row, pos)
  BY <1>1 DEF PositionRow, positionRow, Position, PositionMirrors
<1>3. PositionDecreased(d, k, pos) = [d EXCEPT !.positions[k] = row]
  BY DEF PositionDecreased
<1> HIDE DEF row
<1> QED BY <1>2, <1>3, OnePositionRow

LEMMA ClosedRow ==
  ASSUME NEW d \in Tables, NEW k \in PositionKeys
  PROVE  LET e == PositionClosed(d, k)
         IN  /\ e \in Tables /\ OnlyPositions(d, e) /\ e.positions[k].size = 0
             /\ \A j \in PositionKeys \ {k} : e.positions[j] = d.positions[j]
<1> DEFINE row == [d.positions[k] EXCEPT !.size = 0]
<1>1. d.positions[k] \in PositionRow
  BY DEF Tables
<1>2. row \in PositionRow /\ row.size = 0
  BY <1>1 DEF PositionRow
<1>3. PositionClosed(d, k) = [d EXCEPT !.positions[k] = row]
  BY DEF PositionClosed
<1> HIDE DEF row
<1> QED BY <1>2, <1>3, OnePositionRow

LEMMA LiquidatedRow ==
  ASSUME NEW d \in Tables, NEW k \in PositionKeys
  PROVE  LET e == PositionLiquidated(d, k)
         IN  /\ e \in Tables
             /\ e.orders = d.orders /\ e.markets = d.markets /\ e.claimable = d.claimable
             /\ e.stats.orderCount = d.stats.orderCount
             /\ e.stats.minOrderDelaySec = d.stats.minOrderDelaySec
             /\ e.positions[k].size = 0
             /\ \A j \in PositionKeys \ {k} : e.positions[j] = d.positions[j]
<1> DEFINE c == PositionClosed(d, k)
           counted == [d.stats EXCEPT !.liquidationCount = @ + 1]
<1>1. d.stats \in StatsRow
  BY DEF Tables
<1>2. PositionLiquidated(d, k) = [c EXCEPT !.stats = counted]
  BY DEF PositionLiquidated, PositionClosed, Tables
<1>3. /\ counted \in StatsRow /\ counted.orderCount = d.stats.orderCount
      /\ counted.minOrderDelaySec = d.stats.minOrderDelaySec
  BY <1>1 DEF StatsRow
<1>4. /\ c \in Tables /\ OnlyPositions(d, c) /\ c.positions[k].size = 0
      /\ \A j \in PositionKeys \ {k} : c.positions[j] = d.positions[j]
  BY ClosedRow
<1> HIDE DEF c, counted
<1>5. LET e == [c EXCEPT !.stats = counted]
      IN  /\ e \in Tables /\ e.positions = c.positions /\ e.orders = d.orders
          /\ e.markets = d.markets /\ e.claimable = d.claimable /\ e.stats = counted
  BY <1>3, <1>4 DEF Tables, OnlyPositions
<1> QED BY <1>2, <1>3, <1>4, <1>5

(* The events of claimable balances.                                       *)
LEMMA OneClaimableRow ==
  ASSUME NEW d \in Tables, NEW a \in Accounts, NEW row \in ClaimableRow
  PROVE  LET e == [d EXCEPT !.claimable[a] = row]
         IN  /\ e \in Tables
             /\ e.orders = d.orders /\ e.markets = d.markets /\ e.positions = d.positions
             /\ e.stats = d.stats /\ e.claimable[a] = row
             /\ \A b \in Accounts \ {a} : e.claimable[b] = d.claimable[b]
<1>1. d.claimable \in [Accounts -> ClaimableRow]
  BY DEF Tables
<1> QED BY <1>1 DEF Tables

LEMMA CreditedRow ==
  ASSUME NEW d \in Tables, NEW a \in Accounts, NEW x \in Int, NEW before \in Int,
         ClaimableMirrors(d.claimable[a], before)
  PROVE  LET e == ClaimableSettled(d, a, x)
         IN  /\ e \in Tables
             /\ e.orders = d.orders /\ e.markets = d.markets /\ e.positions = d.positions
             /\ e.stats = d.stats
             /\ ClaimableMirrors(e.claimable[a], before + x)
             /\ \A b \in Accounts \ {a} : e.claimable[b] = d.claimable[b]
<1> DEFINE r == d.claimable[a]
           up == [balance |-> r.balance + x, totalSettled |-> r.totalSettled + x,
                  totalClaimed |-> r.totalClaimed + 0]
<1>1. r \in ClaimableRow /\ d.stats \in StatsRow
  BY DEF Tables
<1>2. up \in ClaimableRow /\ ClaimableMirrors(up, before + x)
  BY <1>1 DEF ClaimableRow, ClaimableMirrors
<1>3. ClaimableSettled(d, a, x) = [d EXCEPT !.claimable[a] = up]
  BY DEF ClaimableSettled, bumpClaimable
<1> HIDE DEF up, r
<1> QED BY <1>2, <1>3, OneClaimableRow

LEMMA ClaimedRow ==
  ASSUME NEW d \in Tables, NEW a \in Accounts, NEW x \in Int, NEW before \in Int,
         ClaimableMirrors(d.claimable[a], before)
  PROVE  LET e == Claimed(d, a, x)
         IN  /\ e \in Tables
             /\ e.orders = d.orders /\ e.markets = d.markets /\ e.positions = d.positions
             /\ e.stats.orderCount = d.stats.orderCount
             /\ e.stats.minOrderDelaySec = d.stats.minOrderDelaySec
             /\ ClaimableMirrors(e.claimable[a], before - x)
             /\ \A b \in Accounts \ {a} : e.claimable[b] = d.claimable[b]
<1> DEFINE r == d.claimable[a]
           down == [balance |-> r.balance + (-x), totalSettled |-> r.totalSettled + 0,
                    totalClaimed |-> r.totalClaimed + x]
           c == [d EXCEPT !.claimable[a] = down]
           counted == [d.stats EXCEPT !.claimedGusd = @ + x]
<1>1. r \in ClaimableRow /\ d.stats \in StatsRow
  BY DEF Tables
<1>2. down \in ClaimableRow /\ ClaimableMirrors(down, before - x)
  BY <1>1 DEF ClaimableRow, ClaimableMirrors
<1>3. /\ counted \in StatsRow /\ counted.orderCount = d.stats.orderCount
      /\ counted.minOrderDelaySec = d.stats.minOrderDelaySec
  BY <1>1 DEF StatsRow
<1>4. Claimed(d, a, x) = [c EXCEPT !.stats.claimedGusd = @ + x]
  BY DEF Claimed, bumpClaimable
<1> HIDE DEF down, r, counted, c
<1>5. /\ c \in Tables /\ c.orders = d.orders /\ c.markets = d.markets
      /\ c.positions = d.positions /\ c.stats = d.stats /\ c.claimable[a] = down
      /\ \A b \in Accounts \ {a} : c.claimable[b] = d.claimable[b]
  BY <1>2, OneClaimableRow DEF c
<1>6. [c EXCEPT !.stats.claimedGusd = @ + x] = [c EXCEPT !.stats = counted]
  BY <1>5 DEF counted
<1>7. LET e == [c EXCEPT !.stats = counted]
      IN  /\ e \in Tables /\ e.positions = c.positions /\ e.orders = d.orders
          /\ e.markets = d.markets /\ e.claimable = c.claimable /\ e.stats = counted
  BY <1>3, <1>5 DEF Tables
<1> QED BY <1>2, <1>3, <1>4, <1>5, <1>6, <1>7

-----------------------------------------------------------------------------
(* The inductive invariant                                                 *)

(* The rows, column by column.                                             *)
Mirror ==
  /\ db \in Tables
  /\ db.orders = orders
  /\ \A k \in PositionKeys : PositionMirrors(db.positions[k], positions[k])
  /\ \A g \in GpuIds : MarketMirrors(db.markets[g], market[g])
  /\ \A a \in Accounts : ClaimableMirrors(db.claimable[a], claimableOf[a])
  /\ db.stats.orderCount = orderNonce
  /\ db.stats.minOrderDelaySec \in {Null, minOrderDelay}

(* Orders are taken only for markets that exist, and a market that does    *)
(* not exist has not been written: creating it starts from zero, as its    *)
(* row does.                                                               *)
Registered ==
  /\ \A id \in OrderIds : orders[id].status # "None" => market[orders[id].market].exists
  /\ \A g \in GpuIds : ~market[g].exists => market[g] = NoMarket
  /\ \A g \in GpuIds : market[g].exists => market[g].params.maintenanceMarginBps # 0

(* The invariant gives the property the runs check.                        *)
LEMMA MirrorExact == TypeOK /\ Mirror => RowsMirrorEngine
<1> SUFFICES ASSUME TypeOK, Mirror PROVE RowsMirrorEngine
  OBVIOUS
<1>1. ASSUME NEW k \in PositionKeys
      PROVE  IF positions[k].size = 0 THEN db.positions[k].size = 0
             ELSE SamePosition(db.positions[k], positions[k])
  <2>1. /\ positions[k] \in Position /\ db.positions[k] \in PositionRow
        /\ PositionMirrors(db.positions[k], positions[k])
    BY DEF Mirror, TypeOK, Tables
  <2> QED BY <2>1, PositionRowExact DEF PositionMirrors
<1>2. ASSUME NEW g \in GpuIds
      PROVE  db.markets[g] = [market[g] EXCEPT !.openLong = db.markets[g].openLong,
                                               !.openShort = db.markets[g].openShort]
  <2>1. /\ market[g] \in Market /\ db.markets[g] \in Market
        /\ MarketMirrors(db.markets[g], market[g])
    BY DEF Mirror, TypeOK, Tables
  <2> QED BY <2>1, MarketRowExact
<1> QED BY <1>1, <1>2 DEF Mirror, RowsMirrorEngine, ClaimableMirrors

(* Empty tables stand for the initial state.                               *)
LEMMA MirrorInit == IndexedInit => Core /\ Mirror /\ Registered
<1> SUFFICES ASSUME IndexedInit PROVE Core /\ Mirror /\ Registered
  OBVIOUS
<1>1. Core /\ Init /\ db = EmptyTables
  BY CoreInit DEF IndexedInit
<1>2. TypeOK
  BY <1>1 DEF Core
<1>3. \A id \in OrderIds : orders[id].status = "None"
  BY <1>1 DEF Init, NoOrder
<1>4. Registered
  BY <1>1, <1>3 DEF Registered, Init, NoMarket
<1>5. NoMarket \in Market
  BY DEF NoMarket, Market, MarketParams
<1>6. positionRow(NoPosition, 0) \in PositionRow
  BY DEF positionRow, NoPosition, PositionRow
<1>7. [id \in OrderIds |-> NoOrder] \in [OrderIds -> Order]
  BY <1>1, <1>2 DEF Init, TypeOK
<1>8. db \in Tables
  BY <1>1, <1>5, <1>6, <1>7 DEF EmptyTables, Tables, ClaimableRow, StatsRow, zeroEngineStats, Null
<1>9. /\ db.orders = orders
      /\ \A k \in PositionKeys : PositionMirrors(db.positions[k], positions[k])
      /\ \A g \in GpuIds : MarketMirrors(db.markets[g], market[g])
      /\ \A a \in Accounts : ClaimableMirrors(db.claimable[a], claimableOf[a])
      /\ db.stats.orderCount = orderNonce
      /\ db.stats.minOrderDelaySec = Null
  BY <1>1 DEF Init, EmptyTables, PositionMirrors, MarketMirrors, ClaimableMirrors,
              positionRow, NoPosition, NoMarket, zeroEngineStats
<1> QED BY <1>1, <1>4, <1>8, <1>9 DEF Mirror

-----------------------------------------------------------------------------
(* The composite events of a transaction                                   *)

(* The accrual of a transaction brings its market's row up to date.        *)
LEMMA AccruedRows ==
  ASSUME Core, market' \in [GpuIds -> Market], NEW d \in Tables, NEW g \in GpuIds,
         market[g].exists, MarketMirrors(d.markets[g], market[g]),
         SameCumulatives(market'[g], accrue(market[g], now))
  PROVE  LET e == accrued(d, g)
         IN  /\ e \in Tables /\ OnlyMarkets(d, e)
             /\ \A h \in GpuIds \ {g} : e.markets[h] = d.markets[h]
             /\ MarketMirrors(e.markets[g], accrue(market[g], now))
<1> DEFINE n == accrue(market[g], now)
<1>1. market[g] \in Market /\ now \in Nat /\ market'[g] \in Market
  BY DEF Core, TypeOK
<1>2. /\ n \in Market /\ n.params = market[g].params /\ n.exists = market[g].exists
      /\ n.enabled = market[g].enabled
  BY <1>1, AccrueFacts
<1>3. ~(now > market[g].updatedAt) => n = market[g]
  <2>1. market[g].updatedAt \in Nat
    BY <1>1 DEF Market
  <2> QED BY <1>1, <2>1 DEF accrue
<1> HIDE DEF n
<1>4. CASE now > market[g].updatedAt
  <2>1. accrued(d, g) = FundingAccrued(d, g, market'[g])
    BY <1>4 DEF accrued
  <2>2. SameCumulatives(market'[g], n)
    BY DEF n
  <2>3. /\ d.markets[g].exists /\ n.exists /\ d.markets[g].enabled = n.enabled
        /\ d.markets[g].params = n.params
        /\ d.markets[g].openLong = 0 /\ d.markets[g].openShort = 0
    BY <1>2 DEF MarketMirrors
  <2>4. LET e == FundingAccrued(d, g, market'[g])
        IN  /\ e \in Tables /\ OnlyMarkets(d, e)
            /\ \A h \in GpuIds \ {g} : e.markets[h] = d.markets[h]
            /\ MarketMirrors(e.markets[g], n)
    BY <1>1, <1>2, <2>2, <2>3, FundingRow
  <2> QED BY <2>1, <2>4 DEF n
<1>5. CASE ~(now > market[g].updatedAt)
  <2>1. accrued(d, g) = d
    BY <1>5 DEF accrued
  <2>2. n = market[g]
    BY <1>3, <1>5
  <2> QED BY <2>1, <2>2 DEF OnlyMarkets, n
<1> QED BY <1>4, <1>5

(* Open interest is not a column: moving it leaves the row in agreement.   *)
LEMMA OpenInterestUnseen ==
  ASSUME NEW m \in Market, NEW isLong, NEW delta
  PROVE  LET n == addOpenInterest(m, isLong, delta)
         IN  /\ SameCumulatives(n, m) /\ n.exists = m.exists /\ n.params = m.params
             /\ \A row : MarketMirrors(row, m) => MarketMirrors(row, n)
<1> DEFINE n == addOpenInterest(m, isLong, delta)
<1>1. /\ n.exists = m.exists /\ n.enabled = m.enabled /\ n.params = m.params
      /\ n.chargeLong = m.chargeLong /\ n.chargeShort = m.chargeShort
      /\ n.creditLong = m.creditLong /\ n.creditShort = m.creditShort
      /\ n.borrow = m.borrow /\ n.updatedAt = m.updatedAt
  BY DEF addOpenInterest, Market
<1> HIDE DEF n
<1>2. SameCumulatives(n, m) /\ \A row : MarketMirrors(row, m) => MarketMirrors(row, n)
  BY <1>1 DEF SameCumulatives, MarketMirrors
<1> QED BY <1>1, <1>2 DEF n

(* A credit is folded in once, and a credit of zero not at all.            *)
LEMMA SettledRows ==
  ASSUME claimableOf \in [Accounts -> Nat], NEW d \in Tables, NEW a \in Accounts, NEW due \in Nat,
         claimableOf' = [claimableOf EXCEPT ![a] = @ + due],
         \A b \in Accounts : ClaimableMirrors(d.claimable[b], claimableOf[b])
  PROVE  LET e == settled(d, a)
         IN  /\ e \in Tables
             /\ e.orders = d.orders /\ e.markets = d.markets /\ e.positions = d.positions
             /\ e.stats = d.stats
             /\ \A b \in Accounts : ClaimableMirrors(e.claimable[b], claimableOf'[b])
<1>1. /\ claimableOf[a] \in Int /\ claimableOf'[a] - claimableOf[a] = due
      /\ claimableOf'[a] = claimableOf[a] + due
      /\ \A b \in Accounts \ {a} : claimableOf'[b] = claimableOf[b]
  OBVIOUS
<1>2. CASE due > 0
  <2>1. settled(d, a) = ClaimableSettled(d, a, due)
    BY <1>1, <1>2 DEF settled
  <2>2. LET e == ClaimableSettled(d, a, due)
        IN  /\ e \in Tables
            /\ e.orders = d.orders /\ e.markets = d.markets /\ e.positions = d.positions
            /\ e.stats = d.stats
            /\ ClaimableMirrors(e.claimable[a], claimableOf'[a])
            /\ \A b \in Accounts \ {a} : e.claimable[b] = d.claimable[b]
    BY <1>1, CreditedRow
  <2> QED BY <1>1, <2>1, <2>2
<1>3. CASE due = 0
  <2>1. settled(d, a) = d
    BY <1>1, <1>3 DEF settled
  <2>2. \A b \in Accounts : claimableOf'[b] = claimableOf[b]
    BY <1>1, <1>3
  <2> QED BY <2>1, <2>2
<1> QED BY <1>2, <1>3

-----------------------------------------------------------------------------
(* Every step of the engine keeps the registry                             *)

LEMMA RegistryStep ==
  ASSUME Core, Core', Registered,
         \A g \in GpuIds : \/ market'[g] = market[g]
                           \/ market'[g].exists /\ market'[g].params.maintenanceMarginBps # 0,
         \A id \in OrderIds : orders'[id].status # "None" =>
            \/ orders[id].status # "None" /\ orders'[id].market = orders[id].market
            \/ market[orders'[id].market].exists
  PROVE  Registered'
<1>1. \A id \in OrderIds : orders'[id].market \in GpuIds /\ orders[id].market \in GpuIds
  BY DEF Core, TypeOK, Order
<1>2. \A g \in GpuIds : market[g].exists => market'[g].exists
  BY DEF Registered
<1>3. \A id \in OrderIds : orders'[id].status # "None" => market'[orders'[id].market].exists
  BY <1>1, <1>2 DEF Registered
<1>4. \A g \in GpuIds : /\ ~market'[g].exists => market'[g] = NoMarket
                        /\ market'[g].exists => market'[g].params.maintenanceMarginBps # 0
  BY DEF Registered
<1> QED BY <1>3, <1>4 DEF Registered

-----------------------------------------------------------------------------
(* Every transaction keeps the mirror                                      *)

(* A step that emits nothing moves nothing the tables hold.                *)
LEMMA QuietMirrored ==
  ASSUME Core, Core', Mirror, Registered,
         UNCHANGED <<market, orders, orderNonce, positions, claimableOf, minOrderDelay, db>>
  PROVE  Mirror' /\ Registered'
<1>1. Mirror'
  BY DEF Mirror
<1> QED BY <1>1, RegistryStep

(* A step that writes one market and its row.                              *)
LEMMA MarketMirrored ==
  ASSUME Core, Core', Mirror, Registered, NEW g \in GpuIds,
         UNCHANGED <<orders, orderNonce, positions, claimableOf, minOrderDelay>>,
         \A h \in GpuIds \ {g} : market'[h] = market[h],
         market'[g].exists, market'[g].params.maintenanceMarginBps # 0,
         db' \in Tables, OnlyMarkets(db, db'),
         \A h \in GpuIds \ {g} : db'.markets[h] = db.markets[h],
         MarketMirrors(db'.markets[g], market'[g])
  PROVE  Mirror' /\ Registered'
<1>1. Registered'
  BY RegistryStep
<1>2. \A h \in GpuIds : MarketMirrors(db'.markets[h], market'[h])
  BY DEF Mirror
<1> QED BY <1>1, <1>2 DEF Mirror, OnlyMarkets

LEMMA CreateMarketMirrored ==
  ASSUME Core, Core', Mirror, Registered, NEW g \in GpuIds, NEW p \in ParamChoices,
         createMarket(g, p), db' = MarketCreated(db, g, p)
  PROVE  Mirror' /\ Registered'
<1> DEFINE row == [NoMarket EXCEPT !.exists = TRUE, !.enabled = TRUE,
                                   !.params = p, !.updatedAt = now]
<1>1. /\ market \in [GpuIds -> Market] /\ now \in Nat /\ p \in MarketParams
      /\ db \in Tables /\ db.markets \in [GpuIds -> Market]
  BY ParamChoicesTyped DEF Core, TypeOK, Mirror, Tables
<1>2. /\ market' = [market EXCEPT ![g].exists = TRUE, ![g].enabled = TRUE,
                                  ![g].params = p, ![g].updatedAt = now]
      /\ UNCHANGED <<orders, orderNonce, positions, claimableOf, minOrderDelay>>
      /\ market[g] = NoMarket /\ p.maintenanceMarginBps # 0
  BY DEF createMarket, adminVars, Registered, ValidParams
<1>3. /\ \A h \in GpuIds \ {g} : market'[h] = market[h]
      /\ market'[g] = row
  BY <1>1, <1>2
<1>4. /\ row.exists /\ row.params = p /\ MarketMirrors(row, row) /\ row \in Market
  BY <1>1 DEF NoMarket, MarketMirrors, Market
<1>5. db' = [db EXCEPT !.markets[g] = row]
  BY DEF MarketCreated
<1> HIDE DEF row
<1>6. /\ db' \in Tables /\ OnlyMarkets(db, db') /\ db'.markets[g] = row
      /\ \A h \in GpuIds \ {g} : db'.markets[h] = db.markets[h]
  BY <1>1, <1>4, <1>5, OneMarketRow
<1>7. /\ market'[g].exists /\ market'[g].params.maintenanceMarginBps # 0
      /\ MarketMirrors(db'.markets[g], market'[g])
  BY <1>2, <1>3, <1>4, <1>6
<1> QED BY <1>2, <1>3, <1>6, <1>7, MarketMirrored

LEMMA SetParamsMirrored ==
  ASSUME Core, Core', Mirror, Registered, NEW g \in GpuIds, NEW p \in ParamChoices,
         setMarketParams(g, p), db' = MarketParamsUpdated(accrued(db, g), g, p)
  PROVE  Mirror' /\ Registered'
<1> DEFINE n == accrue(market[g], now)
           d == accrued(db, g)
<1>1. /\ market \in [GpuIds -> Market] /\ now \in Nat /\ p \in MarketParams
      /\ db \in Tables /\ market' \in [GpuIds -> Market]
      /\ MarketMirrors(db.markets[g], market[g])
  BY ParamChoicesTyped DEF Core, TypeOK, Mirror
<1>2. /\ market' = [market EXCEPT ![g] = [n EXCEPT !.params = p]] /\ market[g].exists
      /\ UNCHANGED <<orders, orderNonce, positions, claimableOf, minOrderDelay>>
      /\ p.maintenanceMarginBps # 0
  BY DEF setMarketParams, adminVars, ValidParams
<1>3. n \in Market /\ n.exists
  BY <1>1, <1>2, AccrueFacts
<1> HIDE DEF n
<1>4. /\ \A h \in GpuIds \ {g} : market'[h] = market[h]
      /\ market'[g] = [n EXCEPT !.params = p]
  BY <1>1, <1>2
<1>5. SameCumulatives(market'[g], n) /\ market'[g].exists /\ market'[g].params = p
  BY <1>3, <1>4 DEF SameCumulatives, Market
<1>6. /\ d \in Tables /\ OnlyMarkets(db, d)
      /\ \A h \in GpuIds \ {g} : d.markets[h] = db.markets[h]
      /\ MarketMirrors(d.markets[g], n)
  BY <1>1, <1>2, <1>5, AccruedRows DEF n
<1> HIDE DEF d
<1>7. d.markets \in [GpuIds -> Market] /\ d.markets[g].exists
  BY <1>3, <1>6 DEF Tables, MarketMirrors
<1> DEFINE row == [d.markets[g] EXCEPT !.params = p]
<1>8. row \in Market /\ MarketMirrors(row, market'[g])
  <2>1. d.markets[g] \in Market
    BY <1>7
  <2> QED BY <1>1, <1>3, <1>4, <1>6, <2>1 DEF MarketMirrors, Market
<1>9. db' = [d EXCEPT !.markets[g] = row]
  BY <1>7 DEF MarketParamsUpdated, d
<1> HIDE DEF row
<1>10. /\ db' \in Tables /\ OnlyMarkets(d, db') /\ db'.markets[g] = row
       /\ \A h \in GpuIds \ {g} : db'.markets[h] = db.markets[h]
  BY <1>6, <1>8, <1>9, OneMarketRow
<1>11. OnlyMarkets(db, db')
  BY <1>6, <1>10 DEF OnlyMarkets
<1> QED BY <1>2, <1>4, <1>5, <1>8, <1>10, <1>11, MarketMirrored

LEMMA SetEnabledMirrored ==
  ASSUME Core, Core', Mirror, Registered, NEW g \in GpuIds, NEW b \in BOOLEAN,
         setMarketEnabled(g, b), db' = MarketEnabled(db, g, b)
  PROVE  Mirror' /\ Registered'
<1>1. /\ market \in [GpuIds -> Market] /\ market[g] \in Market /\ now \in Nat /\ db \in Tables
      /\ db.markets \in [GpuIds -> Market] /\ db.markets[g] \in Market
      /\ MarketMirrors(db.markets[g], market[g])
      /\ market[g].params.maintenanceMarginBps # 0
  BY DEF Core, TypeOK, Mirror, Tables, setMarketEnabled, Registered
<1>2. /\ market' = [market EXCEPT ![g].enabled = b] /\ market[g].exists
      /\ UNCHANGED <<orders, orderNonce, positions, claimableOf, minOrderDelay>>
  BY DEF setMarketEnabled, adminVars
<1>3. /\ \A h \in GpuIds \ {g} : market'[h] = market[h]
      /\ market'[g] = [market[g] EXCEPT !.enabled = b]
      /\ market'[g].exists /\ market'[g].params = market[g].params
  BY <1>1, <1>2 DEF Market
<1> DEFINE row == [db.markets[g] EXCEPT !.enabled = b]
<1>4. row \in Market /\ MarketMirrors(row, market'[g])
  <2>1. row \in Market
    BY <1>1 DEF Market
  <2>2. row.enabled = b /\ market'[g].enabled = b
    BY <1>1, <1>3 DEF Market
  <2>3. /\ row.exists = db.markets[g].exists /\ row.params = db.markets[g].params
        /\ row.openLong = db.markets[g].openLong /\ row.openShort = db.markets[g].openShort
        /\ SameCumulatives(row, db.markets[g])
    BY <1>1 DEF Market, SameCumulatives
  <2>4. /\ market'[g].exists = market[g].exists /\ market'[g].params = market[g].params
        /\ SameCumulatives(market'[g], market[g])
    BY <1>1, <1>3 DEF Market, SameCumulatives
  <2> HIDE DEF row
  <2> QED BY <1>1, <2>1, <2>2, <2>3, <2>4, Zenon DEF MarketMirrors, SameCumulatives
<1>5. db' = [db EXCEPT !.markets[g] = row]
  <2>1. db.markets[g].exists
    BY <1>1, <1>2 DEF MarketMirrors
  <2> QED BY <2>1 DEF MarketEnabled
<1> HIDE DEF row
<1>6. /\ db' \in Tables /\ OnlyMarkets(db, db') /\ db'.markets[g] = row
      /\ \A h \in GpuIds \ {g} : db'.markets[h] = db.markets[h]
  BY <1>1, <1>4, <1>5, OneMarketRow
<1> QED BY <1>1, <1>2, <1>3, <1>4, <1>6, MarketMirrored

LEMMA SetDelayMirrored ==
  ASSUME Core, Core', Mirror, Registered, NEW s \in Delays,
         setMinOrderDelay(s), db' = MinOrderDelaySet(db, s)
  PROVE  Mirror' /\ Registered'
<1>1. /\ UNCHANGED <<market, orders, orderNonce, positions, claimableOf>>
      /\ minOrderDelay' = s /\ s \in Int
  BY PerpConstants DEF setMinOrderDelay, engineVars
<1>2. db \in Tables /\ db.stats \in StatsRow
  BY DEF Mirror, Tables
<1>3. /\ db' \in Tables /\ db'.orders = db.orders /\ db'.positions = db.positions
      /\ db'.markets = db.markets /\ db'.claimable = db.claimable
      /\ db'.stats.orderCount = db.stats.orderCount /\ db'.stats.minOrderDelaySec = s
  <2> DEFINE row == [db.stats EXCEPT !.minOrderDelaySec = s]
  <2>1. row \in StatsRow /\ row.orderCount = db.stats.orderCount /\ row.minOrderDelaySec = s
    BY <1>1, <1>2 DEF StatsRow
  <2>2. db' = [db EXCEPT !.stats = row]
    BY DEF MinOrderDelaySet
  <2> HIDE DEF row
  <2> QED BY <1>2, <2>1, <2>2 DEF Tables
<1>4. Mirror'
  BY <1>1, <1>3 DEF Mirror
<1> QED BY <1>1, <1>4, RegistryStep

(* A new order, on tables that already hold what it replaces.              *)
LEMMA NewOrderMirrored ==
  ASSUME Core, Core', Mirror, Registered, NEW d \in Tables, OnlyOrders(db, d), NEW o,
         orders' = [d.orders EXCEPT ![orderNonce + 1] = o], market[o.market].exists,
         orderNonce < MaxOrders, orderNonce' = orderNonce + 1,
         UNCHANGED <<market, positions, claimableOf, minOrderDelay>>,
         \A id \in OrderIds : /\ d.orders[id].market = orders[id].market
                              /\ d.orders[id].status # "None" => orders[id].status # "None",
         db' = newOrder(d)
  PROVE  Mirror' /\ Registered'
<1>1. /\ orderNonce \in 0..MaxOrders /\ MaxOrders \in Nat /\ orders' \in [OrderIds -> Order]
      /\ d.orders \in [OrderIds -> Order] /\ d.stats \in StatsRow
  BY PerpConstants DEF Core, TypeOK, Tables
<1>2. orderNonce' \in OrderIds /\ orders' = [d.orders EXCEPT ![orderNonce'] = o]
  BY <1>1 DEF OrderIds
<1>3. orders'[orderNonce'] = o /\ o \in Order
  BY <1>1, <1>2
<1>5. /\ db' \in Tables
      /\ db'.orders = [d.orders EXCEPT ![orderNonce'] = o]
      /\ db'.stats = [d.stats EXCEPT !.orderCount = @ + 1]
      /\ db'.markets = d.markets /\ db'.positions = d.positions /\ db'.claimable = d.claimable
  <2>1. db' = OrderCreated(d, orderNonce', o)
    BY <1>3 DEF newOrder
  <2> QED BY <1>2, <1>3, <2>1, CreatedRows
<1>6. /\ db'.stats.orderCount = d.stats.orderCount + 1
      /\ db'.stats.minOrderDelaySec = d.stats.minOrderDelaySec
  BY <1>1, <1>5 DEF StatsRow
<1>7. Mirror'
  BY <1>2, <1>5, <1>6 DEF Mirror, OnlyOrders
<1>8. \A id \in OrderIds : orders'[id].status # "None" =>
        \/ orders[id].status # "None" /\ orders'[id].market = orders[id].market
        \/ market[orders'[id].market].exists
  BY <1>1, <1>2
<1> QED BY <1>7, <1>8, RegistryStep

LEMMA MarketOrderMirrored ==
  ASSUME Core, Core', Mirror, Registered, NEW a \in Accounts, NEW g \in GpuIds,
         NEW l \in BOOLEAN, NEW s, NEW c, NEW p, NEW f,
         createIncrease(a, g, l, s, c, p, f) \/ createDecrease(a, g, l, s, p, f),
         db' = newOrder(db)
  PROVE  Mirror' /\ Registered'
<1>1. PICK o : /\ orders' = [orders EXCEPT ![orderNonce + 1] = o] /\ o.market = g
               /\ Enter(o, 0)
  BY DEF createIncrease, createDecrease, NewOrder
<1>2. /\ market[o.market].exists /\ orderNonce < MaxOrders /\ orderNonce' = orderNonce + 1
      /\ UNCHANGED <<market, positions, claimableOf, minOrderDelay>>
  BY <1>1 DEF Enter, adminVars
<1>3. db \in Tables /\ OnlyOrders(db, db) /\ db.orders = orders
  BY DEF Mirror, OnlyOrders
<1> QED BY <1>1, <1>2, <1>3, NewOrderMirrored

LEMMA TriggerOrderMirrored ==
  ASSUME Core, Core', Mirror, Registered, NEW a \in Accounts, NEW g \in GpuIds,
         NEW l \in BOOLEAN, NEW k \in TriggerKinds, NEW s, NEW p, NEW f,
         createTrigger(a, g, l, k, s, p, f), db' = newOrder(replaced(db, a, g, l, k))
  PROVE  Mirror' /\ Registered'
<1> DEFINE o == NewOrder(a, g, l, k, s, 0, 0, p, f)
           old == activeTrigger[<<<<a, g, l>>, k>>]
           d == replaced(db, a, g, l, k)
<1>1. TriggerKeyOf(o) = <<<<a, g, l>>, k>> /\ o.market = g
  BY DEF TriggerKeyOf, KeyOf, NewOrder
<1>2. /\ Enter(o, IF old # 0 THEN escrow(orders[old]) ELSE 0)
      /\ orders' = [IF old # 0 THEN cancelled(orders, old) ELSE orders
                      EXCEPT ![orderNonce + 1] = o]
      /\ old # 0 => orders[old].status = "Pending"
  BY <1>1 DEF createTrigger
<1>3. /\ market[o.market].exists /\ orderNonce < MaxOrders /\ orderNonce' = orderNonce + 1
      /\ UNCHANGED <<market, positions, claimableOf, minOrderDelay>>
  BY <1>2 DEF Enter, adminVars
<1>4. /\ old # 0 => old \in OrderIds
      /\ db \in Tables /\ db.orders = orders /\ orders \in [OrderIds -> Order]
  <2>1. <<<<a, g, l>>, k>> \in TriggerKeys
    BY DEF TriggerKeys, PositionKeys
  <2>2. old \in 0..MaxOrders /\ MaxOrders \in Nat
    BY <2>1, PerpConstants DEF Core, TypeOK
  <2>3. old # 0 => old \in OrderIds
    BY <2>2 DEF OrderIds
  <2> QED BY <2>3 DEF Core, TypeOK, Mirror
<1> HIDE DEF o, old
<1>5. CASE old # 0
  <2>1. d = OrderCancelled(db, old)
    BY <1>5 DEF replaced, old
  <2>2. old \in OrderIds /\ orders[old] \in Order
    BY <1>4, <1>5
  <2>4. /\ d \in Tables /\ OnlyOrders(db, d)
        /\ d.orders = [db.orders EXCEPT ![old].status = "Cancelled"]
    BY <1>4, <2>1, <2>2, CancelledRows
  <2> HIDE DEF d
  <2>5. d.orders = cancelled(orders, old)
    BY <1>4, <2>4 DEF cancelled
  <2>6. \A id \in OrderIds : /\ d.orders[id].market = orders[id].market
                             /\ d.orders[id].status # "None" => orders[id].status # "None"
    <3>1. ASSUME NEW id \in OrderIds
          PROVE  /\ d.orders[id].market = orders[id].market
                 /\ d.orders[id].status # "None" => orders[id].status # "None"
      <4>1. orders[id] \in Order
        BY <1>4
      <4>2. CASE id = old
        BY <1>2, <1>4, <1>5, <2>4, <4>1, <4>2 DEF Order
      <4>3. CASE id # old
        BY <1>4, <2>4, <4>3
      <4> QED BY <4>2, <4>3
    <3> QED BY <3>1
  <2>7. orders' = [d.orders EXCEPT ![orderNonce + 1] = o] /\ db' = newOrder(d)
    BY <1>2, <1>5, <2>5 DEF d
  <2> QED BY <1>3, <2>4, <2>6, <2>7, NewOrderMirrored
<1>6. CASE old = 0
  <2>1. d = db
    BY <1>6 DEF replaced, old
  <2>2. OnlyOrders(db, db)
    BY DEF OnlyOrders
  <2>3. orders' = [db.orders EXCEPT ![orderNonce + 1] = o] /\ db' = newOrder(db)
    BY <1>2, <1>4, <1>6, <2>1
  <2> HIDE DEF d
  <2> QED BY <1>3, <1>4, <2>2, <2>3, NewOrderMirrored
<1> QED BY <1>5, <1>6

(* An order that is spent, on tables whose other rows are the new state's. *)
LEMMA SpentOrderMirrored ==
  ASSUME Core, Core', Mirror, Registered, NEW id \in OrderIds, orders[id].status = "Pending",
         NEW status \in {"Executed", "Cancelled"},
         orders' = [orders EXCEPT ![id].status = status],
         UNCHANGED <<orderNonce, minOrderDelay>>,
         \A g \in GpuIds : \/ market'[g] = market[g]
                           \/ market'[g].exists /\ market'[g].params.maintenanceMarginBps # 0,
         db' \in Tables, db'.orders = [db.orders EXCEPT ![id].status = status],
         \A k \in PositionKeys : PositionMirrors(db'.positions[k], positions'[k]),
         \A g \in GpuIds : MarketMirrors(db'.markets[g], market'[g]),
         \A a \in Accounts : ClaimableMirrors(db'.claimable[a], claimableOf'[a]),
         db'.stats.orderCount = db.stats.orderCount,
         db'.stats.minOrderDelaySec = db.stats.minOrderDelaySec
  PROVE  Mirror' /\ Registered'
<1>1. orders \in [OrderIds -> Order]
  BY DEF Core, TypeOK
<1>2. \A j \in OrderIds : orders'[j].status # "None" =>
        orders[j].status # "None" /\ orders'[j].market = orders[j].market
  <2>1. ASSUME NEW j \in OrderIds
        PROVE  orders'[j].status # "None" =>
                 orders[j].status # "None" /\ orders'[j].market = orders[j].market
    <3>1. orders[j] \in Order
      BY <1>1
    <3> QED BY <1>1, <3>1 DEF Order
  <2> QED BY <2>1
<1>3. Mirror'
  BY DEF Mirror
<1> QED BY <1>2, <1>3, RegistryStep

LEMMA CancelMirrored ==
  ASSUME Core, Core', Mirror, Registered, NEW id \in OrderIds,
         cancelOrder(id), db' = OrderCancelled(db, id)
  PROVE  Mirror' /\ Registered'
<1>1. /\ orders[id].status = "Pending"
      /\ orders' = [orders EXCEPT ![id].status = "Cancelled"]
      /\ UNCHANGED <<market, positions, claimableOf, orderNonce, minOrderDelay>>
  BY DEF cancelOrder, cancelled, adminVars
<1>2. orders[id] \in Order /\ db \in Tables
  BY DEF Core, TypeOK, Mirror
<1>4. /\ db' \in Tables /\ OnlyOrders(db, db')
      /\ db'.orders = [db.orders EXCEPT ![id].status = "Cancelled"]
  BY <1>2, CancelledRows
<1>5. /\ \A k \in PositionKeys : PositionMirrors(db'.positions[k], positions'[k])
      /\ \A g \in GpuIds : MarketMirrors(db'.markets[g], market'[g]) /\ market'[g] = market[g]
      /\ \A a \in Accounts : ClaimableMirrors(db'.claimable[a], claimableOf'[a])
      /\ db'.stats = db.stats
  BY <1>1, <1>4 DEF Mirror, OnlyOrders
<1> QED BY <1>1, <1>4, <1>5, SpentOrderMirrored

(* A partial payment leaves the rest claimable, in the row as well.        *)
LEMMA ClaimMirrored ==
  ASSUME Core, Core', Mirror, Registered, NEW a \in Accounts, NEW x \in ClaimAmounts,
         NEW to \in Payees, claim(a, x, to), db' = Claimed(db, a, claimableOf[a] - claimableOf'[a])
  PROVE  Mirror' /\ Registered'
<1> DEFINE paid == claimableOf[a] - claimableOf'[a]
<1>1. /\ UNCHANGED <<market, orders, orderNonce, positions, minOrderDelay>>
      /\ \A b \in Accounts \ {a} : claimableOf'[b] = claimableOf[b]
  BY DEF claim, adminVars, Core, TypeOK
<1>2. /\ claimableOf[a] \in Int /\ claimableOf'[a] \in Int /\ paid \in Int /\ db \in Tables
      /\ claimableOf'[a] = claimableOf[a] - paid
      /\ ClaimableMirrors(db.claimable[a], claimableOf[a])
  BY DEF Core, TypeOK, Mirror
<1> HIDE DEF paid
<1> DEFINE e == Claimed(db, a, paid)
<1>3. /\ e \in Tables
      /\ e.orders = db.orders /\ e.markets = db.markets /\ e.positions = db.positions
      /\ e.stats.orderCount = db.stats.orderCount
      /\ e.stats.minOrderDelaySec = db.stats.minOrderDelaySec
      /\ ClaimableMirrors(e.claimable[a], claimableOf[a] - paid)
      /\ \A b \in Accounts \ {a} : e.claimable[b] = db.claimable[b]
  BY <1>2, ClaimedRow
<1>4. /\ db' \in Tables
      /\ db'.orders = db.orders /\ db'.markets = db.markets /\ db'.positions = db.positions
      /\ db'.stats.orderCount = db.stats.orderCount
      /\ db'.stats.minOrderDelaySec = db.stats.minOrderDelaySec
      /\ ClaimableMirrors(db'.claimable[a], claimableOf[a] - paid)
      /\ \A b \in Accounts \ {a} : db'.claimable[b] = db.claimable[b]
  <2>1. db' = e
    BY DEF paid
  <2> HIDE DEF e
  <2> QED BY <1>3, <2>1
<1>5. \A b \in Accounts : ClaimableMirrors(db'.claimable[b], claimableOf'[b])
  BY <1>1, <1>2, <1>4 DEF Mirror
<1>6. Mirror'
  BY <1>1, <1>4, <1>5 DEF Mirror
<1> QED BY <1>1, <1>6, RegistryStep

(* The accrual that precedes every execution: the market's row follows,    *)
(* whatever the execution then does to the open interest.                  *)
LEMMA TouchedMarkets ==
  ASSUME Core, Core', Mirror, Registered, NEW g \in GpuIds, market[g].exists, NEW n,
         market' = [market EXCEPT ![g] = n],
         \/ n = accrue(market[g], now)
         \/ \E l, delta : n = addOpenInterest(accrue(market[g], now), l, delta)
  PROVE  /\ LET d == accrued(db, g)
            IN  /\ d \in Tables /\ OnlyMarkets(db, d)
                /\ \A h \in GpuIds : MarketMirrors(d.markets[h], market'[h])
         /\ \A h \in GpuIds : \/ market'[h] = market[h]
                              \/ /\ market'[h].exists
                                 /\ market'[h].params.maintenanceMarginBps # 0
<1> DEFINE m == accrue(market[g], now)
           d == accrued(db, g)
<1>1. /\ market \in [GpuIds -> Market] /\ market' \in [GpuIds -> Market] /\ now \in Nat
      /\ market[g] \in Market /\ db \in Tables /\ MarketMirrors(db.markets[g], market[g])
      /\ market[g].params.maintenanceMarginBps # 0
  BY DEF Core, TypeOK, Mirror, Registered
<1>2. /\ market'[g] = n
      /\ \A h \in GpuIds \ {g} : market'[h] = market[h]
  BY <1>1
<1>3. m \in Market /\ m.exists /\ m.params = market[g].params
  BY <1>1, AccrueFacts
<1> HIDE DEF m
<1>4. /\ SameCumulatives(n, m) /\ n.exists = m.exists /\ n.params = m.params
      /\ \A row : MarketMirrors(row, m) => MarketMirrors(row, n)
  <2>1. CASE n = m
    BY <2>1 DEF SameCumulatives
  <2>2. CASE \E l, delta : n = addOpenInterest(m, l, delta)
    <3>1. PICK l, delta : n = addOpenInterest(m, l, delta)
      BY <2>2
    <3> QED BY <1>3, <3>1, OpenInterestUnseen
  <2> QED BY <2>1, <2>2 DEF m
<1>5. SameCumulatives(market'[g], accrue(market[g], now))
  BY <1>2, <1>4 DEF m
<1>6. /\ d \in Tables /\ OnlyMarkets(db, d)
      /\ \A h \in GpuIds \ {g} : d.markets[h] = db.markets[h]
      /\ MarketMirrors(d.markets[g], m)
  BY <1>1, <1>5, AccruedRows DEF m
<1> HIDE DEF d
<1>7. \A h \in GpuIds : MarketMirrors(d.markets[h], market'[h])
  BY <1>2, <1>4, <1>6 DEF Mirror
<1>8. \A h \in GpuIds : \/ market'[h] = market[h]
                        \/ market'[h].exists /\ market'[h].params.maintenanceMarginBps # 0
  BY <1>1, <1>2, <1>3, <1>4
<1> QED BY <1>6, <1>7, <1>8 DEF d

(* A pending order names a market that exists.                             *)
LEMMA PendingMarket ==
  ASSUME Core, Registered, NEW id \in OrderIds, orders[id].status = "Pending"
  PROVE  /\ orders[id] \in Order /\ orders[id].market \in GpuIds
         /\ orders[id].account \in Accounts /\ orders[id].isLong \in BOOLEAN
         /\ market[orders[id].market].exists
         /\ KeyOf(orders[id]) \in PositionKeys
<1>1. orders[id] \in Order
  BY DEF Core, TypeOK
<1> QED BY <1>1 DEF Order, KeyOf, PositionKeys, Registered

LEMMA IncreaseMirrored ==
  ASSUME Core, Core', Mirror, Registered, NEW id \in OrderIds, NEW p \in Prices,
         executeIncrease(id, p),
         db' = OrderExecuted(PositionIncreased(accrued(db, orders[id].market), KeyOf(orders[id]),
                                               positions'[KeyOf(orders[id])]),
                             id, orders[id], 0)
  PROVE  Mirror' /\ Registered'
<1> DEFINE o == orders[id]
           g == o.market
           k == KeyOf(o)
           d1 == accrued(db, g)
           d2 == PositionIncreased(d1, k, positions'[k])
<1>1. /\ o.status = "Pending" /\ orders' = [orders EXCEPT ![id].status = "Executed"]
      /\ UNCHANGED <<orderNonce, claimableOf, minOrderDelay>>
  BY DEF executeIncrease, Executable, adminVars
<1>2. PICK n : market' = [market EXCEPT ![g] = n]
                 /\ \E l, delta : n = addOpenInterest(accrue(market[g], now), l, delta)
  BY DEF executeIncrease
<1>3. PICK pos : positions' = [positions EXCEPT ![k] = pos]
  BY DEF executeIncrease
<1>4. /\ o \in Order /\ g \in GpuIds /\ market[g].exists /\ k \in PositionKeys
      /\ positions \in [PositionKeys -> Position] /\ positions'[k] \in Position
      /\ \A j \in PositionKeys \ {k} : positions'[j] = positions[j]
  BY <1>1, <1>3, PendingMarket DEF Core, TypeOK
<1>5. /\ d1 \in Tables /\ OnlyMarkets(db, d1)
      /\ \A h \in GpuIds : MarketMirrors(d1.markets[h], market'[h])
      /\ \A h \in GpuIds : \/ market'[h] = market[h]
                           \/ market'[h].exists /\ market'[h].params.maintenanceMarginBps # 0
  BY <1>2, <1>4, TouchedMarkets
<1> HIDE DEF o, g, k, d1
<1>6. /\ d2 \in Tables /\ OnlyPositions(d1, d2)
      /\ PositionMirrors(d2.positions[k], positions'[k])
      /\ \A j \in PositionKeys \ {k} : d2.positions[j] = d1.positions[j]
  BY <1>4, <1>5, IncreasedRow
<1>7. db' = OrderExecuted(d2, id, o, 0)
  BY DEF o, g, k, d1
<1> HIDE DEF d2
<1>8. /\ db' \in Tables
      /\ db'.orders = [d2.orders EXCEPT ![id].status = "Executed"]
      /\ db'.markets = d2.markets /\ db'.claimable = d2.claimable /\ db'.stats = d2.stats
      /\ \A j \in PositionKeys : \A q :
           PositionMirrors(d2.positions[j], q) => PositionMirrors(db'.positions[j], q)
  <2>1. LET e == OrderExecuted(d2, id, o, 0)
        IN  /\ e \in Tables
            /\ e.orders = [d2.orders EXCEPT ![id].status = "Executed"]
            /\ e.markets = d2.markets /\ e.claimable = d2.claimable /\ e.stats = d2.stats
            /\ \A j \in PositionKeys : \A q :
                 PositionMirrors(d2.positions[j], q) => PositionMirrors(e.positions[j], q)
    <3>1. 0 \in Int
      OBVIOUS
    <3> QED BY <1>4, <1>6, <3>1, ExecutedRows
  <2> QED BY <1>7, <2>1
<1>9. \A j \in PositionKeys : PositionMirrors(db'.positions[j], positions'[j])
  BY <1>4, <1>5, <1>6, <1>8 DEF Mirror, OnlyMarkets
<1>10. /\ \A h \in GpuIds : MarketMirrors(db'.markets[h], market'[h])
       /\ \A a \in Accounts : ClaimableMirrors(db'.claimable[a], claimableOf'[a])
       /\ db'.orders = [db.orders EXCEPT ![id].status = "Executed"] /\ db'.stats = db.stats
  BY <1>1, <1>5, <1>6, <1>8 DEF Mirror, OnlyMarkets, OnlyPositions
<1> QED BY <1>1, <1>5, <1>8, <1>9, <1>10, SpentOrderMirrored DEF o

LEMMA GoneMirrored ==
  ASSUME Core, Core', Mirror, Registered, NEW id \in OrderIds, NEW p \in Prices,
         executeDecreaseGone(id, p),
         db' = OrderCancelled(accrued(db, orders[id].market), id)
  PROVE  Mirror' /\ Registered'
<1> DEFINE g == orders[id].market
           d == accrued(db, g)
<1>1. /\ orders[id].status = "Pending" /\ orders' = [orders EXCEPT ![id].status = "Cancelled"]
      /\ UNCHANGED <<orderNonce, positions, claimableOf, minOrderDelay>>
      /\ market' = [market EXCEPT ![g] = accrue(market[g], now)]
  BY DEF executeDecreaseGone, Executable, adminVars, cancelled
<1>2. g \in GpuIds /\ market[g].exists
  BY <1>1, PendingMarket
<1>3. /\ d \in Tables /\ OnlyMarkets(db, d)
      /\ \A h \in GpuIds : MarketMirrors(d.markets[h], market'[h])
      /\ \A h \in GpuIds : \/ market'[h] = market[h]
                           \/ market'[h].exists /\ market'[h].params.maintenanceMarginBps # 0
  BY <1>1, <1>2, TouchedMarkets
<1>4. db' = OrderCancelled(d, id)
  OBVIOUS
<1> HIDE DEF d
<1>5. /\ db' \in Tables /\ OnlyOrders(d, db')
      /\ db'.orders = [d.orders EXCEPT ![id].status = "Cancelled"]
  <2>1. LET e == OrderCancelled(d, id)
        IN  /\ e \in Tables /\ OnlyOrders(d, e)
            /\ e.orders = [d.orders EXCEPT ![id].status = "Cancelled"]
    BY <1>3, CancelledRows
  <2> QED BY <1>4, <2>1
<1>6. /\ \A j \in PositionKeys : PositionMirrors(db'.positions[j], positions'[j])
      /\ \A h \in GpuIds : MarketMirrors(db'.markets[h], market'[h])
      /\ \A a \in Accounts : ClaimableMirrors(db'.claimable[a], claimableOf'[a])
      /\ db'.orders = [db.orders EXCEPT ![id].status = "Cancelled"] /\ db'.stats = db.stats
  BY <1>1, <1>3, <1>5 DEF Mirror, OnlyMarkets, OnlyOrders
<1> QED BY <1>1, <1>3, <1>5, <1>6, SpentOrderMirrored

(* What is left after a partial close keeps its entry price.               *)
LEMMA RemainderEntry ==
  ASSUME NEW m \in Market, NEW pos \in Position, NEW isLong \in BOOLEAN, NEW price \in Nat,
         NEW delta \in 1..pos.size, pos.entry > 0
  PROVE  LET c == closeSlice(m, pos, isLong, delta, price)
             after == remainder(m, pos, isLong, delta, price, c)
         IN  after.size # 0 => after.entry = pos.entry
<1> DEFINE c == closeSlice(m, pos, isLong, delta, price)
           after == remainder(m, pos, isLong, delta, price, c)
           r == rewindFunding(m, c.pos, isLong, pos.size - delta, pos, c.owedRem, c.borrowRem)
<1>1. c.pos = snapshot(m, pos, isLong)
  BY CloseFacts
<1> HIDE DEF c
<1>2. r.entry = pos.entry /\ DOMAIN r = DOMAIN pos
  BY <1>1 DEF rewindFunding, snapshot, Position
<1>3. CASE pos.size - delta = 0
  <2>1. after = NoPosition
    BY <1>3 DEF remainder
  <2> QED BY <2>1 DEF NoPosition, c
<1>4. CASE pos.size - delta # 0
  <2> DEFINE u == PosPart(pnl(pos.size - delta, pos.entry, isLong, price))
  <2>1. after = [r EXCEPT !.size = pos.size - delta, !.collateral = @ - c.released,
                          !.earnedFunding = c.carried, !.reserveShare = u]
    BY <1>4 DEF remainder
  <2> HIDE DEF r, u
  <2>2. after.entry = r.entry
    BY <1>2, <2>1 DEF Position
  <2> QED BY <1>2, <2>2 DEF c
<1> QED BY <1>3, <1>4

(* The events of a decrease: the accrual, the credit, the position.        *)
LEMMA DecreaseMirrored ==
  ASSUME Core, Core', Mirror, Registered, NEW id \in OrderIds, NEW p \in Prices,
         executeDecrease(id, p), NEW x \in Int,
         db' = OrderExecuted(decreased(settled(accrued(db, orders[id].market),
                                               orders[id].account), KeyOf(orders[id])),
                             id, orders[id], x)
  PROVE  Mirror' /\ Registered'
<1> DEFINE o == orders[id]
           g == o.market
           a == o.account
           k == KeyOf(o)
           pos == positions[k]
           m == accrue(market[g], now)
           delta == closedSize(o, pos)
           c == closeSlice(m, pos, o.isLong, delta, p)
           after == remainder(m, pos, o.isLong, delta, p, c)
           d1 == accrued(db, g)
           d2 == settled(d1, a)
           d3 == decreased(d2, k)
<1>1. /\ o.status = "Pending" /\ orders' = [orders EXCEPT ![id].status = "Executed"]
      /\ UNCHANGED <<orderNonce, minOrderDelay>>
      /\ claimableOf' = [claimableOf EXCEPT ![a] = @ + c.due]
      /\ positions' = [positions EXCEPT ![k] = after]
      /\ pos.size > 0 /\ Consume(g, p)
  BY DEF executeDecrease, Executable, adminVars
<1>2. PICK n : market' = [market EXCEPT ![g] = n] /\ \E l, y : n = addOpenInterest(m, l, y)
  BY DEF executeDecrease
<1>3. /\ o \in Order /\ g \in GpuIds /\ a \in Accounts /\ o.isLong \in BOOLEAN
      /\ market[g].exists /\ k \in PositionKeys /\ k[2] = g /\ k[3] = o.isLong
  <2>1. /\ o \in Order /\ g \in GpuIds /\ a \in Accounts /\ o.isLong \in BOOLEAN
        /\ market[g].exists /\ k \in PositionKeys
    BY <1>1, PendingMarket
  <2> QED BY <2>1 DEF KeyOf
<1>4. /\ positions \in [PositionKeys -> Position] /\ positions' \in [PositionKeys -> Position]
      /\ pos \in Position /\ pos.entry > 0 /\ claimableOf \in [Accounts -> Nat]
      /\ market[g] \in Market /\ now \in Nat
  BY <1>1, <1>3 DEF Core, TypeOK, WellFormed
<1>5. m \in Market /\ p \in Nat
  BY <1>1, <1>3, <1>4, AccrueFacts, ConsumeTyped
<1>6. delta \in 1..pos.size
  <2>1. o.size \in Nat /\ pos.size \in Nat
    BY <1>3, <1>4 DEF Order, Position
  <2> QED BY <1>1, <2>1 DEF closedSize, Lesser
<1> HIDE DEF delta, m
<1>7. c.due \in Nat
  BY <1>3, <1>4, <1>5, <1>6, CloseFacts
<1>8. after.size # 0 => after.entry = pos.entry
  BY <1>3, <1>4, <1>5, <1>6, RemainderEntry
<1> HIDE DEF after, c
<1>9. positions'[k] = after /\ \A j \in PositionKeys \ {k} : positions'[j] = positions[j]
  BY <1>1, <1>3, <1>4
<1>10. /\ d1 \in Tables /\ OnlyMarkets(db, d1)
       /\ \A h \in GpuIds : MarketMirrors(d1.markets[h], market'[h])
       /\ \A h \in GpuIds : \/ market'[h] = market[h]
                            \/ market'[h].exists /\ market'[h].params.maintenanceMarginBps # 0
  BY <1>2, <1>3, TouchedMarkets DEF m
<1> HIDE DEF d1
<1>11. /\ d2 \in Tables
       /\ d2.orders = d1.orders /\ d2.markets = d1.markets /\ d2.positions = d1.positions
       /\ d2.stats = d1.stats
       /\ \A b \in Accounts : ClaimableMirrors(d2.claimable[b], claimableOf'[b])
  <2>1. \A b \in Accounts : ClaimableMirrors(d1.claimable[b], claimableOf[b])
    BY <1>10 DEF Mirror, OnlyMarkets
  <2> QED BY <1>1, <1>3, <1>4, <1>7, <1>10, <2>1, SettledRows
<1> HIDE DEF d2
<1>12. PositionMirrors(d2.positions[k], pos) /\ d2.positions[k].entry = pos.entry
  <2>1. d2.positions[k] = db.positions[k]
    BY <1>10, <1>11 DEF OnlyMarkets
  <2> QED BY <1>1, <1>3, <1>4, <2>1 DEF Mirror, PositionMirrors, Position
<1>13. /\ d3 \in Tables /\ OnlyPositions(d2, d3)
       /\ PositionMirrors(d3.positions[k], positions'[k])
       /\ \A j \in PositionKeys \ {k} : d3.positions[j] = d2.positions[j]
  <2>1. CASE positions'[k].size = 0
    <3>1. d3 = PositionClosed(d2, k)
      BY <2>1 DEF decreased
    <3> QED BY <1>3, <1>11, <2>1, <3>1, ClosedRow DEF PositionMirrors
  <2>2. CASE positions'[k].size # 0
    <3>1. d3 = PositionDecreased(d2, k, positions'[k])
      BY <2>2 DEF decreased
    <3>2. positions'[k] \in Position /\ d2.positions[k].entry = positions'[k].entry
      BY <1>3, <1>4, <1>8, <1>9, <1>12, <2>2
    <3> QED BY <1>3, <1>11, <3>1, <3>2, DecreasedRow
  <2> QED BY <2>1, <2>2
<1> HIDE DEF d3
<1>14. /\ db' \in Tables
       /\ db'.orders = [d3.orders EXCEPT ![id].status = "Executed"]
       /\ db'.markets = d3.markets /\ db'.claimable = d3.claimable /\ db'.stats = d3.stats
       /\ \A j \in PositionKeys : \A q :
            PositionMirrors(d3.positions[j], q) => PositionMirrors(db'.positions[j], q)
  <2>1. LET e == OrderExecuted(d3, id, o, x)
        IN  /\ e \in Tables
            /\ e.orders = [d3.orders EXCEPT ![id].status = "Executed"]
            /\ e.markets = d3.markets /\ e.claimable = d3.claimable /\ e.stats = d3.stats
            /\ \A j \in PositionKeys : \A q :
                 PositionMirrors(d3.positions[j], q) => PositionMirrors(e.positions[j], q)
    BY <1>3, <1>13, ExecutedRows
  <2>2. db' = OrderExecuted(d3, id, o, x)
    BY DEF d1, d2, d3
  <2> QED BY <2>1, <2>2
<1>15. \A j \in PositionKeys : PositionMirrors(db'.positions[j], positions'[j])
  BY <1>9, <1>10, <1>11, <1>13, <1>14 DEF Mirror, OnlyMarkets
<1>16. /\ \A h \in GpuIds : MarketMirrors(db'.markets[h], market'[h])
       /\ \A b \in Accounts : ClaimableMirrors(db'.claimable[b], claimableOf'[b])
       /\ db'.orders = [db.orders EXCEPT ![id].status = "Executed"] /\ db'.stats = db.stats
  BY <1>10, <1>11, <1>13, <1>14 DEF OnlyMarkets, OnlyPositions
<1> QED BY <1>1, <1>10, <1>14, <1>15, <1>16, SpentOrderMirrored

LEMMA LiquidateMirrored ==
  ASSUME Core, Core', Mirror, Registered, NEW p \in Prices, NEW a \in Accounts,
         NEW g \in GpuIds, NEW l \in BOOLEAN, liquidate(a, g, l, p),
         db' = PositionLiquidated(settled(accrued(db, g), a), <<a, g, l>>)
  PROVE  Mirror' /\ Registered'
<1> DEFINE k == <<a, g, l>>
           pos == positions[k]
           m == accrue(market[g], now)
           liqFee == Lesser(feeBps(pos.size, m.params.liquidationFeeBps), pos.collateral)
           due == PosPart(equityOf(m, pos, l, p) - liqFee)
           d1 == accrued(db, g)
           d2 == settled(d1, a)
<1>1. /\ market[g].exists /\ UNCHANGED <<orders, orderNonce, minOrderDelay>>
      /\ claimableOf' = [claimableOf EXCEPT ![a] = @ + due]
      /\ positions' = [positions EXCEPT ![k] = NoPosition]
      /\ pos.size > 0 /\ Consume(g, p)
  BY DEF liquidate, liquidatableAt, adminVars
<1>2. PICK n : market' = [market EXCEPT ![g] = n] /\ \E s, y : n = addOpenInterest(m, s, y)
  BY DEF liquidate
<1>3. k \in PositionKeys
  BY DEF PositionKeys
<1>4. /\ positions \in [PositionKeys -> Position] /\ pos \in Position /\ pos.entry > 0
      /\ claimableOf \in [Accounts -> Nat] /\ market[g] \in Market /\ now \in Nat
  BY <1>1, <1>3 DEF Core, TypeOK, WellFormed
<1>5. m \in Market /\ p \in Nat
  BY <1>1, <1>4, AccrueFacts, ConsumeTyped
<1>6. due \in Nat
  <2>1. equityOf(m, pos, l, p) \in Int
    BY <1>4, <1>5, EquityInt
  <2>2. /\ pos.size \in Nat /\ pos.collateral \in Nat /\ m.params.liquidationFeeBps \in Nat
    BY <1>4, <1>5 DEF Position, Market, MarketParams
  <2>3. feeBps(pos.size, m.params.liquidationFeeBps) \in Nat
    BY <2>2, FeeNat
  <2> HIDE DEF m, pos
  <2>4. liqFee \in Int
    BY <2>2, <2>3 DEF Lesser
  <2> HIDE DEF liqFee
  <2> QED BY <2>1, <2>4 DEF PosPart
<1> HIDE DEF due
<1>7. positions'[k].size = 0 /\ \A j \in PositionKeys \ {k} : positions'[j] = positions[j]
  BY <1>1, <1>3, <1>4 DEF NoPosition
<1>8. /\ d1 \in Tables /\ OnlyMarkets(db, d1)
      /\ \A h \in GpuIds : MarketMirrors(d1.markets[h], market'[h])
      /\ \A h \in GpuIds : \/ market'[h] = market[h]
                           \/ market'[h].exists /\ market'[h].params.maintenanceMarginBps # 0
  BY <1>1, <1>2, TouchedMarkets
<1> HIDE DEF d1, m
<1>9. /\ d2 \in Tables
      /\ d2.orders = d1.orders /\ d2.markets = d1.markets /\ d2.positions = d1.positions
      /\ d2.stats = d1.stats
      /\ \A b \in Accounts : ClaimableMirrors(d2.claimable[b], claimableOf'[b])
  <2>1. \A b \in Accounts : ClaimableMirrors(d1.claimable[b], claimableOf[b])
    BY <1>8 DEF Mirror, OnlyMarkets
  <2> QED BY <1>1, <1>4, <1>6, <1>8, <2>1, SettledRows
<1>10. db' = PositionLiquidated(d2, k)
  BY DEF d1
<1> HIDE DEF d2, k
<1>11. /\ db' \in Tables
       /\ db'.orders = d2.orders /\ db'.markets = d2.markets /\ db'.claimable = d2.claimable
       /\ db'.stats.orderCount = d2.stats.orderCount
       /\ db'.stats.minOrderDelaySec = d2.stats.minOrderDelaySec
       /\ db'.positions[k].size = 0
       /\ \A j \in PositionKeys \ {k} : db'.positions[j] = d2.positions[j]
  <2> DEFINE e == PositionLiquidated(d2, k)
  <2>1. /\ e \in Tables
        /\ e.orders = d2.orders /\ e.markets = d2.markets /\ e.claimable = d2.claimable
        /\ e.stats.orderCount = d2.stats.orderCount
        /\ e.stats.minOrderDelaySec = d2.stats.minOrderDelaySec
        /\ e.positions[k].size = 0
        /\ \A j \in PositionKeys \ {k} : e.positions[j] = d2.positions[j]
    BY <1>3, <1>9, LiquidatedRow
  <2> HIDE DEF e
  <2> QED BY <1>10, <2>1 DEF e
<1>12. \A j \in PositionKeys : PositionMirrors(db'.positions[j], positions'[j])
  <2>1. PositionMirrors(db'.positions[k], positions'[k])
    BY <1>7, <1>11 DEF PositionMirrors
  <2> QED BY <1>7, <1>8, <1>9, <1>11, <2>1 DEF Mirror, OnlyMarkets
<1>13. Mirror'
  BY <1>1, <1>8, <1>9, <1>11, <1>12 DEF Mirror, OnlyMarkets
<1> QED BY <1>1, <1>8, <1>13, RegistryStep

-----------------------------------------------------------------------------
(* The theorems about the rows                                             *)

(* An indexed step is a step of the engine.                                *)
LEMMA IndexedIsEngine == [IndexedNext]_indexedVars => [Next]_vars
<1>1. IndexedOwnerStep => OwnerStep
  BY DEF IndexedOwnerStep, OwnerStep
<1>2. IndexedTraderStep => TraderStep
  BY DEF IndexedTraderStep, TraderStep
<1>3. IndexedKeeperStep => KeeperStep
  BY DEF IndexedKeeperStep, KeeperStep
<1>4. IndexedNext => Next
  BY <1>1, <1>2, <1>3 DEF IndexedNext, Next
<1>5. UNCHANGED indexedVars => UNCHANGED vars
  BY DEF indexedVars
<1> QED BY <1>4, <1>5

LEMMA MirrorNext ==
  ASSUME Core, Core', Mirror, Registered, [IndexedNext]_indexedVars
  PROVE  Mirror' /\ Registered'
<1>1. CASE IndexedOwnerStep
  <2>1. CASE \E g \in GpuIds, p \in ParamChoices :
               \/ createMarket(g, p) /\ db' = MarketCreated(db, g, p)
               \/ setMarketParams(g, p) /\ db' = MarketParamsUpdated(accrued(db, g), g, p)
    BY <2>1, CreateMarketMirrored, SetParamsMirrored
  <2>2. CASE \E g \in GpuIds, b \in BOOLEAN :
               setMarketEnabled(g, b) /\ db' = MarketEnabled(db, g, b)
    BY <2>2, SetEnabledMirrored
  <2>3. CASE \E s \in Delays : setMinOrderDelay(s) /\ db' = MinOrderDelaySet(db, s)
    BY <2>3, SetDelayMirrored
  <2>4. CASE (pause \/ unpause \/ \E c \in Caps : setEngineMaxWithdrawPerBlock(c))
               /\ UNCHANGED db
    <3>1. UNCHANGED <<market, orders, orderNonce, positions, claimableOf, minOrderDelay, db>>
      BY <2>4 DEF pause, unpause, setEngineMaxWithdrawPerBlock, engineVars, adminVars
    <3> QED BY <3>1, QuietMirrored
  <2> QED BY <1>1, <2>1, <2>2, <2>3, <2>4 DEF IndexedOwnerStep
<1>2. CASE IndexedTraderStep
  <2>1. ASSUME NEW a \in Accounts, NEW g \in GpuIds, NEW l \in BOOLEAN, NEW s \in Sizes,
               NEW p \in LimitPrices, NEW f \in ExecFees,
               \/ \E c \in Collaterals : createIncrease(a, g, l, s, c, p, f) /\ db' = newOrder(db)
               \/ createDecrease(a, g, l, s, p, f) /\ db' = newOrder(db)
               \/ \E k \in TriggerKinds : /\ createTrigger(a, g, l, k, s, p, f)
                                          /\ db' = newOrder(replaced(db, a, g, l, k))
        PROVE  Mirror' /\ Registered'
    BY <2>1, MarketOrderMirrored, TriggerOrderMirrored
  <2>2. CASE \E id \in OrderIds : cancelOrder(id) /\ db' = OrderCancelled(db, id)
    BY <2>2, CancelMirrored
  <2>3. CASE \E a \in Accounts, x \in ClaimAmounts, to \in Payees :
               claim(a, x, to) /\ db' = Claimed(db, a, claimableOf[a] - claimableOf'[a])
    BY <2>3, ClaimMirrored
  <2> QED BY <1>2, <2>1, <2>2, <2>3 DEF IndexedTraderStep
<1>3. ASSUME NEW p \in Prices, NEW id \in OrderIds,
             executeIncrease(id, p)
               /\ db' = OrderExecuted(PositionIncreased(accrued(db, orders[id].market),
                          KeyOf(orders[id]), positions'[KeyOf(orders[id])]), id, orders[id], 0)
      PROVE  Mirror' /\ Registered'
  BY <1>3, IncreaseMirrored
<1>4. ASSUME NEW p \in Prices, NEW id \in OrderIds,
             executeDecreaseGone(id, p)
               /\ db' = OrderCancelled(accrued(db, orders[id].market), id)
      PROVE  Mirror' /\ Registered'
  BY <1>4, GoneMirrored
<1>5. ASSUME NEW p \in Prices, NEW id \in OrderIds, executeDecrease(id, p)
      PROVE  LET o == orders[id]
                 pos == positions[KeyOf(o)]
             IN  pnl(closedSize(o, pos), pos.entry, o.isLong, p) \in Int
  <2> DEFINE o == orders[id]
             pos == positions[KeyOf(o)]
             n == closedSize(o, pos)
  <2>1. o.status = "Pending" /\ pos.size > 0
    BY <1>5 DEF executeDecrease, Executable
  <2>2. o \in Order /\ o.isLong \in BOOLEAN /\ KeyOf(o) \in PositionKeys
    BY <2>1, PendingMarket
  <2>3. pos \in Position /\ pos.entry > 0 /\ p \in Nat
    BY <2>1, <2>2, PerpConstants DEF Core, TypeOK, WellFormed
  <2>4. o.size \in Nat /\ pos.size \in Nat /\ pos.entry \in Nat
    BY <2>2, <2>3 DEF Order, Position
  <2>5. n \in Nat
    BY <2>4 DEF closedSize, Lesser
  <2> HIDE DEF n, pos, o
  <2>6. pnl(n, pos.entry, o.isLong, p) \in Int
    BY <2>2, <2>3, <2>4, <2>5, PnlInt
  <2> QED BY <2>6 DEF n, pos, o
<1>6. ASSUME NEW p \in Prices, NEW id \in OrderIds, NEW x, executeDecrease(id, p),
             x = pnl(closedSize(orders[id], positions[KeyOf(orders[id])]),
                     positions[KeyOf(orders[id])].entry, orders[id].isLong, p),
             db' = OrderExecuted(decreased(settled(accrued(db, orders[id].market),
                     orders[id].account), KeyOf(orders[id])), id, orders[id], x)
      PROVE  Mirror' /\ Registered'
  BY <1>5, <1>6, DecreaseMirrored
<1>7. ASSUME NEW p \in Prices, NEW a \in Accounts, NEW g \in GpuIds, NEW l \in BOOLEAN,
             liquidate(a, g, l, p)
               /\ db' = PositionLiquidated(settled(accrued(db, g), a), <<a, g, l>>)
      PROVE  Mirror' /\ Registered'
  BY <1>7, LiquidateMirrored
<1>8. CASE IndexedKeeperStep
  BY <1>3, <1>4, <1>6, <1>7, <1>8 DEF IndexedKeeperStep
<1>9. CASE EnvironmentStep /\ UNCHANGED db
  <2>1. UNCHANGED <<market, orders, orderNonce, positions, claimableOf, minOrderDelay, db>>
    BY <1>9 DEF EnvironmentStep, VaultDeposit, VaultRedeem, NextBlock, engineVars, adminVars
  <2> QED BY <2>1, QuietMirrored
<1>10. CASE UNCHANGED indexedVars
  <2>1. UNCHANGED <<market, orders, orderNonce, positions, claimableOf, minOrderDelay, db>>
    BY <1>10 DEF indexedVars, vars, engineVars, adminVars
  <2> QED BY <2>1, QuietMirrored
<1> QED BY <1>1, <1>2, <1>8, <1>9, <1>10 DEF IndexedNext

(* The invariant of the engine with its tables.                            *)
MirrorInv == Core /\ Mirror /\ Registered

LEMMA MirrorInvariant == IndexedSpec => []MirrorInv
<1>1. IndexedInit => MirrorInv
  BY MirrorInit DEF MirrorInv
<1>2. MirrorInv /\ [IndexedNext]_indexedVars => MirrorInv'
  <2> SUFFICES ASSUME MirrorInv, [IndexedNext]_indexedVars PROVE MirrorInv'
    OBVIOUS
  <2>1. Core /\ Mirror /\ Registered
    BY DEF MirrorInv
  <2>2. Core'
    BY <2>1, IndexedIsEngine, CoreNext
  <2>3. Mirror' /\ Registered'
    BY <2>1, <2>2, MirrorNext
  <2> QED BY <2>2, <2>3 DEF MirrorInv
<1> QED BY <1>1, <1>2, PTL DEF IndexedSpec

(* The indexer's rows are the engine's storage after every transaction,    *)
(* for every set of traders, markets and prices: orders with their status, *)
(* open positions with rewound checkpoints and carried funding, cumulatives*)
(* and parameters, and claimable balances counted once.                    *)
THEOREM RowsFollow == IndexedSpec => []RowsMirrorEngine
<1>1. MirrorInv => RowsMirrorEngine
  BY MirrorExact DEF MirrorInv, Core
<1> QED BY <1>1, MirrorInvariant, PTL

-----------------------------------------------------------------------------
(* The keeper's decisions                                                  *)

(* evaluateTick's price condition is the engine's.                         *)
LEMMA SamePriceCondition ==
  ASSUME NEW o \in Order, NEW p \in Nat
  PROVE  /\ o.kind = "MarketIncrease" =>
              (priceMet(o, p) <=> IF o.isLong THEN p <= o.acceptable ELSE p >= o.acceptable)
         /\ o.kind # "MarketIncrease" => (priceMet(o, p) <=> DecreasePriceOk(o, p))
<1>1. o.isLong \in BOOLEAN /\ o.kind \in OrderKinds
  BY DEF Order
<1>2. CASE o.kind = "MarketIncrease"
  <2>1. priceMet(o, p) = K!acceptablePriceMet(o.isLong, TRUE, p, o.acceptable)
    BY <1>2 DEF priceMet, TriggerKinds
  <2> QED BY <1>1, <1>2, <2>1 DEF K!acceptablePriceMet
<1>3. CASE o.kind = "MarketDecrease"
  <2>1. priceMet(o, p) = K!acceptablePriceMet(o.isLong, FALSE, p, o.acceptable)
    BY <1>3 DEF priceMet, TriggerKinds
  <2> QED BY <1>1, <1>3, <2>1 DEF K!acceptablePriceMet, DecreasePriceOk
<1>4. CASE o.kind \in TriggerKinds
  <2>1. priceMet(o, p) = K!triggerMet(o.kind, o.isLong, p, o.trigger)
    BY <1>4 DEF priceMet, TriggerKinds
  <2>2. DecreasePriceOk(o, p) = checkTrigger(o.kind, o.isLong, p, o.trigger)
    BY <1>4 DEF DecreasePriceOk, TriggerKinds
  <2>3. o.kind # "MarketIncrease"
    BY <1>4 DEF TriggerKinds
  <2>4. K!triggerMet(o.kind, o.isLong, p, o.trigger) <=> checkTrigger(o.kind, o.isLong, p, o.trigger)
    BY <1>1, <1>4 DEF K!triggerMet, checkTrigger, TriggerKinds
  <2> QED BY <2>1, <2>2, <2>3, <2>4
<1> QED BY <1>1, <1>2, <1>3, <1>4 DEF OrderKinds

(* The keeper proposes exactly the orders whose delay, market and price    *)
(* condition the engine accepts, from the rows alone.                      *)
THEOREM KeeperSeesOrders == IndexedSpec => []OrdersAgree
<1>1. MirrorInv => OrdersAgree
  <2> SUFFICES ASSUME MirrorInv, NEW g \in GpuIds, NEW p \in Prices, NEW id \in OrderIds
               PROVE  id \in orderItems(db, minOrderDelay, g, p, now)
                        <=> LET o == orders[id]
                            IN  /\ o.status = "Pending" /\ o.market = g
                                /\ now >= o.createdAt + minOrderDelay
                                /\ IF o.kind # "MarketIncrease" THEN DecreasePriceOk(o, p)
                                   ELSE /\ market[g].enabled
                                        /\ IF o.isLong THEN p <= o.acceptable
                                                       ELSE p >= o.acceptable
    BY DEF OrdersAgree, orderItems
  <2>1. orders[id] \in Order /\ p \in Nat
    BY PerpConstants DEF MirrorInv, Core, TypeOK
  <2>2. /\ db.orders = orders /\ db.markets[g].exists = market[g].exists
        /\ db.markets[g].enabled = market[g].enabled
    BY DEF MirrorInv, Mirror, MarketMirrors
  <2>3. orders[id].status = "Pending" /\ orders[id].market = g => market[g].exists
    BY DEF MirrorInv, Registered
  <2>4. id \in orderItems(db, minOrderDelay, g, p, now)
          <=> /\ orders[id].status = "Pending" /\ orders[id].market = g /\ market[g].exists
              /\ now >= orders[id].createdAt + minOrderDelay
              /\ orders[id].kind = "MarketIncrease" => market[g].enabled
              /\ priceMet(orders[id], p)
    BY <2>2 DEF orderItems
  <2> QED BY <2>1, <2>3, <2>4, SamePriceCondition
<1> QED BY <1>1, MirrorInvariant, PTL

(* math.ts against the contract, operator by operator.                     *)
LEMMA KeeperRounds ==
  ASSUME NEW a \in Nat, NEW b \in Nat, NEW c \in Nat \ {0}
  PROVE  K!floor(a, b, c) = MulDivFloor(a, b, c) /\ K!ceil(a, b, c) = MulDivCeil(a, b, c)
<1> DEFINE n == a * b
           q == n \div c
<1>1. q \in Nat /\ MulDivCeil(a, b, c) = q + IF n % c = 0 THEN 0 ELSE 1
  BY CeilByRemainder
<1>2. K!floor(a, b, c) = q /\ MulDivFloor(a, b, c) = q
  BY DEF K!floor, MulDivFloor
<1>3. K!ceil(a, b, c) = IF n % c = 0 THEN q ELSE q + 1
  BY DEF K!ceil
<1> HIDE DEF n, q
<1> QED BY <1>1, <1>2, <1>3

LEMMA KeeperFunding ==
  ASSUME NEW size \in Nat, NEW cum \in Nat, NEW ckpt \in Nat, NEW bps \in Nat
  PROVE  /\ K!fundingOwed(size, cum, ckpt) = fundingOwed(size, cum, ckpt)
         /\ K!fundingEarned(size, cum, ckpt) = fundingEarned(size, cum, ckpt)
         /\ K!maintenance(size, bps) = maintenance(size, bps)
<1>1. BPS \in Nat \ {0} /\ SCALE \in Nat \ {0}
  BY DenominatorsPositive
<1>2. CASE cum <= ckpt
  BY <1>1, <1>2, KeeperRounds DEF K!fundingOwed, K!fundingEarned, K!maintenance,
                                  fundingOwed, fundingEarned, maintenance
<1>3. CASE ~(cum <= ckpt)
  <2>1. cum - ckpt \in Nat
    BY <1>3
  <2> QED BY <1>1, <1>3, <2>1, KeeperRounds DEF K!fundingOwed, K!fundingEarned, K!maintenance,
                                                fundingOwed, fundingEarned, maintenance
<1> QED BY <1>2, <1>3

LEMMA KeeperPnl ==
  ASSUME NEW size \in Nat, NEW entry \in Nat \ {0}, NEW isLong \in BOOLEAN, NEW price \in Nat
  PROVE  K!pnl(size, entry, isLong, price) = pnl(size, entry, isLong, price)
<1> DEFINE move == IF isLong THEN price - entry ELSE entry - price
           delta == IF price > entry THEN price - entry ELSE entry - price
           wins == IF isLong THEN price > entry ELSE price < entry
<1>1. /\ move \in Int /\ delta \in Nat /\ (wins <=> move > 0)
      /\ move > 0 => delta = move
      /\ move < 0 => delta = -move
      /\ move = 0 <=> price = entry
  OBVIOUS
<1>2. /\ K!floor(size, delta, entry) = MulDivFloor(size, delta, entry)
      /\ K!ceil(size, delta, entry) = MulDivCeil(size, delta, entry)
  BY <1>1, KeeperRounds
<1>3. K!pnl(size, entry, isLong, price) =
        IF size = 0 \/ price = entry THEN 0
        ELSE IF wins THEN K!floor(size, delta, entry) ELSE -K!ceil(size, delta, entry)
  BY DEF K!pnl
<1>4. pnl(size, entry, isLong, price) =
        CASE size = 0 \/ move = 0 -> 0
          [] size # 0 /\ move > 0 -> MulDivFloor(size, move, entry)
          [] size # 0 /\ move < 0 -> -MulDivCeil(size, -move, entry)
  BY DEF pnl
<1> HIDE DEF move, delta, wins
<1>5. CASE size = 0 \/ move = 0
  BY <1>1, <1>3, <1>4, <1>5
<1>6. CASE size # 0 /\ move > 0
  <2>1. pnl(size, entry, isLong, price) = MulDivFloor(size, move, entry)
    BY <1>1, <1>4, <1>6
  <2>2. K!pnl(size, entry, isLong, price) = K!floor(size, delta, entry)
    BY <1>1, <1>3, <1>6
  <2> QED BY <1>1, <1>2, <1>6, <2>1, <2>2
<1>7. CASE size # 0 /\ move < 0
  <2>1. pnl(size, entry, isLong, price) = -MulDivCeil(size, -move, entry)
    BY <1>1, <1>4, <1>7
  <2>2. K!pnl(size, entry, isLong, price) = -K!ceil(size, delta, entry)
    BY <1>1, <1>3, <1>7
  <2> QED BY <1>1, <1>2, <1>7, <2>1, <2>2
<1> QED BY <1>1, <1>5, <1>6, <1>7

(* A factor of zero makes both roundings zero.                             *)
LEMMA ZeroDrift ==
  ASSUME NEW b \in Nat, NEW c \in Nat \ {0}
  PROVE  MulDivFloor(0, b, c) = 0 /\ MulDivCeil(0, b, c) = 0
<1>1. 0 * b = 0
  OBVIOUS
<1>2. (0 + c - 1) \div c = 0 /\ 0 \div c = 0
  OBVIOUS
<1> QED BY <1>1, <1>2 DEF MulDivFloor, MulDivCeil

(* An accrual without skew, rate or time moves the borrow fee only.        *)
LEMMA BorrowOnly ==
  ASSUME NEW m \in Market, NEW t \in Nat, t > m.updatedAt,
         m.params.fundingRate = 0 \/ skewFraction(m.openLong, m.openShort) = 0
  PROVE  LET n == accrue(m, t)
             window == Lesser(t - m.updatedAt, MaxWindow)
         IN  /\ n.chargeLong = m.chargeLong /\ n.chargeShort = m.chargeShort
             /\ n.creditLong = m.creditLong /\ n.creditShort = m.creditShort
             /\ n.borrow = m.borrow + borrowDrift(m.params.borrowRate, window)
             /\ n.params = m.params
<1> DEFINE window == Lesser(t - m.updatedAt, MaxWindow)
           skewFrac == skewFraction(m.openLong, m.openShort)
           rate == Lesser(m.params.fundingRate, MaxRatePpm)
           drift == IF skewFrac > 0 THEN fundingDrift(rate, window, skewFrac) ELSE 0
           credit(pay, receive) == IF receive > 0 THEN MulDivFloor(drift, pay, receive) ELSE 0
           longPays == m.openLong >= m.openShort
<1>1. /\ m.updatedAt \in Nat /\ m.openLong \in Nat /\ m.openShort \in Nat
      /\ m.params.fundingRate \in Nat /\ m.params.borrowRate \in Nat
      /\ m.chargeLong \in Nat /\ m.chargeShort \in Nat
      /\ m.creditLong \in Nat /\ m.creditShort \in Nat /\ m.borrow \in Nat
      /\ MaxWindow \in Nat /\ PPM \in Nat \ {0} /\ MaxRatePpm \in Nat
  BY DenominatorsPositive, PerpConstants DEF Market, MarketParams
<1>2. window \in Nat /\ (m.params.fundingRate = 0 => rate = 0)
  BY <1>1 DEF Lesser
<1>3. skewFrac \in Nat /\ borrowDrift(m.params.borrowRate, window) \in Nat
  BY <1>1, <1>2, DriftNat
<1> HIDE DEF window, skewFrac, rate
<1>4. drift = 0
  <2>1. CASE skewFrac > 0
    <3>1. rate = 0
      BY <1>2, <2>1 DEF skewFrac
    <3>2. window * skewFrac \in Nat
      BY <1>2, <1>3, ProductNat
    <3>3. fundingDrift(rate, window, skewFrac) = 0
      BY <1>1, <3>1, <3>2, ZeroDrift DEF fundingDrift
    <3> QED BY <3>3
  <2>2. CASE ~(skewFrac > 0)
    BY <2>2
  <2> QED BY <2>1, <2>2
<1>5. credit(m.openLong, m.openShort) = 0 /\ credit(m.openShort, m.openLong) = 0
  <2> HIDE DEF drift
  <2> QED BY <1>1, <1>4, ZeroDrift
<1>6. accrue(m, t) = [m EXCEPT
         !.chargeLong = @ + IF longPays THEN drift ELSE 0,
         !.creditShort = @ + IF longPays THEN credit(m.openLong, m.openShort) ELSE 0,
         !.chargeShort = @ + IF longPays THEN 0 ELSE drift,
         !.creditLong = @ + IF longPays THEN 0 ELSE credit(m.openShort, m.openLong),
         !.borrow = @ + borrowDrift(m.params.borrowRate, window),
         !.updatedAt = t]
  BY <1>1 DEF accrue, window, skewFrac, rate
<1> HIDE DEF drift, credit
<1>7. accrue(m, t) = [m EXCEPT !.chargeLong = @ + 0, !.creditShort = @ + 0,
                               !.chargeShort = @ + 0, !.creditLong = @ + 0,
                               !.borrow = @ + borrowDrift(m.params.borrowRate, window),
                               !.updatedAt = t]
  BY <1>4, <1>5, <1>6
<1> QED BY <1>1, <1>7 DEF Market, window

(* The keeper's advance from a row, in those cases, is the engine's.       *)
LEMMA KeeperAdvance ==
  ASSUME NEW row \in Market, NEW m \in Market, MarketMirrors(row, m), NEW t \in Nat,
         \/ m.updatedAt = t
         \/ m.params.fundingRate = 0
         \/ skewFraction(m.openLong, m.openShort) = 0
  PROVE  LET adv == K!advanceFunding(row, t)
             n == accrue(m, t)
         IN  /\ adv.chargeLong = n.chargeLong /\ adv.chargeShort = n.chargeShort
             /\ adv.creditLong = n.creditLong /\ adv.creditShort = n.creditShort
             /\ adv.borrow = n.borrow /\ n.params = m.params
<1> DEFINE window == Lesser(t - m.updatedAt, MaxWindow)
           paid == borrowDrift(m.params.borrowRate, window)
<1>1. /\ m.updatedAt \in Nat /\ row.updatedAt = m.updatedAt /\ row.params = m.params
      /\ row.openLong = 0 /\ row.openShort = 0 /\ row.borrow = m.borrow /\ m.borrow \in Nat
      /\ m.params.borrowRate \in Nat /\ MaxWindow \in Nat
      /\ PPM \in Nat \ {0} /\ SCALE \in Nat \ {0}
  BY DenominatorsPositive DEF Market, MarketMirrors, MarketParams
<1>2. K!skewFraction(row.openLong, row.openShort) = 0
  BY <1>1 DEF K!skewFraction
<1>3. CASE t <= m.updatedAt
  <2>1. accrue(m, t) = m /\ K!advanceFunding(row, t) = row
    BY <1>1, <1>3 DEF accrue, K!advanceFunding
  <2> QED BY <2>1 DEF MarketMirrors
<1>4. CASE t > m.updatedAt
  <2>1. window \in Nat /\ window = K!windowSec(row, t)
    BY <1>1, <1>4 DEF Lesser, K!windowSec
  <2> HIDE DEF window
  <2>2. K!advanceFunding(row, t) =
          [row EXCEPT !.borrow = IF m.params.borrowRate > 0
                                 THEN @ + K!borrowDrift(m.params.borrowRate, window) ELSE @]
    BY <1>1, <1>2, <1>4, <2>1 DEF K!advanceFunding
  <2>3. window * SCALE \in Nat
    BY <1>1, <2>1, ProductNat
  <2>4. K!borrowDrift(m.params.borrowRate, window) = paid
    BY <1>1, <2>3, KeeperRounds DEF K!borrowDrift, borrowDrift
  <2>5. paid \in Nat
    BY <1>1, <2>3, MulDivNat DEF borrowDrift
  <2>6. m.params.borrowRate = 0 => paid = 0
    BY <1>1, <2>3, ZeroDrift DEF borrowDrift
  <2>7. LET n == accrue(m, t)
        IN  /\ n.chargeLong = m.chargeLong /\ n.chargeShort = m.chargeShort
            /\ n.creditLong = m.creditLong /\ n.creditShort = m.creditShort
            /\ n.borrow = m.borrow + paid /\ n.params = m.params
    BY <1>1, <1>4, BorrowOnly DEF window
  <2> HIDE DEF paid
  <2>8. LET adv == K!advanceFunding(row, t)
        IN  /\ adv.chargeLong = row.chargeLong /\ adv.chargeShort = row.chargeShort
            /\ adv.creditLong = row.creditLong /\ adv.creditShort = row.creditShort
            /\ adv.borrow = m.borrow + paid
    BY <1>1, <2>2, <2>4, <2>5, <2>6 DEF Market
  <2> QED BY <2>7, <2>8 DEF MarketMirrors
<1> QED BY <1>1, <1>3, <1>4

(* On cumulatives and columns that agree, the keeper's equity is the       *)
(* engine's.                                                               *)
LEMMA KeeperEquity ==
  ASSUME NEW row \in PositionRow, NEW pos \in Position, pos.size > 0, pos.entry > 0,
         PositionMirrors(row, pos), NEW adv, NEW m \in Market, NEW isLong \in BOOLEAN,
         NEW price \in Nat, NEW mmBps \in Nat, mmBps = m.params.maintenanceMarginBps,
         adv.chargeLong = m.chargeLong, adv.chargeShort = m.chargeShort,
         adv.creditLong = m.creditLong, adv.creditShort = m.creditShort,
         adv.borrow = m.borrow
  PROVE  K!isLiquidatable(row, isLong, K!settle(adv, row, isLong), price, mmBps)
           <=> liquidatableAt(m, pos, isLong, price)
<1> DEFINE s == K!settle(adv, row, isLong)
           e == settle(m, pos, isLong)
<1>1. /\ row.size = pos.size /\ row.collateral = pos.collateral /\ row.entry = pos.entry
      /\ row.feeCkpt = pos.feeCkpt /\ row.creditCkpt = pos.creditCkpt
      /\ row.borrowCkpt = pos.borrowCkpt /\ row.earnedFunding = pos.earnedFunding
  BY DEF PositionMirrors, Position
<1>2. /\ pos.size \in Nat /\ pos.collateral \in Nat /\ pos.entry \in Nat \ {0}
      /\ pos.feeCkpt \in Nat /\ pos.creditCkpt \in Nat /\ pos.borrowCkpt \in Nat
      /\ pos.earnedFunding \in Nat
  BY DEF Position
<1>3. chargeCum(m, isLong) \in Nat /\ creditCum(m, isLong) \in Nat /\ m.borrow \in Nat
  BY CumNat
<1>4. /\ chargeCum(m, isLong) = IF isLong THEN adv.chargeLong ELSE adv.chargeShort
      /\ creditCum(m, isLong) = IF isLong THEN adv.creditLong ELSE adv.creditShort
  BY DEF chargeCum, creditCum
<1>5. s.owed = e.owed
  <2>1. s.owed = K!fundingOwed(pos.size, chargeCum(m, isLong), pos.feeCkpt)
    BY <1>1, <1>4 DEF K!settle
  <2>2. e.owed = fundingOwed(pos.size, chargeCum(m, isLong), pos.feeCkpt)
    BY DEF settle
  <2> QED BY <1>2, <1>3, <2>1, <2>2, KeeperFunding
<1>6. s.earned = e.earned
  <2>1. s.earned = K!fundingEarned(pos.size, creditCum(m, isLong), pos.creditCkpt)
    BY <1>1, <1>4 DEF K!settle
  <2>2. e.earned = fundingEarned(pos.size, creditCum(m, isLong), pos.creditCkpt)
    BY DEF settle
  <2> QED BY <1>2, <1>3, <2>1, <2>2, KeeperFunding
<1>7. s.borrow = e.borrow
  <2>1. s.borrow = K!fundingOwed(pos.size, m.borrow, pos.borrowCkpt)
    BY <1>1 DEF K!settle
  <2>2. e.borrow = fundingOwed(pos.size, m.borrow, pos.borrowCkpt)
    BY DEF settle
  <2> QED BY <1>2, <1>3, <2>1, <2>2, KeeperFunding
<1>8. K!pnl(row.size, row.entry, isLong, price) = pnl(pos.size, pos.entry, isLong, price)
  BY <1>1, <1>2, KeeperPnl
<1>9. K!maintenance(row.size, mmBps) = maintenance(pos.size, mmBps)
  BY <1>1, <1>2, KeeperFunding
<1> HIDE DEF s, e
<1>10. K!equity(row, isLong, s, price) = equityOf(m, pos, isLong, price)
  <2>1. K!equity(row, isLong, s, price) =
          pos.collateral + pnl(pos.size, pos.entry, isLong, price) + pos.earnedFunding
            + e.earned - (e.owed + e.borrow)
    BY <1>1, <1>5, <1>6, <1>7, <1>8 DEF K!equity
  <2> QED BY <2>1 DEF equityOf, e
<1>11. row.size # 0
  BY <1>1, <1>2
<1> QED BY <1>9, <1>10, <1>11 DEF K!isLiquidatable, liquidatableAt, s

(* From the rows alone the keeper proposes a liquidation if and only if    *)
(* the engine accepts it, wherever the rows determine the funding.         *)
THEOREM KeeperSeesLiquidations == IndexedSpec => []LiquidationsAgree
<1>1. MirrorInv => LiquidationsAgree
  <2> SUFFICES ASSUME MirrorInv, NEW g \in GpuIds, NEW p \in Prices, FundingInRows(g)
               PROVE  liquidationItems(db, g, p, now) = engineLiquidates(g, p)
    BY DEF LiquidationsAgree
  <2> DEFINE row == db.markets[g]
             m == accrue(market[g], now)
             adv == K!advanceFunding(row, now)
  <2>1. /\ market[g] \in Market /\ row \in Market /\ MarketMirrors(row, market[g])
        /\ now \in Nat /\ p \in Nat
    BY PerpConstants DEF MirrorInv, Core, TypeOK, Mirror, Tables
  <2>2. /\ row.exists = market[g].exists /\ row.params = market[g].params
        /\ market[g].params \in MarketParams /\ m \in Market
    BY <2>1, AccrueFacts DEF MarketMirrors, Market
  <2>3. /\ adv.chargeLong = m.chargeLong /\ adv.chargeShort = m.chargeShort
        /\ adv.creditLong = m.creditLong /\ adv.creditShort = m.creditShort
        /\ adv.borrow = m.borrow /\ m.params = market[g].params
    BY <2>1, KeeperAdvance DEF FundingInRows
  <2> HIDE DEF adv, m
  <2>4. ASSUME NEW k \in PositionKeys, k[2] = g, market[g].exists
        PROVE  /\ row.params.maintenanceMarginBps # 0 /\ db.positions[k].size > 0
               /\ K!isLiquidatable(db.positions[k], k[3], K!settle(adv, db.positions[k], k[3]), p,
                                   row.params.maintenanceMarginBps)
               <=> liquidatableAt(m, positions[k], k[3], p)
    <3>1. /\ db.positions[k] \in PositionRow /\ positions[k] \in Position
          /\ PositionMirrors(db.positions[k], positions[k]) /\ k[3] \in BOOLEAN
          /\ positions[k].size > 0 => positions[k].entry > 0
      BY DEF MirrorInv, Mirror, Tables, Core, TypeOK, WellFormed, PositionKeys
    <3>2. /\ row.params.maintenanceMarginBps # 0 /\ row.params.maintenanceMarginBps \in Nat
          /\ row.params.maintenanceMarginBps = m.params.maintenanceMarginBps
      BY <2>2, <2>3, <2>4 DEF MirrorInv, Registered, MarketParams
    <3>3. CASE positions[k].size > 0
      <4>1. db.positions[k].size > 0
        BY <3>1, <3>3 DEF PositionMirrors
      <4> QED BY <2>1, <2>2, <2>3, <3>1, <3>2, <3>3, <4>1, KeeperEquity
    <3>4. CASE ~(positions[k].size > 0)
      <4>1. positions[k].size = 0
        BY <3>1, <3>4 DEF Position
      <4>2. ~(db.positions[k].size > 0)
        BY <3>1, <4>1 DEF PositionMirrors
      <4> QED BY <3>4, <4>2 DEF liquidatableAt
    <3> QED BY <3>3, <3>4
  <2>5. liquidationItems(db, g, p, now) =
          {k \in PositionKeys :
             /\ k[2] = g /\ row.exists /\ row.params.maintenanceMarginBps # 0
             /\ db.positions[k].size > 0
             /\ K!isLiquidatable(db.positions[k], k[3], K!settle(adv, db.positions[k], k[3]), p,
                                 row.params.maintenanceMarginBps)}
    BY DEF liquidationItems, adv
  <2>6. engineLiquidates(g, p) =
          {k \in PositionKeys : k[2] = g /\ market[g].exists
                                  /\ liquidatableAt(m, positions[k], k[3], p)}
    BY DEF engineLiquidates, m
  <2> HIDE DEF row
  <2> QED BY <2>2, <2>4, <2>5, <2>6
<1> QED BY <1>1, MirrorInvariant, PTL

-----------------------------------------------------------------------------
(* The desk's figures                                                      *)

(* perps/math.ts against the contract, on amounts.                         *)
LEMMA DeskRounds ==
  ASSUME NEW a \in Nat, NEW b \in Nat, NEW c \in Nat \ {0}
  PROVE  W!floor(a, b, c) = MulDivFloor(a, b, c) /\ W!ceil(a, b, c) = MulDivCeil(a, b, c)
<1> DEFINE n == a * b
           q == n \div c
<1>1. n \in Nat /\ q \in Nat /\ MulDivCeil(a, b, c) = q + IF n % c = 0 THEN 0 ELSE 1
  BY CeilByRemainder
<1>2. W!floor(a, b, c) = IF n < 0 THEN -((-n) \div c) ELSE q
  BY DEF W!floor
<1>3. MulDivFloor(a, b, c) = q
  BY DEF MulDivFloor
<1>4. W!ceil(a, b, c) = W!floor(a, b, c) + IF n % c = 0 THEN 0 ELSE 1
  BY DEF W!ceil
<1> HIDE DEF n, q
<1> QED BY <1>1, <1>2, <1>3, <1>4

(* The displayed boundary errs on the trader's side: within `swing' of the *)
(* entry against the position, and beyond it when the headroom is already  *)
(* negative, the PnL covers what the headroom lacks.                       *)
LEMMA SwingCovers ==
  ASSUME NEW size \in Nat \ {0}, NEW entry \in Nat \ {0}, NEW h \in Int,
         NEW isLong \in BOOLEAN, NEW p \in Nat, NEW against \in Int,
         against = IF isLong THEN entry - p ELSE p - entry,
         against < W!swing(entry, h, size)
  PROVE  pnl(size, entry, isLong, p) + h >= 0
<1> DEFINE sw == W!swing(entry, h, size)
           move == IF isLong THEN p - entry ELSE entry - p
<1>1. move \in Int /\ move = -against
  OBVIOUS
<1>2. pnl(size, entry, isLong, p) =
        CASE size = 0 \/ move = 0 -> 0
          [] size # 0 /\ move > 0 -> MulDivFloor(size, move, entry)
          [] size # 0 /\ move < 0 -> -MulDivCeil(size, -move, entry)
  BY DEF pnl
<1> HIDE DEF move
<1>3. /\ move = 0 => pnl(size, entry, isLong, p) = 0
      /\ move > 0 => pnl(size, entry, isLong, p) = MulDivFloor(size, move, entry)
      /\ move < 0 => pnl(size, entry, isLong, p) = -MulDivCeil(size, against, entry)
  BY <1>1, <1>2
<1>4. CASE h >= 0
  <2>1. h \in Nat /\ sw = MulDivFloor(entry, h, size)
    <3>1. h \in Nat
      BY <1>4
    <3> QED BY <3>1, DeskRounds DEF W!swing
  <2>2. sw \in Nat /\ sw * size <= entry * h
    BY <2>1, FloorBelow
  <2>3. CASE move > 0
    <3>1. move \in Nat /\ size \in Nat
      BY <2>3, <1>1
    <3>2. MulDivFloor(size, move, entry) \in Nat
      BY <3>1, MulDivNat
    <3> QED BY <1>3, <1>4, <2>3, <3>2
  <2>4. CASE move = 0
    BY <1>3, <1>4, <2>4
  <2>5. CASE move < 0
    <3>1. against \in Nat /\ against <= sw
      BY <1>1, <2>2, <2>5
    <3> HIDE DEF sw
    <3>2. against * size <= sw * size
      BY <2>2, <3>1, ProductMonotone
    <3>3. size * against = against * size /\ entry * h = h * entry /\ size * against \in Nat
          /\ sw * size \in Nat /\ h * entry \in Nat
      BY <2>1, <2>2, <3>1
    <3>4. size * against <= h * entry
      BY <2>2, <3>2, <3>3
    <3>5. MulDivCeil(size, against, entry) \in Nat /\ MulDivCeil(size, against, entry) <= h
      BY <2>1, <3>1, <3>4, CeilAbove
    <3> QED BY <1>3, <2>5, <3>5
  <2> QED BY <1>1, <2>3, <2>4, <2>5
<1>5. CASE h < 0
  <2> DEFINE d == -h
             q == MulDivFloor(entry, d, size)
             f == MulDivFloor(size, move, entry)
  <2>1. d \in Nat \ {0} /\ h = -d
    BY <1>5
  <2> HIDE DEF d
  <2>2. q \in Nat /\ entry * d < q * size + size
    BY <2>1, FloorBelow
  <2>3. sw = -q
    <3>1. entry * h = -(entry * d) /\ entry * d \in Nat /\ entry * d > 0
      BY <2>1
    <3>2. entry * h < 0 /\ -(entry * h) = entry * d
      BY <3>1
    <3> QED BY <3>2 DEF W!swing, W!floor, MulDivFloor
  <2> HIDE DEF q, sw
  <2>4. move \in Nat /\ move > 0 /\ q + 1 <= move
    BY <1>1, <2>2, <2>3 DEF sw
  <2>5. f \in Nat /\ size * move < f * entry + entry
    BY <2>4, FloorBelow
  <2> HIDE DEF f
  <2>6. (q + 1) * size <= move * size /\ (q + 1) * size = q * size + size
        /\ move * size = size * move /\ q * size \in Nat /\ size * move \in Nat
    <3>1. q + 1 \in Nat /\ size \in Nat
      BY <2>2
    <3>2. (q + 1) * size <= move * size
      BY <2>4, <3>1, ProductMonotone
    <3> QED BY <2>2, <2>4, <3>2
  <2>7. entry * d < size * move
    BY <2>1, <2>2, <2>6
  <2>8. d <= f
    <3>1. SUFFICES ASSUME f + 1 <= d PROVE FALSE
      BY <2>1, <2>5
    <3>2. (f + 1) * entry <= d * entry /\ (f + 1) * entry = f * entry + entry
          /\ d * entry = entry * d /\ f * entry \in Nat /\ entry * d \in Nat
      <4>1. f + 1 \in Nat /\ d \in Nat /\ entry \in Nat
        BY <2>1, <2>5
      <4>2. (f + 1) * entry <= d * entry
        BY <3>1, <4>1, ProductMonotone
      <4> QED BY <2>5, <4>1, <4>2
    <3> QED BY <2>5, <2>6, <2>7, <3>2
  <2> QED BY <1>3, <2>1, <2>4, <2>5, <2>8 DEF f
<1> QED BY <1>4, <1>5

(* A price on the safe side of an estimate leaves the maintenance margin,  *)
(* for any debt or credit.                                                 *)
LEMMA EstimateCovers ==
  ASSUME NEW size \in Nat \ {0}, NEW coll \in Nat, NEW entry \in Nat \ {0},
         NEW isLong \in BOOLEAN, NEW mmBps \in Nat, NEW owes \in Int, NEW p \in Prices,
         p \in SafeSide(isLong, W!liquidationPriceEstimate(size, coll, entry, isLong, mmBps, owes))
  PROVE  coll + pnl(size, entry, isLong, p) - owes >= maintenance(size, mmBps)
<1> DEFINE mm == maintenance(size, mmBps)
           h == coll - mm - owes
           sw == W!swing(entry, h, size)
           est == IF isLong THEN entry - sw ELSE entry + sw
           gain == pnl(size, entry, isLong, p)
           against == IF isLong THEN entry - p ELSE p - entry
<1>1. p \in Nat \ {0} /\ size \in Nat /\ BPS \in Nat \ {0}
  BY PerpConstants, DenominatorsPositive
<1>2. mm \in Nat /\ W!maintenance(size, mmBps) = mm
  BY <1>1, DeskRounds, MulDivNat DEF maintenance, W!maintenance
<1> HIDE DEF mm
<1>3. h \in Int
  BY <1>2
<1>4. W!liquidationPriceEstimate(size, coll, entry, isLong, mmBps, owes) =
        IF est <= 0 THEN 0 ELSE est
  BY <1>2 DEF W!liquidationPriceEstimate
<1>5. IF isLong THEN p > (IF est <= 0 THEN 0 ELSE est) ELSE p < (IF est <= 0 THEN 0 ELSE est)
  BY <1>4 DEF SafeSide
<1> HIDE DEF h
<1>6. sw \in Int
  <2>1. entry * h \in Int /\ (entry * h < 0 => -(entry * h) \in Nat)
        /\ (~(entry * h < 0) => entry * h \in Nat)
    BY <1>3
  <2> DEFINE n == entry * h
  <2> HIDE DEF n
  <2>2. (n < 0 => (-n) \div size \in Nat) /\ (~(n < 0) => n \div size \in Nat)
    BY <1>1, <2>1 DEF n
  <2>3. sw = IF n < 0 THEN -((-n) \div size) ELSE n \div size
    BY DEF n, W!swing, W!floor
  <2> QED BY <2>1, <2>2, <2>3
<1> HIDE DEF sw
<1>7. against \in Int /\ against < sw
  BY <1>1, <1>5, <1>6
<1>8. gain + h >= 0
  <2>1. against = (IF isLong THEN entry - p ELSE p - entry) /\ p \in Nat
    BY <1>1
  <2> HIDE DEF against
  <2> QED BY <1>3, <1>7, <2>1, SwingCovers DEF sw
<1>9. gain \in Int
  BY <1>1, PnlInt
<1> HIDE DEF gain
<1> QED BY <1>2, <1>3, <1>8, <1>9 DEF h, mm, gain

(* No price on the safe side of the displayed liquidation price is one the *)
(* engine liquidates at (liquidationPriceEstimate "can only understate the *)
(* distance"): for every price, debt, credit and denominator.              *)
THEOREM BoundarySafe == IndexedSpec => []BoundaryIsSafe
<1>1. MirrorInv => BoundaryIsSafe
  <2> SUFFICES ASSUME MirrorInv, NEW k \in PositionKeys, positions[k].size > 0,
                      NEW mark \in Prices, NEW p \in SafeSide(k[3], shownBoundary(k, mark))
               PROVE  ~liquidatableAt(market[k[2]], positions[k], k[3], p)
    BY DEF BoundaryIsSafe
  <2> DEFINE pos == positions[k]
             m == market[k[2]]
             isLong == k[3]
             mmBps == m.params.maintenanceMarginBps
             s == settle(m, pos, isLong)
             owes == s.owed + s.borrow - pos.earnedFunding - s.earned
  <2>1. /\ pos \in Position /\ m \in Market /\ isLong \in BOOLEAN /\ pos.entry > 0
        /\ m.params \in MarketParams
    BY DEF MirrorInv, Core, TypeOK, WellFormed, PositionKeys, Market
  <2>2. /\ pos.size \in Nat \ {0} /\ pos.collateral \in Nat /\ pos.entry \in Nat \ {0}
        /\ pos.earnedFunding \in Nat /\ mmBps \in Nat /\ mark \in Nat /\ p \in Prices /\ p \in Nat
    BY <2>1, PerpConstants DEF Position, MarketParams, SafeSide
  <2>3. s.owed \in Nat /\ s.earned \in Nat /\ s.borrow \in Nat
    BY <2>1, SettleFacts
  <2>4. \A q \in Nat : pnl(pos.size, pos.entry, isLong, q) \in Int
    BY <2>1, <2>2, PnlInt
  <2>5. \A q \in Nat : equityOf(m, pos, isLong, q) =
          pos.collateral + pnl(pos.size, pos.entry, isLong, q) + pos.earnedFunding + s.earned
            - (s.owed + s.borrow)
    BY DEF equityOf
  <2> HIDE DEF s
  <2>6. owes \in Int
    BY <2>2, <2>3
  <2>7. \A q \in Nat : equityOf(m, pos, isLong, q) =
          pos.collateral + pnl(pos.size, pos.entry, isLong, q) - owes
    BY <2>2, <2>3, <2>4, <2>5
  <2>8. pos.collateral + pnl(pos.size, pos.entry, isLong, mark) - equityOf(m, pos, isLong, mark)
          = owes
    BY <2>2, <2>4, <2>6, <2>7
  <2>9. shownBoundary(k, mark) =
          W!liquidationPriceEstimate(pos.size, pos.collateral, pos.entry, isLong, mmBps, owes)
    BY <2>8 DEF shownBoundary
  <2> HIDE DEF owes
  <2>10. p \in SafeSide(isLong, W!liquidationPriceEstimate(pos.size, pos.collateral, pos.entry,
                                                           isLong, mmBps, owes))
    BY <2>9
  <2> HIDE DEF pos, m, isLong, mmBps
  <2>11. pos.collateral + pnl(pos.size, pos.entry, isLong, p) - owes >= maintenance(pos.size, mmBps)
    BY <2>1, <2>2, <2>6, <2>10, EstimateCovers
  <2>12. equityOf(m, pos, isLong, p) \in Int /\ maintenance(pos.size, mmBps) \in Nat
    BY <2>1, <2>2, EquityInt, MulDivNat, DenominatorsPositive DEF maintenance
  <2>13. ~(equityOf(m, pos, isLong, p) < maintenance(pos.size, mmBps))
    BY <2>2, <2>7, <2>11, <2>12
  <2> QED BY <2>13 DEF liquidatableAt, pos, m, isLong, mmBps
<1> QED BY <1>1, MirrorInvariant, PTL

LEMMA DeskFunding ==
  ASSUME NEW size \in Nat, NEW cum \in Nat, NEW ckpt \in Nat
  PROVE  /\ W!fundingOwed(size, cum, ckpt) = fundingOwed(size, cum, ckpt)
         /\ W!fundingEarned(size, cum, ckpt) = fundingEarned(size, cum, ckpt)
<1>1. SCALE \in Nat \ {0}
  BY DenominatorsPositive
<1>2. CASE cum <= ckpt
  BY <1>2 DEF W!fundingOwed, W!fundingEarned, fundingOwed, fundingEarned
<1>3. CASE ~(cum <= ckpt)
  <2>1. cum - ckpt \in Nat
    BY <1>3
  <2> QED BY <1>1, <1>3, <2>1, DeskRounds DEF W!fundingOwed, W!fundingEarned,
                                              fundingOwed, fundingEarned
<1> QED BY <1>2, <1>3

(* The desk tests the gain's sign where the contract also tests for zero.  *)
LEMMA DeskPnl ==
  ASSUME NEW size \in Nat \ {0}, NEW entry \in Nat \ {0}, NEW isLong \in BOOLEAN,
         NEW price \in Nat
  PROVE  W!pnl(size, entry, isLong, price) = pnl(size, entry, isLong, price)
<1> DEFINE move == IF isLong THEN price - entry ELSE entry - price
<1>1. move \in Int /\ size \in Nat
  OBVIOUS
<1>2. W!pnl(size, entry, isLong, price) =
        IF move > 0 THEN W!floor(size, move, entry) ELSE -W!ceil(size, -move, entry)
  BY DEF W!pnl
<1>3. pnl(size, entry, isLong, price) =
        CASE size = 0 \/ move = 0 -> 0
          [] size # 0 /\ move > 0 -> MulDivFloor(size, move, entry)
          [] size # 0 /\ move < 0 -> -MulDivCeil(size, -move, entry)
  BY DEF pnl
<1> HIDE DEF move
<1>4. CASE move > 0
  <2>1. move \in Nat
    BY <1>1, <1>4
  <2>2. pnl(size, entry, isLong, price) = MulDivFloor(size, move, entry)
    BY <1>1, <1>3, <1>4
  <2> QED BY <1>1, <1>2, <1>4, <2>1, <2>2, DeskRounds
<1>5. CASE move = 0
  <2>1. W!ceil(size, 0, entry) = MulDivCeil(size, 0, entry)
    BY <1>1, DeskRounds
  <2>2. MulDivCeil(size, 0, entry) = 0
    <3>1. size * 0 = 0 * size
      BY <1>1
    <3>2. MulDivCeil(size, 0, entry) = MulDivCeil(0, size, entry)
      BY <3>1 DEF MulDivCeil
    <3> QED BY <1>1, <3>2, ZeroDrift
  <2>3. pnl(size, entry, isLong, price) = 0
    BY <1>3, <1>5
  <2>4. W!pnl(size, entry, isLong, price) = -W!ceil(size, 0, entry)
    BY <1>2, <1>5
  <2> QED BY <2>1, <2>2, <2>3, <2>4
<1>6. CASE move < 0
  <2>1. -move \in Nat
    BY <1>1, <1>6
  <2>2. pnl(size, entry, isLong, price) = -MulDivCeil(size, -move, entry)
    BY <1>1, <1>3, <1>6
  <2>3. W!pnl(size, entry, isLong, price) = -W!ceil(size, -move, entry)
    BY <1>1, <1>2, <1>6
  <2> QED BY <1>1, <2>1, <2>2, <2>3, DeskRounds
<1> QED BY <1>1, <1>4, <1>5, <1>6

(* A later checkpoint owes no more.                                        *)
LEMMA LaterOwesLess ==
  ASSUME NEW size \in Nat, NEW cum \in Nat, NEW early \in Nat, NEW late \in Nat, early <= late
  PROVE  fundingOwed(size, cum, late) <= fundingOwed(size, cum, early)
<1>1. fundingOwed(size, cum, early) \in Nat
  BY FundingNat
<1>2. CASE cum <= late
  BY <1>1, <1>2 DEF fundingOwed
<1>3. CASE ~(cum <= late)
  <2>1. cum - late \in Nat /\ cum - early \in Nat /\ cum - late <= cum - early
        /\ ~(cum <= early)
    BY <1>3
  <2> DEFINE x == cum - late
             y == cum - early
  <2>2. fundingOwed(size, cum, late) = MulDivCeil(size, x, SCALE)
    BY <1>3 DEF fundingOwed
  <2>3. fundingOwed(size, cum, early) = MulDivCeil(size, y, SCALE)
    BY <2>1 DEF fundingOwed
  <2>4. x \in Nat /\ y \in Nat /\ x <= y
    BY <2>1
  <2> HIDE DEF x, y
  <2>5. size * x = x * size /\ size * y = y * size
    BY <2>4
  <2>6. MulDivCeil(size, x, SCALE) = MulDivCeil(x, size, SCALE)
        /\ MulDivCeil(size, y, SCALE) = MulDivCeil(y, size, SCALE)
    BY <2>5 DEF MulDivCeil
  <2>7. MulDivCeil(x, size, SCALE) <= MulDivCeil(y, size, SCALE)
    BY <2>4, CeilMonotone, DenominatorsPositive
  <2> QED BY <2>2, <2>3, <2>6, <2>7
<1> QED BY <1>2, <1>3

(* What is left after a partial close owes no more than its size did, has  *)
(* earned nothing since, and keeps what the slice did not take.            *)
LEMMA RemainderDebt ==
  ASSUME NEW m \in Market, NEW pos \in Position, NEW isLong \in BOOLEAN, NEW price \in Nat,
         NEW delta \in 1..pos.size, pos.entry > 0, Behind(m, pos, isLong), delta < pos.size
  PROVE  LET c == closeSlice(m, pos, isLong, delta, price)
             after == remainder(m, pos, isLong, delta, price, c)
         IN  /\ after.earnedFunding = c.carried
             /\ after.creditCkpt = creditCum(m, isLong)
             /\ after.feeCkpt \in Nat /\ after.feeCkpt >= pos.feeCkpt
             /\ after.borrowCkpt \in Nat /\ after.borrowCkpt >= pos.borrowCkpt
<1> DEFINE c == closeSlice(m, pos, isLong, delta, price)
           after == remainder(m, pos, isLong, delta, price, c)
           left == pos.size - delta
           p0 == snapshot(m, pos, isLong)
           fee == rewound(chargeCum(m, isLong), pos.feeCkpt, c.owedRem, left)
           bor == rewound(m.borrow, pos.borrowCkpt, c.borrowRem, left)
           r == [p0 EXCEPT !.feeCkpt = fee, !.borrowCkpt = bor]
           u == PosPart(pnl(left, pos.entry, isLong, price))
<1>1. /\ c.pos = p0 /\ c.owedRem \in Nat /\ c.borrowRem \in Nat
  BY CloseFacts
<1>2. /\ pos.feeCkpt \in Nat /\ pos.borrowCkpt \in Nat /\ left \in Nat \ {0}
  BY DEF Position
<1>3. /\ chargeCum(m, isLong) \in Nat /\ m.borrow \in Nat
      /\ pos.feeCkpt <= chargeCum(m, isLong) /\ pos.borrowCkpt <= m.borrow
  BY CumNat DEF Behind
<1>4. /\ p0 \in Position /\ p0.creditCkpt = creditCum(m, isLong)
  BY SettleFacts
<1> HIDE DEF c, p0
<1>5. fee \in pos.feeCkpt..chargeCum(m, isLong)
  BY <1>1, <1>2, <1>3, RewoundRange
<1>6. bor \in pos.borrowCkpt..m.borrow
  BY <1>1, <1>2, <1>3, RewoundRange
<1>7. fee \in Nat /\ fee >= pos.feeCkpt /\ bor \in Nat /\ bor >= pos.borrowCkpt
  BY <1>2, <1>3, <1>5, <1>6
<1>8. after = [r EXCEPT !.size = left, !.collateral = @ - c.released,
                        !.earnedFunding = c.carried, !.reserveShare = u]
  BY <1>1, <1>2 DEF remainder, rewindFunding
<1> HIDE DEF fee, bor, u, left
<1>9. /\ DOMAIN r = DOMAIN p0 /\ r.feeCkpt = fee /\ r.borrowCkpt = bor
      /\ r.creditCkpt = p0.creditCkpt
  BY <1>4 DEF Position
<1> HIDE DEF r
<1>10. /\ after.earnedFunding = c.carried /\ after.creditCkpt = r.creditCkpt
       /\ after.feeCkpt = r.feeCkpt /\ after.borrowCkpt = r.borrowCkpt
  BY <1>4, <1>8, <1>9 DEF Position
<1> QED BY <1>4, <1>7, <1>9, <1>10 DEF c

(* quoteClose against the settlement of the slice, on the same market.     *)
LEMMA QuoteSettles ==
  ASSUME Core, NEW k \in PositionKeys, positions[k].size > 0,
         NEW delta \in 1..positions[k].size, NEW price \in Nat
  PROVE  LET pos == positions[k]
             m == market[k[2]]
             c == closeSlice(m, pos, k[3], delta, price)
         IN  /\ quoteClose(k, delta, price).proceeds = c.due
             /\ delta < pos.size =>
                  quoteClose(k, delta, price).boundary =
                    W!liquidationPriceEstimate(pos.size - delta, pos.collateral - c.released,
                      pos.entry, k[3], m.params.maintenanceMarginBps,
                      debt(m, pos, k[3], pos.size - delta) - c.carried)
<1> DEFINE pos == positions[k]
           m == market[k[2]]
           isLong == k[3]
           left == pos.size - delta
           c == closeSlice(m, pos, isLong, delta, price)
           e == fundingEarned(pos.size, creditCum(m, isLong), pos.creditCkpt)
           b == pos.earnedFunding + e
           rel == MulDivFloor(pos.collateral, delta, pos.size)
           slice == MulDivFloor(b, delta, pos.size)
           fee == feeBps(delta, m.params.closeFeeBps)
           gain == pnl(delta, pos.entry, isLong, price)
           o1 == fundingOwed(delta, chargeCum(m, isLong), pos.feeCkpt)
           o2 == fundingOwed(delta, m.borrow, pos.borrowCkpt)
           r1 == fundingOwed(left, chargeCum(m, isLong), pos.feeCkpt)
           r2 == fundingOwed(left, m.borrow, pos.borrowCkpt)
           mmBps == m.params.maintenanceMarginBps
<1>1. /\ pos \in Position /\ m \in Market /\ isLong \in BOOLEAN /\ pos.entry > 0
      /\ m.params \in MarketParams
  BY DEF Core, TypeOK, WellFormed, PositionKeys, Market
<1>2. /\ pos.size \in Nat \ {0} /\ pos.collateral \in Nat /\ pos.entry \in Nat \ {0}
      /\ pos.earnedFunding \in Nat /\ pos.feeCkpt \in Nat /\ pos.creditCkpt \in Nat
      /\ pos.borrowCkpt \in Nat /\ m.params.closeFeeBps \in Nat
      /\ delta \in Nat \ {0} /\ left \in Nat
  BY <1>1 DEF Position, MarketParams
<1>3. chargeCum(m, isLong) \in Nat /\ creditCum(m, isLong) \in Nat /\ m.borrow \in Nat
  BY <1>1, CumNat
<1>4. e \in Nat /\ b \in Nat
  <2>1. e \in Nat
    BY <1>2, <1>3, FundingNat
  <2> HIDE DEF e
  <2> QED BY <1>2, <2>1
<1>5. W!fundingEarned(pos.size, creditCum(m, isLong), pos.creditCkpt) = e
  BY <1>2, <1>3, DeskFunding
<1>6. /\ W!fundingOwed(delta, chargeCum(m, isLong), pos.feeCkpt) = o1
      /\ W!fundingOwed(delta, m.borrow, pos.borrowCkpt) = o2
      /\ W!fundingOwed(left, chargeCum(m, isLong), pos.feeCkpt) = r1
      /\ W!fundingOwed(left, m.borrow, pos.borrowCkpt) = r2
  BY <1>2, <1>3, DeskFunding
<1>7. o1 \in Nat /\ o2 \in Nat
  BY <1>2, <1>3, FundingNat
<1>8. W!floor(pos.collateral, delta, pos.size) = rel /\ rel \in Nat
  BY <1>2, DeskRounds, MulDivNat
<1>9. W!floor(b, delta, pos.size) = slice /\ slice \in Nat
  <2> HIDE DEF b
  <2> QED BY <1>2, <1>4, DeskRounds, MulDivNat
<1>10. W!feeBps(delta, m.params.closeFeeBps) = fee /\ fee \in Nat
  BY <1>2, DeskRounds, MulDivNat, DenominatorsPositive DEF feeBps, W!feeBps
<1>11. W!pnl(delta, pos.entry, isLong, price) = gain /\ gain \in Int
  BY <1>1, <1>2, DeskPnl, PnlInt
<1>12. /\ c.released = rel /\ c.carried = b - slice
       /\ c.due = PosPart(rel + gain - fee - (o1 + o2) + slice)
  BY DEF closeSlice, settle
<1>13. quoteClose(k, delta, price) =
         LET due == rel + gain - fee - (o1 + o2) + slice
         IN  [proceeds |-> IF due > 0 THEN due ELSE 0,
              boundary |-> IF left = 0 THEN 0
                           ELSE W!liquidationPriceEstimate(left, pos.collateral - rel, pos.entry,
                                  isLong, mmBps, (r1 + r2) - (b - slice))]
  BY <1>5, <1>6, <1>8, <1>9, <1>10, <1>11 DEF quoteClose, balanceTotal
<1>14. debt(m, pos, isLong, left) = r1 + r2
  BY DEF debt
<1> HIDE DEF c, b, rel, slice, fee, gain, o1, o2, r1, r2, mmBps, m, isLong
<1>15. quoteClose(k, delta, price).proceeds = c.due
  <2>1. rel + gain - fee - (o1 + o2) + slice \in Int
    BY <1>7, <1>8, <1>9, <1>10, <1>11
  <2> QED BY <1>12, <1>13, <2>1 DEF PosPart
<1>16. delta < pos.size =>
         quoteClose(k, delta, price).boundary =
           W!liquidationPriceEstimate(left, pos.collateral - c.released, pos.entry, isLong, mmBps,
                                      debt(m, pos, isLong, left) - c.carried)
  <2>1. delta < pos.size => left # 0
    BY <1>2
  <2> QED BY <1>12, <1>13, <1>14, <2>1
<1> QED BY <1>15, <1>16 DEF c, m, isLong, mmBps

(* A fill on the state that was quoted: the proceeds and the boundary.     *)
LEMMA FillIsQuoted ==
  ASSUME Core, NEW id \in OrderIds, NEW price \in Prices, executeDecrease(id, price),
         Current(orders[id].market)
  PROVE  LET o == orders[id]
             k == KeyOf(o)
             closed == positions[k].size - positions'[k].size
             q == quoteClose(k, closed, epochPrice'[o.market])
         IN  /\ claimableOf'[o.account] = claimableOf[o.account] + q.proceeds
             /\ positions'[k].size > 0 =>
                  \A p \in SafeSide(o.isLong, q.boundary) :
                    ~liquidatableAt(market'[o.market], positions'[k], o.isLong, p)
<1> DEFINE o == orders[id]
           g == o.market
           a == o.account
           isLong == o.isLong
           k == KeyOf(o)
           pos == positions[k]
           before == market[g]
           m == accrue(before, now)
           delta == closedSize(o, pos)
           c == closeSlice(m, pos, isLong, delta, price)
           after == remainder(m, pos, isLong, delta, price, c)
           n == addOpenInterest(m, isLong, -delta)
           mmBps == before.params.maintenanceMarginBps
           est == W!liquidationPriceEstimate(pos.size - delta, pos.collateral - c.released,
                    pos.entry, isLong, mmBps, debt(before, pos, isLong, pos.size - delta) - c.carried)
<1>1. /\ claimableOf' = [claimableOf EXCEPT ![a] = @ + c.due]
      /\ positions' = [positions EXCEPT ![k] = after]
      /\ market' = [market EXCEPT ![g] = n]
      /\ pos.size > 0 /\ Consume(g, price)
  BY DEF executeDecrease
<1>2. /\ o \in Order /\ g \in GpuIds /\ a \in Accounts /\ isLong \in BOOLEAN /\ o.size \in Nat
      /\ k \in PositionKeys /\ k[2] = g /\ k[3] = isLong
  BY DEF Core, TypeOK, Order, KeyOf, PositionKeys
<1>3. /\ positions \in [PositionKeys -> Position] /\ pos \in Position /\ pos.entry > 0
      /\ claimableOf \in [Accounts -> Nat] /\ market \in [GpuIds -> Market]
      /\ before \in Market /\ before.params \in MarketParams /\ mmBps \in Nat
      /\ epochPrice \in [GpuIds -> Prices \cup {0}]
  BY <1>1, <1>2 DEF Core, TypeOK, WellFormed, Market, MarketParams
<1>4. price \in Nat /\ epochPrice'[g] = price
  BY <1>1, <1>2, <1>3, ConsumeTyped DEF Consume
<1>5. /\ m \in Market /\ m.params = before.params /\ m.borrow = before.borrow
      /\ chargeCum(m, isLong) = chargeCum(before, isLong)
      /\ creditCum(m, isLong) = creditCum(before, isLong)
  <2>1. m = [before EXCEPT !.updatedAt = now] /\ now \in Nat
    BY DEF Current, Core, TypeOK
  <2> QED BY <1>3, <2>1 DEF chargeCum, creditCum, Market
<1>6. Behind(m, pos, isLong)
  BY <1>1, <1>2, <1>5 DEF Behind, Core, CheckpointsBehind
<1>7. delta \in 1..pos.size /\ pos.size \in Nat
  BY <1>1, <1>2, <1>3 DEF closedSize, Lesser, Position
<1>8. /\ n.params = m.params /\ n.borrow = m.borrow
      /\ chargeCum(n, isLong) = chargeCum(m, isLong)
      /\ creditCum(n, isLong) = creditCum(m, isLong)
  <2> HIDE DEF m
  <2> QED BY <1>2, <1>5 DEF addOpenInterest, chargeCum, creditCum, Market
<1>9. c = closeSlice(before, pos, isLong, delta, price)
  <2> HIDE DEF m, delta, before
  <2> QED BY <1>5 DEF closeSlice, settle, snapshot
<1> HIDE DEF m, n, delta
<1>10. /\ after \in Position /\ after.size = pos.size - delta
       /\ after.collateral = pos.collateral - c.released
       /\ after.size > 0 => after.entry > 0
  BY <1>2, <1>3, <1>4, <1>5, <1>6, <1>7, RemainderFacts
<1>11. after.size # 0 => after.entry = pos.entry
  BY <1>2, <1>3, <1>4, <1>5, <1>7, RemainderEntry
<1>12. delta < pos.size =>
         /\ after.earnedFunding = c.carried
         /\ after.creditCkpt = creditCum(m, isLong)
         /\ after.feeCkpt \in Nat /\ after.feeCkpt >= pos.feeCkpt
         /\ after.borrowCkpt \in Nat /\ after.borrowCkpt >= pos.borrowCkpt
  BY <1>2, <1>3, <1>4, <1>5, <1>6, <1>7, RemainderDebt
<1>13. c.released \in 0..pos.collateral /\ c.carried \in Nat /\ c.due \in Nat
  BY <1>2, <1>3, <1>4, <1>5, <1>7, CloseFacts
<1>14. /\ quoteClose(k, delta, price).proceeds = c.due
       /\ delta < pos.size => quoteClose(k, delta, price).boundary = est
  BY <1>1, <1>2, <1>4, <1>7, <1>9, QuoteSettles
<1> HIDE DEF c, after
<1>15. positions'[k] = after /\ market'[g] = n
       /\ claimableOf'[a] = claimableOf[a] + c.due
  BY <1>1, <1>2, <1>3
<1>16. pos.size - positions'[k].size = delta
  BY <1>7, <1>10, <1>15
<1>17. claimableOf'[a] = claimableOf[a] + quoteClose(k, delta, price).proceeds
  BY <1>14, <1>15
<1>18. ASSUME after.size > 0, NEW p \in SafeSide(isLong, est)
       PROVE  ~liquidatableAt(n, after, isLong, p)
  <2> DEFINE left == pos.size - delta
             coll == pos.collateral - c.released
             owes == debt(before, pos, isLong, left) - c.carried
             w1 == fundingOwed(left, chargeCum(m, isLong), pos.feeCkpt)
             w2 == fundingOwed(left, m.borrow, pos.borrowCkpt)
             v1 == fundingOwed(left, chargeCum(m, isLong), after.feeCkpt)
             v2 == fundingOwed(left, m.borrow, after.borrowCkpt)
             gain == pnl(left, pos.entry, isLong, p)
             mm == maintenance(left, mmBps)
  <2>1. /\ left \in Nat \ {0} /\ delta < pos.size /\ coll \in Nat /\ pos.entry \in Nat \ {0}
        /\ pos.feeCkpt \in Nat /\ pos.borrowCkpt \in Nat /\ p \in Prices /\ p \in Nat
    BY <1>3, <1>7, <1>10, <1>13, <1>18, PerpConstants DEF Position, SafeSide
  <2>2. chargeCum(m, isLong) \in Nat /\ creditCum(m, isLong) \in Nat /\ m.borrow \in Nat
    BY <1>2, <1>5, CumNat
  <2>3. w1 \in Nat /\ w2 \in Nat /\ v1 \in Nat /\ v2 \in Nat
    BY <1>12, <2>1, <2>2, FundingNat
  <2>4. v1 <= w1 /\ v2 <= w2
    BY <1>12, <2>1, <2>2, LaterOwesLess
  <2>5. debt(before, pos, isLong, left) = w1 + w2
    BY <1>5 DEF debt
  <2>6. gain \in Int /\ mm \in Nat
    BY <1>2, <1>3, <2>1, PnlInt, MulDivNat, DenominatorsPositive DEF maintenance
  <2>7. fundingEarned(left, creditCum(m, isLong), after.creditCkpt) = 0
    BY <1>12, <2>1, <2>2 DEF fundingEarned
  <2>8. equityOf(n, after, isLong, p) = coll + gain + c.carried + 0 - (v1 + v2)
    BY <1>8, <1>10, <1>11, <1>12, <2>1, <2>7 DEF equityOf, settle
  <2> HIDE DEF left, coll, w1, w2, v1, v2, gain, mm
  <2>9. owes \in Int /\ owes = w1 + w2 - c.carried
    BY <1>13, <2>3, <2>5
  <2> HIDE DEF owes
  <2>10. coll + gain - owes >= mm
    <3>1. p \in SafeSide(isLong, W!liquidationPriceEstimate(left, coll, pos.entry, isLong,
                                                            mmBps, owes))
      BY <1>18 DEF left, coll, owes
    <3> HIDE DEF isLong, mmBps, pos
    <3>2. coll + pnl(left, pos.entry, isLong, p) - owes >= maintenance(left, mmBps)
      BY <1>2, <1>3, <2>1, <2>9, <3>1, EstimateCovers
    <3> QED BY <3>2 DEF gain, mm
  <2>11. ~(equityOf(n, after, isLong, p) < mm)
    BY <1>13, <2>1, <2>3, <2>4, <2>6, <2>8, <2>9, <2>10
  <2> QED BY <1>5, <1>8, <1>10, <2>11 DEF liquidatableAt, mm, left
<1>19. after.size > 0 => quoteClose(k, delta, price).boundary = est
  BY <1>7, <1>10, <1>14
<1> HIDE DEF est
<1>20. positions'[k].size > 0 =>
         \A p \in SafeSide(isLong, quoteClose(k, delta, price).boundary) :
           ~liquidatableAt(market'[g], positions'[k], isLong, p)
  BY <1>15, <1>18, <1>19
<1> QED BY <1>4, <1>16, <1>17, <1>20

(* A close executed on the state that was quoted pays the quoted proceeds  *)
(* to the wei, and no price on the safe side of the quoted boundary        *)
(* liquidates what is left: for every size, price and debt.                *)
THEOREM CloseIsQuoted == IndexedSpec => CloseQuoteExact
<1> DEFINE Quoted ==
      \A id \in OrderIds :
       LET o == orders[id]
           k == KeyOf(o)
           closed == positions[k].size - positions'[k].size
           q == quoteClose(k, closed, epochPrice'[o.market])
       IN  /\ o.status = "Pending" /\ orders'[id].status = "Executed"
           /\ o.kind # "MarketIncrease" /\ Current(o.market)
           => /\ claimableOf'[o.account] = claimableOf[o.account] + q.proceeds
              /\ positions'[k].size > 0 =>
                   \A p \in SafeSide(o.isLong, q.boundary) :
                     ~liquidatableAt(market'[o.market], positions'[k], o.isLong, p)
<1>1. MirrorInv /\ [IndexedNext]_indexedVars => [Quoted]_vars
  <2> SUFFICES ASSUME MirrorInv, [IndexedNext]_indexedVars, NEW id \in OrderIds,
                      orders[id].status = "Pending", orders'[id].status = "Executed",
                      orders[id].kind # "MarketIncrease", Current(orders[id].market)
               PROVE  LET o == orders[id]
                          k == KeyOf(o)
                          closed == positions[k].size - positions'[k].size
                          q == quoteClose(k, closed, epochPrice'[o.market])
                      IN  /\ claimableOf'[o.account] = claimableOf[o.account] + q.proceeds
                          /\ positions'[k].size > 0 =>
                               \A p \in SafeSide(o.isLong, q.boundary) :
                                 ~liquidatableAt(market'[o.market], positions'[k], o.isLong, p)
    BY Zenon
  <2>1. Core /\ [Next]_vars
    BY IndexedIsEngine DEF MirrorInv
  <2>2. PICK p \in Prices : executeDecrease(id, p)
    <3>1. PICK p \in Prices : executeIncrease(id, p) \/ executeDecrease(id, p)
      BY <2>1, ExecutedByFill
    <3>2. ~executeIncrease(id, p)
      BY DEF executeIncrease
    <3> QED BY <3>1, <3>2
  <2> QED BY <2>1, <2>2, FillIsQuoted
<1>2. IndexedSpec => [][Quoted]_vars
  BY <1>1, MirrorInvariant, PTL DEF IndexedSpec
<1> QED BY <1>2 DEF CloseQuoteExact
=============================================================================
