# gUSD: a TLA+ verification project

gUSD is a monorepo: Solidity contracts for a dollar token, a yield vault, GPU
spot markets and gUSD-settled perpetuals, and the TypeScript services around
them (price attestor, pricing engine, order keeper, indexer, web client). This
directory models the parts whose correctness depends on interleavings, late or
failing calls, long call sequences and integer rounding, checks them with TLC
and proves the central invariants with TLAPS.

## 1. Inventory

| part | source | state | operations | depends on |
|---|---|---|---|---|
| gUSD token, stable router | `GUSD.sol`, `StableRouter.sol` | supply, reserve, fees, sink, whitelist | mint, redeem, setFees, pause, mint and redeem through a pool | revenue ledger |
| sgUSD vault | `sgUSD.sol` | shares, assets, perpReserved, per-block counter | deposit, redeem, perpWithdraw, setPerpReserved | gUSD, perp engine |
| revenue ledger | `RevenueLedger.sol` | gUSD balance, split | distribute, sweep, setSplit | vault |
| oracle | `oracle/GpuOracle.sol`, `ReportCodec.sol` | bound report per GPU, transient registry, signer, grid | consume, transferSigner, acceptSigner, owner settings | attestor's signatures |
| issuance | `GPUIssuance.sol`, `GPUToken.sol` | GPU list, enabled flags, fee | createGpu, issue, issueCredited | oracle, market liquidity |
| market liquidity | `GPUMarketLiquidity.sol` | escrowed gUSD and GPU per market | notePrincipal, pull, credit, absorb | issuance, hook |
| spot hook | `hooks/GPUHook.sol`, `PoolWalk.sol` | POL parameters, caps, plan of a swap | beforeSwap, afterSwap, settings | pool manager, liquidity, oracle |
| router, quoter | `GpuRouter.sol`, `GpuQuoter.sol` | none | composed calls, quotes | all of the above |
| perp engine | `GpuPerpEngine.sol`, `PerpMath`, `PerpFunding`, `PerpLiquidation`, `PerpViews` | markets, orders, positions, trigger index, claimable, totals | createOrder, cancelOrder, executeOrder, liquidate, claim, owner settings | vault, oracle, ledger |
| keeper | `apps/keeper/src` | book, tick queue, batches, candidate stream | processTick, reevaluateAll, run, reconcile, connect | attestor, indexer, engine |
| attestor | `apps/attestor/src`, `packages/attestor-client` | cycles, reports, violation ledger | tick, audit, sign, store, boot, stop | pricing engine, database |
| pricing engine | `packages/pricing-engine` | none (pure), fed back through the database | aggregate, screen, weight, gate, carry forward | catalog |
| indexer | `apps/indexer/src` | tables folded from events | one handler per event | contracts' events |
| web client | `apps/web/src/data` | session, transaction store, wallet stores, oracle feed, candles | login, action runner, refreshes, feed, perp desk, quotes | contracts, indexer, attestor |

How they interact: the pricing engine computes a candidate, the attestor audits
it and signs one report per GPU and epoch; anybody brings the report to
`executeOrder`, `liquidate`, `issue` or a swap, which consume it in the oracle.
The perp engine holds traders' collateral and escrow; what a trader loses goes
to the vault, what a trader wins is *credited* (`claimableOf`) and paid later by
the vault under a per-block cap. The vault's LPs redeem what is not reserved;
`perpReserved` is a copy the engine pushes. Fees go to the ledger, which splits
them between vault and treasury. A spot swap is split over the pool's native
book, the protocol's own liquidity (POL) and, as the backstop, new issuance.
The indexer folds events into tables; the keeper and the web client read those
tables and the chain, wait, and act on what they read.

What is hard here: a position's life crosses many transactions of several
actors in no fixed order; liability totals are maintained incrementally beside
per-position shares; funding debt lives in per-unit checkpoints rewound under
rounding; orders are validated when created and applied later; a swap is planned
before and settled after the native book moved, from two computations; the same
arithmetic exists three times (Solidity, keeper, web); services have calls in
flight that fail, hang or answer after a crash, a logout or an unmount. Under
"hazards" `PROJECT.json` lists these at their lines with the properties that
watch them.

## 2. Modules

| module | models |
|---|---|
| `Amounts` | `Math.mulDiv` rounding down and up; `SumOf(f)` over a finite domain |
| `PerpEngine` | the engine with the vault surface it calls, and `PerpMath.sol`: fees, PnL, funding and borrow with the code's rounding direction |
| `PerpIndexer` | `handlers/perp.ts` over the engine |
| `KeeperMath`, `PerpKeeper` | `math.ts` and `strategy.ts`: the keeper's decisions on the indexer's rows |
| `PortMath`, `PerpPort` | the web perp desk: gates, orders, previews, liquidation price |
| `EpochPrice` | what a consumer is promised of the oracle (abstract) |
| `GpuOracle` | `GpuOracle.sol`; implements `EpochPrice` |
| `GUSD`, `SgUSD`, `StableRouter` | the token; the vault and the revenue ledger over it; the router over the token |
| `WalletState`, `VaultIndexer` | the indexer's balances and cost bases; its tables of the dollar and the vault, over `SgUSD` |
| `SpotMarket` | issuance, inventory, hook with its arithmetic, and router as one market |
| `HookQuote` | the web client's mirror of the hook's arithmetic, over `SpotMarket` |
| `SpotIndexer` | the indexer's spot tables over `SpotMarket` |
| `Keeper` | `main.ts`, `strategy.ts`, `execute.ts`, `state.ts`: ticks, reloads, batches, execution |
| `CandidateStream` | `stream.ts`: WebSocket with SSE fallback |
| `Attestor` | the attestor's pure rules, its cycles, crashes and tables |
| `IndexSeries` | the pricing engine's functions, and a series that feeds its rows back |
| `Session` | what the client's stores are promised of the login (abstract) |
| `WalletSession` | `privy-auth-port.ts`, `privy-bridge.tsx`, `session-store.ts`; implements `Session` |
| `ActionRunner` | `action-runner.ts`, `tx-store.ts`, `reconcile.ts` |
| `WalletStores` | `account-store.ts`, `activity-store.ts` |
| `OracleFeed`, `CandleSet` | `feed.ts`: the connection; one candle set with `fold.ts` and `tv-feed.ts` |
| `MC...` | constants and compositions for TLC |
| `AmountProofs` | lemmas about floors, ceilings and sums, for all the others |
| `PerpEngineProofs`, `PerpMirrorProofs` | theorems about the engine, its orders and reserve; indexer, keeper and desk over it |
| `OracleProofs`, `SgUSDProofs`, `SpotMarketProofs`, `AttestorProofs`, `ClientProofs` | theorems about the oracle; the dollar, the vault and their indexer; the spot market, its quotes and its indexer; the attestor; the clients |

Modules name their mutants (definitions with one plausible mistake) before the
definitions they replace; they show that each checked property can fail.

**PerpEngine.** One external call is one transaction and one action; a revert is a
disabled action. `market`, `orders`, `positions`, `activeTrigger`, `claimableOf`,
`totals`, `orderNonce` are the contract's storage of those names; a position of
size 0 is the deleted record; `gusd` holds the balances the engine moves money
between; `perpReserved`, `withdrawCap`, `withdrawn` are the vault's. `createOrder`
has three shapes (`createIncrease`, `createDecrease`, `createTrigger`);
`executeOrder` dispatches to `executeIncrease`, `executeDecrease` or, when the
position has gone, `executeDecreaseGone`. Every action accrues where the code
does, settles, moves balances, replaces the position's shares in the totals and
pushes the reservation. `Consume` is the oracle as one consumer sees it: one price
per GPU and epoch, which `GpuOracle` shows. `claim` pays a recipient of the
caller's choice; paid to the engine itself the amount stays there as `stray`, a
surplus outside every total. Amounts are unbounded integers, so a Solidity
underflow shows as a negative amount and violates `TypeOK`. Left out: events
nobody folds, read-only getters no rule reads, gas, reentrancy (`nonReentrant`),
uint128 overflow (bounded by the caps), and plain transfers of gUSD to the engine,
which would be one more surplus.

**PerpIndexer, PerpKeeper, PerpPort.** A handler is an operator from tables to
tables, named after its event and applied to the values the contract emits; a
transaction moves the tables by the composition of its events' handlers in log
order. `PerpKeeper` evaluates orders and liquidations on those rows with the
keeper's own arithmetic, and its properties compare each decision with the
engine's guard. `PerpPort` has the desk's gates, the orders they become and the
figures shown; its properties compare them with `createOrder`, the settlement
and the liquidation test. All reads of one request are of one block.

**GpuOracle.** A report with its signature is one record, so the codec is the
identity on it, as the code requires. `consumed` is the stored report per GPU,
`verified` the transient registry, which lives until the transaction ends
(`EndTransaction`); several `consume` calls may share one. `returned` is the
answer the refinement makes a promise about.

**GUSD, SgUSD, StableRouter.** `bal` is every gUSD balance, so
minted fees, distribution and the vault's assets are one book; `stray` is
reserve asset sent without a mint. The vault's conversions are OpenZeppelin's
with one virtual share and asset. In `SgUSD` the perp engine is its three calls
with arbitrary amounts. The router's pool is external: it gives some amount for
the whole input. Allowances are left out: a holder acts for itself.

**VaultIndexer, SpotIndexer.** The handlers of the dollar, vault, ledger,
issuance, inventory, router and GPU tokens, composed with the contracts.
`tables.ok` falls when a handler would throw. `WalletState` has balances and
weighted-average cost bases with the code's rounding. Append-only tapes appear
as the totals their readers sum.

**SpotMarket, HookQuote.** A swap is one step: the plan of `beforeSwap`,
the native book's share, the settlement of `afterSwap`. How far the native book
fills is a choice within what the pool manager holds; it trades at the report's
price, rounded against the taker. Callers pay before (router) or after the swap.
A swap whose ledger does not close reverts. Ticks and square-root prices are
left out.

**Keeper.** What the event loop does between two awaits is one action. A batch
fetches its report, then puts one item at a time into the promise queue; `step`
says where `execute` stands for the queue's head. Loads read the indexer's rows
in one step and replace the maps in a later one; chain, indexer, traders and
other keepers move in between. What the strategy and the engine compute at a
price is the constant `Wanted` (that they agree is `PerpKeeper`'s subject).
`CandidateStream` keeps a socket's life, the reconnect timer, `downSince`,
`sseActive` and the number of SSE loops.

**Attestor.** A tick starts a cycle; each await of a cycle is a step that
may fail or hang, in which case the time budget abandons it and it goes on
beside the next cycle. `latestCandidates` asks for one GPU after the other, so
a row inserted between two queries is seen by the later ones only. Reports and
violations are the two database tables with
the insert-once rule of `insertOracleReport`. The process may stop or crash
anywhere and boots with the posture check.

**IndexSeries.** Prices are ticks (the fourth decimal of a dollar),
fractions integers over `Percent`, ratios cross-multiplied. A computation reads
the newest priced row as its prior and stores its result; the runner that
collects offers is not in the repository, so a window is any choice of rows.

**Client modules.** Every call to Privy, a wallet, the backend, the chain or the
oracle is in flight until it answers, however late; the session, the page and the
wallet move meanwhile. In `WalletSession` Privy's own answers fail as well:
`tried` is the bridge's memory of the user it asked a wallet for, `denied`
records whose wallet call was last answered with an error. That Privy lists a
wallet once it has created it (`due`) is assumed. In `OracleFeed`, `retryTimer` is
the timeout that `stop` clears and `strays` counts those that a second failing
bootstrap has overwritten. `MCClients` puts the clients side by side: they share
no state but `Session`, so one of them (`subject`) moves in a behaviour and the
others rest.

## 3. Runs

| run | instance | what it shows |
|---|---|---|
| `perp_trading` | 1 trader on both sides, 1 market, 3 orders, 2 prices, 2 blocks, leverages 1.5 and 3, two tolerances | books balance, trigger index exact, partial closes keep debt, no gain at one's own fill price; rows mirror the engine, the keeper proposes what the engine executes, the desk's gates, preview and boundary are the engine's |
| `perp_owner` | 1 trader, 2 orders, 2 parameter sets, LP deposits and redemptions, delay, cap, pause | reservation never stale, redemptions keep it, no retroactive rate, liquidation decisions follow |
| `vault_dollar` | 2 users, 4 shares, 4 indexed transactions, 1 stablecoin | backing to the unit, honest maxima, no dilution, tables and cost bases follow the chain |
| `oracle_epochs` | 2 GPUs, 2 signers, prices 0, 4, 5, epochs of 2 or 3 s, times 3 to 6 | `consume` implements `EpochPrice` through rotation, equivocation and shortened epochs; fresh reports acceptable; registry bound |
| `keeper_liveness` | 1 order, 1 position, 2 batches, 1 fault | the book converges to the chain; executable work gets done |
| `publishing` | attestor: 2 GPUs, 2 cycles, 2 candidates, 1 fault, 1 stop, 2 s; series: 3 rows, 5 windows, 2 statistics, 2 overrides | a served report never changes, is consumable and explained, each epoch gets one; flooding is futile, the anchor and the stored rows are honest |
| `spot_market` | 1 GPU, 2 wallets, all four swap shapes, owner settings, 3 indexed transactions | books exact, tail is dust, quotes are executions, no trade at a loss, POL caps kept, tables and bases follow |
| `clients` | six clients, one moving | signer and stores are the session's, records say what happened, no forgotten stream, candles are the server's, the login implements `Session`, nothing hangs |
| `perp_debt_evaporates` | violation | section 5, 1 |
| `perp_short_average` | violation | section 5, 4 |
| `keeper_blind` | violation | section 5, 2 |
| `spot_no_capacity` | violation | section 5, 3 |

Several properties are conjunctions of named parts (`BooksBalance`,
`StoredReportsSound`, `AnchorHonest`, `RowsHonest`, `BooksExact`, `TablesFollow`,
`MarketTables`, `WalletIsSessions`, `RunnerHonest`, `NothingHangs`...);
each part is stated and explained where it is defined.

Bounds. `MaxOrders` orders and `MaxTime` seconds bound a trading behaviour: three
orders are enough for open, top-up or opposite side and close and for the
replacement of a trigger, two blocks for a window of funding and a new price.
Sizes 2 and 5 make a close partial, exact or capped; size 0 (the whole position)
is an input of `perp_owner`. `BPS`, `SCALE`, `PPM`, `CD` are small denominators,
so that fees, funding steps, average prices and swaps round in amounts of a few
units. `MaxShares` bounds the vault's supply: four shares against up to five gUSD
give prices above and below one. `MaxTxs` bounds indexed transactions: a deposit,
a transfer and a partial withdrawal, or a buy, a transfer and a sale.
`vault_dollar` and `spot_market` split the state space by `focus`: the contracts
alone without that bound, or with router or indexer. The oracle's times span two
epoch boundaries. `Batches` is the number of `executor.run` calls at one time,
`Cycles` of attestor cycles, `MaxPending` of transactions or calls in flight,
`MaxFaults` of failing calls: two interleave, and one fault meets every step.
`MaxRows` rows are a computed one, a carried one and one carried from it. Of the
attestor's two GPUs the first has the candidates without a price or with
violations, so that what the second, clean one gets is what an earlier refusal
leaves it; two seconds are an epoch and the start of the next. A candle set has
two windows, the whole chart and a shallower one. `MaxLoops` bounds the SSE loops
of successive outages, `MaxPrints` and `MaxTime` the prints and buckets of a
chart.

Deadlock. When orders, rows, issues or runs are used up, and when a client is
stopped, a behaviour may end, so `perp_trading`, `publishing`, `spot_market`,
`clients` and the violations do not check deadlock; the others do.

Fairness. None for the contracts: nothing in them acts by itself. For the
services: the event loop runs what is ready, timers fire, calls in flight end
(answer, fail or time out), transactions are mined and rows indexed (weak
fairness). A failing answer counts as an answer, so nothing assumes that a call
succeeds: in `NothingHangs` a login has the exception that Privy refused the user's
wallet, which nothing handles (section 6). Strong fairness where retrying is what
the code relies on: the keeper's `reevaluateAll` and the end of `reconcile`. A
stopped attestor is started again. The stream's constructor
does not throw for ever. The keeper's periodic reload is what `WorkGetsDone`
rests on: without its re-evaluation a candidate seen once is never tried again.

## 4. Proofs

All for every value of the constants, under the named assumptions (positive
denominators, natural amounts, finite sets of holders; for the spot market that
no budget reaches half of `MaxUint` once scaled, below). Each invariant was a
property of a run before it was proved.

**Engine.** `PerpEngineProofs` proves that

    Core == TypeOK /\ AtRestBalance /\ TotalsAreSums /\ ReservationPushed
            /\ OpenInterestIsSum /\ CheckpointsBehind /\ WellFormed

is an inductive invariant (`CoreInvariant`), and from it `TypeCorrect`,
`BooksExact` and `ReservationFresh`. No conjunct is inductive alone: that a
partial close leaves a natural collateral needs the slice to be at most the
position (`WellFormed`, for the division by the entry price), that the totals
stay natural needs them to be sums that contain the share being removed, that
open interest stays natural needs it to be the sum of sizes, that funding owed
is natural needs the checkpoints behind the cumulatives, and that a refund is
covered needs the engine's balance to contain the pending escrow. There is one
lemma per action; `AmountProofs` gives the facts about sums (changing one entry
changes the sum by the difference; a part is at most the sum) and about floors
and ceilings.

Its last part builds on `Core`. `TriggersIndexed`: the trigger index is exact;
the invariant adds that an order is indexed under a key exactly when it is
pending and of that key. `AccrualFirst`: no rate or open interest changes over a
window that was not accrued; the invariant adds that a market's last accrual is
not in the future. `ReserveProtected`: no redemption takes the vault below the
reservation.

`DebtSurvives` and `NoFreeGain` are about one settlement, for every amount, rate,
price and parameter. The first: whatever the sizes, what a partial close collects
and what its rewound checkpoints still owe cover what was owed. The three floors
of the rewind each lose less than a unit per SCALE of size, so the sum of slice
and remainder is never short by a unit while a size is at most SCALE. The second
adds up, per shape of a fill, the slices of collateral, PnL, earnings and debt
with their roundings, every one of them against the trader. Both assume
`CapsBelowScale`, that the owner's cap on a position is at most SCALE: in the code
SCALE is 10^18 units, a million million gUSD, and nothing enforces it, but
an invariant then carries it from the parameters to the positions
(`SizesCapped`). While proving the second, the averaging of a short's entry price
turned out to be a real exception (finding 4), so it is stated without it.

**Indexer, keeper and desk.** `PerpMirrorProofs` proves over `Core` that `Mirror
/\ Registered` is inductive for the indexed specification. `Mirror` says column by
column what each row is, the open interest columns that stay 0 (finding 2)
included. It is not inductive alone: `MarketCreated` inserts a row of zeros, so a
market that does not exist must have no cumulatives in the engine either, and an
order must be of a market that exists, or `FundingAccrued` would create its row
before `MarketCreated` does (`Registered`, which also has that a market's margin
is not 0, the value on which the keeper skips it). One lemma says what each
handler writes, one per transaction composes them in log order. From it:

* `RowsFollow`: the rows are the engine's storage.
* `KeeperSeesOrders`, `KeeperSeesLiquidations`: the keeper proposes on those rows
  what the engine accepts. The keeper's roundings, PnL, funding and maintenance
  equal the contract's on naturals (`KeeperRounds` to `KeeperEquity`), and where
  the rows determine the funding its accrual is the engine's (`KeeperAdvance`).
* `BoundarySafe`: the shown liquidation price errs on the trader's side. The mark
  cancels from the net debt, so equity at p is PnL at p plus the headroom plus
  the maintenance margin, and `SwingCovers` shows that a move of less than the
  swing loses at most the headroom: the floor of the swing against the ceiling
  of the loss. With a negative headroom the swing truncates toward zero, and the
  gain required beyond it still covers what is missing.
* `CloseIsQuoted`: a close pays what was quoted. Proceeds are equal by the same
  operator lemmas; for the boundary, the rewind never puts a checkpoint before
  the old one, so what is left owes at most what was quoted, and has earned
  nothing since.

**Spot market.** The inductive invariant is `BooksExact /\ CreatedFirst`: the
books alone are not inductive, since `createGpu` starts a GPU's issued total at
zero and the supply must be zero too (`CreatedFirst`). `SpotBooksExact` follows;
`SpotNeverLoses` adds up, per swap shape, what each of native book, POL and
backstop takes and gives, every rounding against the trader. `SpotTailIsDust`: the
headroom of two units is what the two ceilings of the backstop's price can take,
and what is left then buys less than one unit. `QuotesHonest`: each operator of
`hook-quote.ts` equals the hook's, on the market records of reachable states; what
a buyer is quoted covers the charge the hook recomputes from the payment
(`CapCoversCharge`); in `supplyForGrossBudget` one shrink step always lands inside
the budget (`ShrinkFits`), at the most it can supply (`SupplyMaximal`), so a sale
the client quotes is one the hook commits to. `DemandUnbounded` says that twice a
budget times `CD` is below `MaxUint`, the demand the hook passes for an exact-in
buy: the code passes 2^256 - 1, `CD` is 10^16 and a swap's amounts have 128 bits,
so that cap never binds.

**Market's indexer.** `MarketIndexed`, for any number of wallets, GPUs and
transactions: the rows are the market's and a complete cost basis is the wallet's
holding. The invariant `Mirrored` puts it over the market's `Inv`. `MarketTables`
is not inductive alone: it speaks of created GPUs, so `createGpu` needs that one not
yet created has no inventory, and every balance row, the protocol addresses'
included, must be 0 or its holder's. First a lemma per handler says which columns it
moves (`RowPut`, `Pol`, `Noted`, `Recorded`), then one per transaction composes its
logs in order (`BuyLogsRows`, `IssueLogsRows`, `SellLogsRows`) and one per swap
shape says what the trade did to the market (`Traded`); `TradeFollows` compares the
two. For the basis the amount attributed to a wallet must be the sum of its token
legs, or the wallet be marked (`BasisFollows`). Assumed of the constants:
wallets are no protocol addresses (`IndexerConstants`).

**Oracle.** `OnePricePerEpoch`: with a fixed epoch length `GpuOracle` implements
`EpochPrice`; the invariant is that every bound report is of an epoch that has
started, so a binding with the current number was made in the current epoch.
`RegistryIsBound`: the transient registry holds only bound reports; the
invariant adds that what is registered is of the current epoch.
`FreshReportsAccepted` holds with the owner changing the grid too, since both
setters keep `maxObservationAge >= epochLength`.

**Attestor.** The invariant of `AttestorProofs` follows each cycle. The tables only
grow (`Later`), so what a cycle holds, ids of rows it read and a clock reading,
stays true of whatever they became while it was abandoned (`FitsLater`). Per phase
it says that there is a candidate left, that what was signed is a report the
contract accepts at the cycle's own clock (`BuiltReport`: the window of an epoch,
the clamp, the floor, a scaled price of at least 1) and, before the report is
stored, that a flagged candidate has its ledger row (`PlainIsFound`: the codes that
need no earlier price and no source health are among those the audit found).
`StoredReportsAreSound` and `ServedReportsStay` follow. The thresholds are
arbitrary; assumed are the columns of a candidate (`TemplateColumns`) and that no
set of codes is the missing row (`NoneIsNoRow`).

**Token, ledger and vault.** The inductive invariant joins types, backing, the
fee's sink and the seed gate; `BooksTyped`, `DollarBacked`, `FeesHaveSink` and
`SeedLocked` are its parts. `NoDilution`: no step but an engine payout lowers the
worth of a share, from two inequalities about floor and ceiling
(`EnterKeepsPrice`, `LeaveKeepsPrice`). `PreviewsHonest`: what `maxWithdraw` and
`maxRedeem` show can be executed.

**Vault's indexer.** `VaultIndexed`: no handler underflows, the tables reproduce
the chain, and a complete cost basis accounts for every share and every unit its
wallet put in and took out. The invariant puts the tables' types and the signed
totals of each user (`earned`) over the contracts' invariant. The tape of mints
less burns need not be summed again: the dollar is backed, so it moves as the
reserve does (`TapeFollows`). The flow is minus the sum of `earned`, which is
signed; `Net` is the difference of two sums of naturals, and one entry's change
changes it by as much (`NetChange`). A withdrawal burns no shares only when it
takes no assets, since `previewWithdraw` rounds up, so a complete position loses
exactly the shares burned (`WithdrawnPosition`), whatever the floor in the cost
attributed to them. Assumed: no user has the zero address (`UsersNotZero`).

**Clients.** `ClientProofs` has one inductive invariant per client (`StreamInv`,
`StoresInv`, `LoginInv`, `RunnerInv`, `FeedInv`): no reconnect timer while a
socket lives; no stream and no timer in a field of the feed without a listener;
both stores bound to the session's wallet, and what is shown or waited for that
wallet's; a session connected exactly while its signer is attached; and, per phase
of a record, where its run stands and what the chain did. `StreamsNeverForgotten`,
`WalletsAreSessions` and `RunnerIsHonest` follow for any number of wallets, calls
and transactions. The first does not say that no timer survives the last listener,
since the timeouts in no field do (section 6), but that these and late answers
start no call, no resync and no further timer. `LoginImplementsSession` is the
refinement of `Session`, step by step.

Only model-checked, and why:

* `BookConverges`, `WorkGetsDone`, `EpochGetsReport`, `NothingHangs`: liveness.
* `RequestsAccepted`: it says an action is enabled.
* `FloodingIsFutile`, `AnchorHonest`, `RowsHonest`: `IndexSeries` is recursive;
  `CandlesFollowServer`: induction over the candles.
* The violations; `DedupeIsBound` and the refinement while epochs are shortened.

## 5. Findings

1. `GpuPerpEngine.sol:582`: `settle` re-snapshots the checkpoints before the
   rewind is clamped by the delta to them, so the clamp is 0 and debt beyond
   the collateral is forgiven at a top-up (`perp_debt_evaporates`).
2. `handlers/perp.ts:553`: no handler writes the open interest columns after
   inserting zeros, so the keeper predicts no funding and does not propose a
   position that accrued funding makes liquidatable (`keeper_blind`).
   `LiquidationsAgree` states the agreement where no funding accrued since the
   market's last touch.
3. `GPUHook.sol:391`: the residual of an exact-in buy ignores what the ladder can
   fill; with issuance closed and the inventory short, a caller who pays first
   gets nothing for the unfilled part (`spot_no_capacity`).
4. `GpuPerpEngine.sol:381`: a top-up averages the entry prices by gUSD size, while
   PnL divides by the entry, for which the harmonic mean is neutral. The
   arithmetic mean lies above it: a top-up revalues a long against the trader, as
   the comment at `:387` says, and a short for the trader, by an amount
   that no rounding direction makes up for (`perp_short_average`).
   `NoGainAtFillPrice` leaves out this case and the top-up of finding 1.

## 6. Other disagreements met while modelling

Each is read off the code while translating it; none has a run of its own, and
the properties are stated so that they do not claim the opposite.

Contracts:

* `GpuPerpEngine.sol:211` says the minimum collateral "applies to the RESULTING
  position"; `createOrder` checks it against the position open at creation and
  `_executeIncrease` never again, so a top-up that executes after its position
  closed leaves one below the minimum.
* `GpuPerpEngine.sol:177` bounds margin and open fee so that no full-leverage
  position opens below maintenance; each bound is separate, and parameters pass
  whose sum exceeds the collateral.
* `sgUSD.sol:30` says that beside the reserve the vault's semantics are
  unchanged; `maxRedeem` rounds twice, so an owner may be unable to redeem the
  last share although nothing is reserved.
* `GpuOracle.sol:87` compares epoch numbers only; after `setEpochLength` makes
  epochs longer an old number comes back and meets an old binding, against
  `IGpuOracle.sol:61`. The oracle's run and proofs are therefore for fixed or
  shortened epochs.
* `IGpuOracle.sol:74` says `verify` reverts unless the report is the executable
  one; `verify` does not read the epoch's binding and accepts a report that
  `consume` refuses.
* `StableRouter.sol:192`: a plain transfer of a stablecoin to the router makes
  every later swap through it revert, and nothing sweeps it; the dust assertion
  is not made on the identity paths; `setStable(underlying, false)` removes the
  path that line 46 says always exists.
* `GPUIssuance.sol:233`, `:262`: `quoteIssueCredited` is called guard-identical
  and does not look at `paused`, so while issuance is paused a buy that reaches
  the backstop reverts instead of degrading.
* `GPUHook.sol:395`: a caller who pays later with a shortfall inside the dust band
  is committed for more than the manager holds and the swap reverts, against
  "degrade, never revert". A caller's price limit tighter than the edge still
  lets the POL fill beyond it, so the router's partial-fill refund never happens;
  `polPaused` does not stop the POL, it sells with zero spread; the
  `currencyDelta` cap of `_settleSellOut` reads 0; with an effective ask spread
  below the POL fee the vault nets less than the report's price.
* `GpuQuoter` recomputes the hook fee of an exact-out sale in another order than
  the hook does.

Keeper, attestor, pricing:

* `execute.ts:283`: after a receipt time-out the queue is released with the
  transaction pending and the item is sent again; `execute.ts:4` says the keeper
  "never pays gas to fail". `execute.ts:2` says each work item gets a fresh
  attestation; `run` fetches one per batch.
* `stream.ts:101`: a reconnect clears `sseActive` but nothing ends the SSE loop,
  so every outage adds one loop and one copy of every tick; `stream.ts:5` says the
  WebSocket preempts the fallback. A constructor that throws for ever never sets
  `downSince`, and the fallback never starts.
* `main.ts:67` reads `minOrderDelay` once at boot; `OrdersAgree` is stated for the
  delay in force.
* `poller.ts:224`, `:319`: the jump audit compares the stored, scaled price with
  dollars, so every report after a GPU's first is flagged
  (`docs/oracle/ARCHITECTURE.md:178`). The violation ledger keeps one row per
  candidate, not one per report (`poller.ts:31`). A report signed at the
  observation floor goes stale within its epoch and is not attested again; a
  posture that drifts after boot goes unnoticed.
* `engine.ts:214`: a withheld row keeps the figure that failed its gates, and
  `getLatestPricedCandidate` takes it as the next prior, so it may be republished
  as stale, against `engine.ts:200` and `repos.ts:609`; `RowsHonest` says that a
  carried figure is its prior's, not that the prior passed. Withheld figures
  include the movement offset. "An override may only ever relax the gates" is not
  enforced.

Indexer:

* `liquidity.ts:9`: `notePrincipal` adds to the bid inventory and emits only
  `PrincipalNoted`, which is not fetched, so `polGusd` is the inventory less the
  principal and may be negative, though the header calls it the executable sell
  depth. `MarketTables` states the sum.
* `cost-basis.ts:66` says balance and basis agree in a complete state; they do not
  for units sent to protocol contracts, direct pool swaps, and a sale recorded
  for its recipient. `hookFeesGusd` counts in-swap issuance fees twice with
  `issuanceFeesGusd` and omits the hook fee; fully covered swaps do not count in
  the hourly total. `perp.ts:221` says `PositionLiquidated` carries the realized
  PnL; it does not.

Web client:

* `onchain-perp-port.ts:385`: the open quote's liquidation price uses the
  collateral before the open fee, though the comment says it can only understate
  the distance; `:423` claims an exact close preview and reads cumulatives of the
  market's last touch, so a close in a later block may pay less (`CloseQuoteExact`
  is stated for a market touched in the block); the open gates compare
  `maxPositionUsd` with the added size only.
* `hook-quote.ts` accepts a one-unit exact-out buy with issuance closed, which the
  hook refuses.
* `action-runner.ts:158`: the quote's age is not checked again after the
  approvals; a run that outlives its session may ask the next wallet to sign;
  `reconcile.ts:93` reports fresh balances when it joined an older refresh.
* `account-store.ts:97`: a wallet bound during another's refresh skips its first
  one (the poll repairs it, `BalancesLoad`); `activity-store.ts:120`: a page that
  answers after a switch is merged into the new wallet's rows.
* `privy-bridge.tsx:288`, `:332`: a late provider or restore revives an ended
  session; a late identity sync, chain id or account request lands on the next
  one.
* `privy-bridge.tsx:274`: `createWallet` is asked for once per user and its
  failure is swallowed; `:275` says that the wallet comes all the same. A rejected
  `getEthereumProvider` (`:288`) has no catch. After either the session stays
  connecting until the page is loaded again or the user ends it: the exception of
  `ConnectingResolves`.
* `feed.ts:291`: a second failing bootstrap overwrites the retry timeout of the
  first, and `stop` (`:252`) clears the newest only; a page that mounts, unmounts
  and mounts again leaves a timeout that outlives its last listener (`strays`). It
  starts nothing then (`NoForgottenStream`); with a listener back in time it starts
  a second bootstrap.
* `feed.ts:552`: the floors of two answers are compared the wrong way round, against
  `:533`: a shallower answer replaces a deeper set, and a deeper one is merged
  under the shallower floor.
* `feed.ts:414`: a late failing poll labels a live feed down; `:484`:
  an older candidate of a late answer replaces a newer one; a failing poll does not
  retry the bootstrap. Buckets below a set's floor refuse the server's prints.

## 7. Not modelled

* Generated and declarative code: the ABI files (about ten thousand lines), types,
  catalog data, schemas, build and deployment scripts. Of the deployment only its
  outcome appears, as the `Init` of the modules.
* The React interface (about fourteen thousand lines): rendering, formatting and
  read caches without protocol state. Together with the generated code this is
  about half of the repository's implementation lines, so the share of lines the
  models stand for stays far below the share of behaviour.
* SQL: the repositories' queries, but for the uniqueness rule and the newest-row
  rule, which `Attestor` and `IndexSeries` have.
* `PoolWalk` and ticks, the pool manager's own arithmetic, ECDSA and ABI encoding;
  `GpuQuoter`; the trading, mint and earn ports of the web client, whose gates
  repeat the contracts' previews; the indexer's pool, bucket, oracle and user
  event handlers, which only append; the keeper's boot, clock drift and balance
  alerts; the cap of 30 records in the transaction store.

## 8. Plan

Next: the indexer's re-application of blocks after a reorganisation; the trading
port's flow from quote to calldata over `SpotMarket`.
