---------------------------- MODULE SpotIndexer -----------------------------
(***************************************************************************)
(* The indexer's tables of the spot market (handlers/issuance.ts,           *)
(* liquidity.ts, router.ts, gpu-token.ts, hook.ts), composed with the       *)
(* contracts whose events fill them.  SpotMarket's traders are split into   *)
(* wallets.  Handlers run in log order, so a transaction moves the tables   *)
(* by the composition of its events' handlers; the amounts of its events    *)
(* are those it moved.  The append-only tapes, the volumes, the buckets and *)
(* the counters of trades are left out.                                     *)
(***************************************************************************)
EXTENDS SpotMarket, WalletState

CONSTANTS
  Wallets,
  MaxTxs          \* bound on the transactions after the pool's registration

(* A wallet is none of the system's own addresses.                          *)
ASSUME IndexerConstants == Wallets \cap {Zero, "manager", "vault", "hook", "router"} = {}

VARIABLES
  tables,
  held,           \* GPU of each wallet; the traders' in all
  offBook,        \* wallets a trade or transfer of which no handler attributes
  txs

indexVars == <<tables, held, offBook, txs>>

Null == -1
Addresses == Wallets \cup {"manager", "vault", "hook", "router"}

EmptyTables ==
  [ok |-> TRUE,                     \* no handler has thrown
   hookFeeBps |-> Null,             \* protocol_stats
   assets |-> [g \in {} |-> {}],    \* gpu_assets
   gpu |-> [g \in GpuIds |-> [a \in Addresses |-> 0]],            \* wallet_balances
   basis |-> [g \in GpuIds |-> [w \in Wallets |-> emptyBasis]]]   \* wallet_cost_basis

NewAsset(fee) ==
  [issuanceFeeBps |-> fee, issuanceEnabled |-> FALSE, canonicalPool |-> FALSE,
   issuedGpu |-> 0, principalContributedGusd |-> 0, polGusd |-> 0, polGpu |-> 0]

(* A handler throws when the row of its GPU is missing.                     *)
requireAsset(d, g) == d.ok /\ g \in DOMAIN d.assets

-----------------------------------------------------------------------------
(* Mutant: the issuance leg of a routed buy acquired a second time.         *)
acquiresAlways(caller) == caller # "hook"

-----------------------------------------------------------------------------
(* wallet-state.ts                                                          *)
recordGpuAcquisition(d, g, wallet, qty, cost) ==
  [d EXCEPT !.basis[g][wallet] = acquireBasis(@, qty, cost)]

recordGpuDisposal(d, g, wallet, qty, proceeds) ==
  [d EXCEPT !.basis[g][wallet] = disposeBasis(@, qty, proceeds)]

demoteGpuBasis(d, g, wallet) == [d EXCEPT !.basis[g][wallet] = demoteBasis(@)]

-----------------------------------------------------------------------------
(* Handlers: from tables to tables, named after their events.               *)
GpuCreated(d, g, fee) ==
  [d EXCEPT !.assets = [x \in DOMAIN @ \cup {g} |-> IF x = g THEN NewAsset(fee) ELSE @[x]]]

(* The router's leg and the hook's backstop are acquired by Buy instead.    *)
acquires(caller) == caller \notin {"router", "hook"}

countIssued(d, g, caller, amount) == [d EXCEPT !.assets[g].issuedGpu = @ + amount]

Issued(d, g, caller, to, amount, base, fee) ==
  LET counted == countIssued(d, g, caller, amount)
      noted == [counted EXCEPT !.ok = requireAsset(d, g),
                               !.assets[g].principalContributedGusd = @ + base]
  IN  IF acquires(caller) THEN recordGpuAcquisition(noted, g, to, amount, base + fee) ELSE noted

IssuanceEnabledSet(d, g, enabled) ==
  [d EXCEPT !.ok = requireAsset(d, g), !.assets[g].issuanceEnabled = enabled]

IssuanceFeeSet(d, g, fee) ==
  [d EXCEPT !.ok = requireAsset(d, g), !.assets[g].issuanceFeeBps = fee]

PoolRegistered(d, g) ==
  [d EXCEPT !.ok = requireAsset(d, g), !.assets[g].canonicalPool = TRUE]

HookFeeBpsSet(d, fee) == [d EXCEPT !.hookFeeBps = fee]

BidCredited(d, g, amount) ==
  [d EXCEPT !.ok = requireAsset(d, g), !.assets[g].polGusd = @ + amount]

GpuNoted(d, g, amount) ==
  [d EXCEPT !.ok = requireAsset(d, g), !.assets[g].polGpu = @ + amount]

InventoryPulled(d, g, amount, isGusd) ==
  IF isGusd
  THEN [d EXCEPT !.ok = requireAsset(d, g), !.assets[g].polGusd = @ - amount]
  ELSE [d EXCEPT !.ok = requireAsset(d, g), !.assets[g].polGpu = @ - amount]

(* A move from wallet to wallet demotes both bases.                         *)
Transfer(d, g, from, to, value) ==
  LET moved == [d EXCEPT !.ok = @ /\ ~underflows(d.gpu[g], from, value),
                         !.gpu[g] = transferred(@, from, to, value)]
  IN  IF {from, to} \subseteq Wallets
      THEN demoteGpuBasis(demoteGpuBasis(moved, g, from), g, to)
      ELSE moved

Buy(d, g, recipient, gpuOut, cost) ==
  [recordGpuAcquisition(d, g, recipient, gpuOut, cost) EXCEPT !.ok = requireAsset(d, g)]

Sell(d, g, recipient, gpuIn, out) ==
  [recordGpuDisposal(d, g, recipient, gpuIn, out) EXCEPT !.ok = requireAsset(d, g)]

-----------------------------------------------------------------------------
(* What a transaction moved, and so what it logged.                         *)
bought(g) == gpu'[g]["traders"] - gpu[g]["traders"]
paid == gusd["traders"] - gusd'["traders"]

when(happens, d, e) == IF happens THEN e ELSE d

(* _settleBuyIn, _settleBuyOut: the inventory's leg, the backstop's and the *)
(* credit of the vault; then the manager pays the recipient out.            *)
BuyLogs(d, g, w) ==
  LET polGpu == askInventoryGpu[g] - askInventoryGpu'[g]
      issueGpu == gpus'[g].totalIssued - gpus[g].totalIssued
      q == quoteIssue(market(g), issueGpu)
      credit == bidInventoryGusd'[g] - bidInventoryGusd[g] - q.base
      pulledLeg == when(polGpu > 0, d,
        InventoryPulled(Transfer(d, g, "vault", "manager", polGpu), g, polGpu, FALSE))
      issuedLeg == when(issueGpu > 0, pulledLeg,
        Transfer(Issued(Transfer(pulledLeg, g, Zero, "hook", issueGpu),
                        g, "hook", "hook", issueGpu, q.base, q.fee),
                 g, "hook", "manager", issueGpu))
      credited == when(credit > 0, issuedLeg, BidCredited(issuedLeg, g, credit))
  IN  Transfer(credited, g, "manager", w, bought(g))

(* The primary sale, by a wallet or by the router for a recipient.          *)
IssueLogs(d, g, caller, w) ==
  LET amount == bought(g)
      q == quoteIssue(market(g), amount)
  IN  Issued(Transfer(d, g, Zero, w, amount), g, caller, w, amount, q.base, q.fee)

(* _settleSellIn, _settleSellOut.  The router pays the manager before the   *)
(* swap, other callers after it.                                            *)
SellLogs(d, g, w, routed) ==
  LET gpuIn == -bought(g)
      noted == askInventoryGpu'[g] - askInventoryGpu[g]
      bidOut == bidInventoryGusd[g] - bidInventoryGusd'[g]
      first == when(routed, d,
        Transfer(Transfer(d, g, w, "router", gpuIn), g, "router", "manager", gpuIn))
      filled == when(noted > 0, first,
        GpuNoted(Transfer(first, g, "manager", "vault", noted), g, noted))
      funded == when(bidOut > 0, filled, InventoryPulled(filled, g, bidOut, TRUE))
  IN  when(~routed, funded, Transfer(funded, g, w, "manager", gpuIn))

-----------------------------------------------------------------------------
logged(d) == tables' = d /\ txs < MaxTxs /\ txs' = txs + 1

owns(g, w) ==
  /\ held' = [held EXCEPT ![g][w] = @ + bought(g)]
  /\ held'[g][w] >= 0

attributed == UNCHANGED offBook
unattributed(g, ws) == offBook' = [offBook EXCEPT ![g] = @ \cup ws]

setUp(d) == tables' = d /\ UNCHANGED <<held, offBook, txs>>

IndexedOwnerStep ==
  \/ \E g \in GpuIds, fee \in FeeChoices :
       \/ createGpu(g, fee) /\ setUp(GpuCreated(tables, g, fee))
       \/ setIssuanceFee(g, fee) /\ setUp(IssuanceFeeSet(tables, g, fee))
  \/ \E g \in GpuIds, b \in BOOLEAN :
       setIssuanceEnabled(g, b) /\ setUp(IssuanceEnabledSet(tables, g, b))
  \/ \E g \in GpuIds : afterInitialize(g) /\ setUp(PoolRegistered(tables, g))
  \/ \E fee \in FeeChoices : setHookFeeBps(fee) /\ setUp(HookFeeBpsSet(tables, fee))

IndexedBuy(g, w, x, y, lps) ==
  \/ /\ \E fill \in 0..x : swapBuyIn(g, x, TRUE, fill, fill, lps)
     /\ logged(Buy(BuyLogs(tables, g, w), g, w, bought(g), paid))
     /\ attributed
  \/ /\ \E fill \in 0..y : buy(g, y, x, fill, lps)
     /\ logged(Buy(IF g \in pools THEN BuyLogs(tables, g, w)
                                  ELSE IssueLogs(tables, g, "router", w),
                   g, w, bought(g), paid))
     /\ attributed
  \/ /\ \/ \E fill \in 0..x : swapBuyIn(g, x, FALSE, fill, fill, lps)
        \/ \E fill \in 0..y : swapBuyOut(g, y, 0, fill, lps)
     /\ logged(BuyLogs(tables, g, w))
     /\ unattributed(g, {w})

(* The router logs a sale under its recipient.                              *)
IndexedSell(g, w, x, y, lps) ==
  \/ \E recipient \in Wallets, fill \in 0..y :
       /\ swapSellIn(g, y, TRUE, fill, fill, lps)
       /\ logged(Sell(SellLogs(tables, g, w, TRUE), g, recipient, y, -paid))
       /\ IF recipient = w THEN attributed ELSE unattributed(g, {w, recipient})
  \/ /\ \/ \E fill \in 0..y : swapSellIn(g, y, FALSE, fill, fill, lps)
        \/ \E fill \in 0..x : swapSellOut(g, x, 0, fill, lps)
     /\ logged(SellLogs(tables, g, w, FALSE))
     /\ unattributed(g, {w})

IndexedTrade ==
  \E g \in GpuIds, w \in Wallets :
    /\ \/ \E x \in GusdAmounts, y \in GpuAmounts, lps \in BOOLEAN :
            IndexedBuy(g, w, x, y, lps) \/ IndexedSell(g, w, x, y, lps)
       \/ \E y \in GpuAmounts : issue(g, y) /\ logged(IssueLogs(tables, g, w, w)) /\ attributed
    /\ owns(g, w)

(* Liquidity moves between a wallet and the manager; GPU between wallets.   *)
IndexedMove ==
  \/ \E g \in GpuIds, w \in Wallets, lp \in LpAmounts, in \in BOOLEAN :
       /\ modifyLiquidity(g, in, lp[1], lp[2])
       /\ logged(IF in THEN Transfer(tables, g, w, "manager", lp[2])
                       ELSE Transfer(tables, g, "manager", w, lp[2]))
       /\ unattributed(g, {w})
       /\ owns(g, w)
  \/ \E g \in GpuIds, w, to \in Wallets, y \in GpuAmounts :
       /\ w # to /\ y <= held[g][w]
       /\ logged(Transfer(tables, g, w, to, y))
       /\ held' = [held EXCEPT ![g][w] = @ - y, ![g][to] = @ + y]
       /\ UNCHANGED <<vars, offBook>>

IndexedInit ==
  /\ Init
  /\ tables = EmptyTables
  /\ held = [g \in GpuIds |-> [w \in Wallets |-> 0]]
  /\ offBook = [g \in GpuIds |-> {}]
  /\ txs = 0

IndexedNext == IndexedOwnerStep \/ IndexedTrade \/ IndexedMove

-----------------------------------------------------------------------------
(* Properties                                                               *)

(* issuance.ts, liquidity.ts, gpu-token.ts: no handler throws, and the      *)
(* tables reproduce the market they were built from event by event: what    *)
(* was issued, the inventories (the bid's with the principal beside it),    *)
(* the settings and every balance, through every composition of a swap.     *)
MarketRowsFollow ==
  /\ tables.ok
  /\ DOMAIN tables.assets = Created
  /\ tables.hookFeeBps \in {Null, hookFeeBps}
  /\ \A g \in Created :
       LET row == tables.assets[g]
       IN  /\ row.issuedGpu = gpus[g].totalIssued
           /\ row.issuanceEnabled = gpus[g].enabled /\ row.issuanceFeeBps = gpus[g].feeBps
           /\ row.canonicalPool <=> g \in pools
           /\ row.polGpu = askInventoryGpu[g]
           /\ row.polGusd + row.principalContributedGusd = bidInventoryGusd[g]
           /\ \A a \in Addresses :
                tables.gpu[g][a] = CASE a \in Wallets -> held[g][a]
                                     [] a \in {"manager", "vault"} -> gpu[g][a]
                                     [] OTHER -> 0

(* wallet-state.ts, router.ts: a complete cost basis holds as many units as *)
(* the wallet, each acquired once, whether it was issued directly, through  *)
(* the router or inside a swap; unless its GPU moved where no handler looks *)
(* (a swap past the router, liquidity, a sale for another recipient).       *)
BasisIsHolding ==
  \A g \in GpuIds, w \in Wallets :
    tables.basis[g][w].complete /\ w \notin offBook[g]
      => tables.basis[g][w].qty = held[g][w]
=============================================================================
