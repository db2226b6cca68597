---------------------------- MODULE VaultIndexer ----------------------------
(***************************************************************************)
(* The indexer's tables of the dollar and the vault (handlers/gusd.ts,      *)
(* sgusd.ts, ledger.ts, with stats.ts and wallet-state.ts), composed with   *)
(* the contracts whose events fill them.  Handlers run one after the other  *)
(* in log order, so a transaction moves the tables by the composition of    *)
(* its events' handlers.  The append-only rows appear as the totals their   *)
(* readers sum; pairs of running totals that only grow appear as their      *)
(* difference.                                                              *)
(***************************************************************************)
EXTENDS SgUSD, WalletState

CONSTANTS MaxTxs  \* bound on the indexed transactions

(* No user has the zero address.                                            *)
ASSUME UsersNotZero == Zero \notin Users

VARIABLES
  tables,
  given,          \* shares each user has sent to the vault's own address
  earned,         \* what each user took out of the vault less what it put in
  txs

indexVars == <<tables, given, earned, txs>>

Null == -1
Sharers == Users \cup {"vault"}

EmptyTables ==
  [ok |-> TRUE,                            \* no handler has thrown
   gusd |-> bal, sgusd |-> shares,         \* wallet_balances of both tokens
   positions |-> [h \in Sharers |-> emptyBasis],
   vaultRow |-> [seededGusd |-> 0, flowGusd |-> 0, shares |-> 0, revenueGusd |-> 0],
   tape |-> SumOf(bal),                    \* gUSD minted less gUSD burned, fees included
   mirror |-> [mintFeeBps |-> Null, redeemFeeBps |-> Null, sgusdSplitBps |-> Null],
   recipients |-> <<None, None>>]

-----------------------------------------------------------------------------
(* wallet-state.ts                                                          *)
recordVaultDeposit(d, wallet, assets, s) ==
  [d EXCEPT !.positions[wallet] = depositVault(@, assets, s)]

recordVaultWithdraw(d, wallet, assets, s) ==
  [d EXCEPT !.positions[wallet] = withdrawVault(@, assets, s)]

demoteVaultPosition(d, wallet) == [d EXCEPT !.positions[wallet] = demoteBasis(@)]

-----------------------------------------------------------------------------
(* Handlers: from tables to tables, named after their events.               *)
GusdTransfer(d, from, to, value) ==
  [d EXCEPT !.ok = @ /\ ~underflows(d.gusd, from, value),
            !.gusd = transferred(@, from, to, value)]

isWalletMove(from, to) == {from, to} \subseteq Users

SgusdTransfer(d, from, to, value) ==
  LET moved1 == [d EXCEPT !.ok = @ /\ ~underflows(d.sgusd, from, value),
                          !.sgusd = transferred(@, from, to, value)]
  IN  IF isWalletMove(from, to)
      THEN demoteVaultPosition(demoteVaultPosition(moved1, from), to)
      ELSE moved1

Minted(d, gusdOut, fee) == [d EXCEPT !.tape = @ + gusdOut + fee]

Redeemed(d, gusdIn, fee) == [d EXCEPT !.tape = @ - gusdIn + fee]

FeesUpdated(d, m, r) == [d EXCEPT !.mirror.mintFeeBps = m, !.mirror.redeemFeeBps = r]

SplitUpdated(d, bps) == [d EXCEPT !.mirror.sgusdSplitBps = bps]

RecipientsUpdated(d, v, t) == [d EXCEPT !.recipients = <<v, t>>]

Distributed(d, toVault) == [d EXCEPT !.vaultRow.revenueGusd = @ + toVault]

(* The seed's Deposit counts its shares, not its assets.                    *)
Deposit(d, owner, assets, s) ==
  [recordVaultDeposit(d, owner, assets, s) EXCEPT
     !.vaultRow.flowGusd = @ + (IF owner = "vault" THEN 0 ELSE assets),
     !.vaultRow.shares = @ + s]

Withdraw(d, owner, assets, s) ==
  [recordVaultWithdraw(d, owner, assets, s) EXCEPT !.vaultRow.flowGusd = @ - assets,
                                                   !.vaultRow.shares = @ - s]

Seeded(d, assets) == [d EXCEPT !.vaultRow.seededGusd = @ + assets]

-----------------------------------------------------------------------------
(* What each transaction logs.                                              *)
feeTransfer(d, fee) == IF fee > 0 THEN GusdTransfer(d, Zero, revenueSink, fee) ELSE d

indexed(d) == tables' = d /\ txs < MaxTxs /\ txs' = txs + 1

quiet == UNCHANGED <<given, earned>>

(* Setting a recipient does not count towards the bound.                    *)
mirrored(d) == tables' = d /\ UNCHANGED <<given, earned, txs>>

IndexedMint(u, x) ==
  LET fee == MulDivCeil(x, mintFeeBps, BPS)
  IN  /\ mint(u, x)
      /\ indexed(Minted(feeTransfer(GusdTransfer(tables, Zero, u, x - fee), fee), x - fee, fee))
      /\ quiet

IndexedRedeem(u, x) ==
  LET fee == MulDivCeil(x, redeemFeeBps, BPS)
  IN  /\ redeem(u, x)
      /\ indexed(Redeemed(feeTransfer(GusdTransfer(tables, u, Zero, x), fee), x, fee))
      /\ quiet

IndexedDistribute ==
  LET toVault == toVaultShare(bal["ledger"])
      toTreasury == bal["ledger"] - toVault
  IN  /\ distribute
      /\ indexed(Distributed(
           GusdTransfer(GusdTransfer(tables, "ledger", vault, toVault), "ledger", treasury, toTreasury),
           toVault))
      /\ quiet

GusdEvents ==
  \/ \E m, r \in Fees : setFees(m, r) /\ indexed(FeesUpdated(tables, m, r)) /\ quiet
  \/ \E u \in Users, x \in Amounts :
       \/ IndexedMint(u, x)
       \/ IndexedRedeem(u, x)
       \/ \E h \in {"ledger", "vault"} :
            transfer(u, h, x) /\ indexed(GusdTransfer(tables, u, h, x)) /\ quiet
  \/ (setRevenueSink("ledger") \/ \E x \in Amounts : transferReserve(x)) /\ UNCHANGED indexVars

LedgerEvents ==
  \/ setVault /\ mirrored(RecipientsUpdated(tables, vault', treasury))
  \/ setTreasury /\ mirrored(RecipientsUpdated(tables, vault, treasury'))
  \/ \E b \in Splits : setSplit(b) /\ indexed(SplitUpdated(tables, b)) /\ quiet
  \/ IndexedDistribute

(* _deposit pays, mints and logs; _withdraw burns, pays and logs.           *)
entered(u, holder, assets, s) ==
  Deposit(SgusdTransfer(GusdTransfer(tables, u, "vault", assets), Zero, holder, s),
          holder, assets, s)

left(u, assets, s) ==
  Withdraw(GusdTransfer(SgusdTransfer(tables, u, Zero, s), "vault", u, assets), u, assets, s)

paidOut == bal["vault"] - bal'["vault"]

earns(u, x) == earned' = [earned EXCEPT ![u] = @ + x] /\ UNCHANGED given

StakerEvents ==
  \E u \in Users, x \in Amounts :
    \/ seed(u, x) /\ indexed(Seeded(entered(u, "vault", x, x), x)) /\ quiet
    \/ deposit(u, x) /\ indexed(entered(u, u, x, sharesDown(x))) /\ earns(u, -x)
    \/ mintShares(u, x) /\ indexed(entered(u, u, assetsUp(x), x)) /\ earns(u, -assetsUp(x))
    \/ withdraw(u, x) /\ indexed(left(u, x, sharesUp(x))) /\ earns(u, x)
    \/ redeemShares(u, x) /\ indexed(left(u, paidOut, x)) /\ earns(u, paidOut)
    \/ \E to \in Sharers \ {u} :
         /\ transferShares(u, to, x)
         /\ indexed(SgusdTransfer(tables, u, to, x))
         /\ given' = IF to = "vault" THEN [given EXCEPT ![u] = @ + x] ELSE given
         /\ UNCHANGED earned

EngineEvents ==
  \/ (setPerpEngine \/ \E c \in Caps : setEngineMaxWithdrawPerBlock(c)) /\ UNCHANGED indexVars
  \/ \E u \in Users, x \in Amounts :
       /\ perpWithdraw(u, x)
       /\ indexed(GusdTransfer(tables, "vault", u, paidOut))
       /\ quiet

IndexedInit ==
  /\ Init
  /\ tables = EmptyTables
  /\ given = [u \in Users |-> 0] /\ earned = [u \in Users |-> 0]
  /\ txs = 0

IndexedNext ==
  \/ GusdEvents /\ UNCHANGED <<ledgerVars, vaultVars>>
  \/ LedgerEvents /\ UNCHANGED vaultVars
  \/ StakerEvents
  \/ EngineEvents

-----------------------------------------------------------------------------
(* Properties                                                               *)

(* What all users took out less what they all put in.                       *)
Net(f) ==
  SumOf([u \in DOMAIN f |-> PosPart(f[u])]) - SumOf([u \in DOMAIN f |-> PosPart(-f[u])])

(* wallet-state.ts, gusd.ts, sgusd.ts, ledger.ts: no handler underflows,    *)
(* and the tables reproduce the chain they were built from event by event:  *)
(* both tokens' balances, the supplies, the seed and the revenue counted    *)
(* once, and the settings that were ever set.                               *)
TablesFollowChain ==
  /\ tables.ok
  /\ tables.gusd = bal /\ tables.sgusd = shares
  /\ tables.tape = SumOf(bal)
  /\ tables.vaultRow.shares = shareSupply
  /\ tables.vaultRow.revenueGusd = totalToVault
  /\ tables.vaultRow.flowGusd = -Net(earned)
  /\ tables.vaultRow.seededGusd > 0 <=> seeded
  /\ tables.mirror.mintFeeBps \in {Null, mintFeeBps}
  /\ tables.mirror.redeemFeeBps \in {Null, redeemFeeBps}
  /\ tables.mirror.sgusdSplitBps \in {Null, sgUSDBps}
  /\ tables.recipients = <<vault, treasury>>

(* cost-basis.ts: while a wallet's record is complete it accounts for all   *)
(* of the wallet's shares, but for those sent to the vault itself, and for  *)
(* every unit the wallet put in and took out: profit is what came out and   *)
(* what the rest cost, less what went in, whatever was rounded on the way.  *)
CompleteBasisAccounts ==
  \A u \in Users :
    LET p == tables.positions[u]
    IN  p.complete => /\ p.qty = shares[u] + given[u]
                      /\ p.realized = earned[u] + p.cost
=============================================================================
