---------------------------- MODULE WalletState -----------------------------
(***************************************************************************)
(* The indexer's per-wallet projections: balances.ts, cost-basis.ts and     *)
(* wallet-state.ts.  A token's rows are a function from addresses to        *)
(* balances; a basis is a weighted average cost.  The counters of calls and *)
(* the timestamps, which nothing reads back, are left out.                  *)
(***************************************************************************)
EXTENDS Amounts

Zero == "0x0"     \* the zero address: mints come from it, burns go to it

(* balanceChanges and applyBalanceDelta: the debit first; a balance below   *)
(* zero stops the indexer.                                                  *)
transferred(rows, from, to, value) ==
  LET debited == IF from = Zero THEN rows ELSE [rows EXCEPT ![from] = @ - value]
  IN  IF to = Zero THEN debited ELSE [debited EXCEPT ![to] = @ + value]

underflows(rows, from, value) == from # Zero /\ rows[from] < value

-----------------------------------------------------------------------------
(* BasisSnapshot of a GPU and VaultSnapshot of the shares: units and what   *)
(* they cost.                                                               *)
emptyBasis == [qty |-> 0, cost |-> 0, realized |-> 0, complete |-> TRUE]

(* Mutant: a disposal that keeps the cost of the units it took.             *)
realizeKeepsCost(b, qty, proceeds) ==
  LET take == Lesser(qty, b.qty)
  IN  [b EXCEPT !.qty = @ - take,
                !.realized = @ + proceeds - MulDivFloor(b.cost, take, b.qty)]

acquireBasis(b, qty, cost) == [b EXCEPT !.qty = @ + qty, !.cost = @ + cost]

realize(b, qty, proceeds) ==
  LET take == Lesser(qty, b.qty)
      attributed == MulDivFloor(b.cost, take, b.qty)
  IN  [b EXCEPT !.qty = @ - take, !.cost = @ - attributed,
                !.realized = @ + proceeds - attributed]

(* A GPU disposal without a full record moves nothing.                      *)
disposeBasis(b, qty, proceeds) ==
  IF ~b.complete \/ b.qty = 0 THEN b ELSE realize(b, qty, proceeds)

(* A withdrawal without one still burns the shares it can.                  *)
withdrawVault(b, assetsOut, sharesBurned) ==
  IF ~b.complete \/ b.qty = 0
  THEN [b EXCEPT !.qty = PosPart(@ - sharesBurned)]
  ELSE realize(b, sharesBurned, assetsOut)

depositVault(b, assets, shares) == acquireBasis(b, shares, assets)

demoteBasis(b) == [b EXCEPT !.complete = FALSE]
=============================================================================
