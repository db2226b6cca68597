-------------------------------- MODULE GUSD --------------------------------
(***************************************************************************)
(* GUSD.sol: a dollar token minted 1:1 against a reserve asset, less a fee  *)
(* that is minted to the revenue sink.  Allowances and permits are left     *)
(* out: a holder acts for itself.  Reserve asset in users' hands is one     *)
(* pool.                                                                    *)
(***************************************************************************)
EXTENDS Amounts

CONSTANTS
  Users,
  BPS,            \* 10_000
  MaxFeeBps,      \* MAX_FEE_BPS
  Fees,           \* fee values the owner may submit
  Amounts,        \* amounts of one call
  InitialBalance, \* gUSD each user has minted before the model starts
  InitialOutside  \* reserve asset outside the protocol

ASSUME GusdConstants ==
  /\ IsFiniteSet(Users) /\ Users # {}
  /\ Users \cap {"ledger", "vault", "treasury", "none"} = {}
  /\ BPS \in Nat \ {0}
  /\ MaxFeeBps \in 0..(BPS - 1)
  /\ Fees \subseteq Nat
  /\ Amounts \subseteq Nat
  /\ {InitialBalance, InitialOutside} \subseteq Nat

VARIABLES
  bal,            \* gUSD balances
  reserve,        \* reserve asset held by the token contract
  stray,          \* of it, sent there without a mint
  outside,
  mintFeeBps, redeemFeeBps,
  revenueSink,
  paused

gusdVars == <<bal, reserve, stray, outside, mintFeeBps, redeemFeeBps, revenueSink, paused>>

None == "none"
Holders == Users \cup {"ledger", "vault", "treasury"}

-----------------------------------------------------------------------------
(* Mutants                                                                 *)

(* A fee minted on top of the full amount.                                 *)
grossOut(amount, fee) == amount

-----------------------------------------------------------------------------
credit(b, h, x) == [b EXCEPT ![h] = @ + x]
debit(b, h, x) == [b EXCEPT ![h] = @ - x]
moved(b, from, to, x) == credit(debit(b, from, x), to, x)

(* The fee goes to the sink; minting one to the zero address reverts.      *)
paidFee(b, fee) == IF fee > 0 THEN credit(b, revenueSink, fee) ELSE b

netOut(amount, fee) == amount - fee

setFees(m, r) ==
  /\ {m, r} \subseteq 0..MaxFeeBps
  /\ {m, r} # {0} => revenueSink # None
  /\ mintFeeBps' = m
  /\ redeemFeeBps' = r
  /\ UNCHANGED <<bal, reserve, stray, outside, revenueSink, paused>>

setRevenueSink(sink) ==
  /\ revenueSink' = sink
  /\ UNCHANGED <<bal, reserve, stray, outside, mintFeeBps, redeemFeeBps, paused>>

setPaused(p) ==
  /\ paused # p
  /\ paused' = p
  /\ UNCHANGED <<bal, reserve, stray, outside, mintFeeBps, redeemFeeBps, revenueSink>>

mint(to, amount) ==
  LET fee == MulDivCeil(amount, mintFeeBps, BPS)
      gusdOut == netOut(amount, fee)
  IN  /\ ~paused
      /\ amount # 0 /\ amount <= outside
      /\ gusdOut # 0
      /\ outside' = outside - amount
      /\ reserve' = reserve + amount
      /\ bal' = paidFee(credit(bal, to, gusdOut), fee)
      /\ UNCHANGED <<stray, mintFeeBps, redeemFeeBps, revenueSink, paused>>

redeem(from, amount) ==
  LET fee == MulDivCeil(amount, redeemFeeBps, BPS)
      underlyingOut == netOut(amount, fee)
  IN  /\ ~paused
      /\ amount # 0 /\ amount <= bal[from]
      /\ underlyingOut # 0
      /\ bal' = paidFee(debit(bal, from, amount), fee)
      /\ reserve' = reserve - underlyingOut
      /\ outside' = outside + underlyingOut
      /\ UNCHANGED <<stray, mintFeeBps, redeemFeeBps, revenueSink, paused>>

(* ERC-20 transfers: of gUSD between holders, a plain revenue transfer to  *)
(* the vault among them, and of the reserve asset to the token contract.   *)
transfer(from, to, amount) ==
  /\ amount <= bal[from]
  /\ bal' = moved(bal, from, to, amount)
  /\ UNCHANGED <<reserve, stray, outside, mintFeeBps, redeemFeeBps, revenueSink, paused>>

transferReserve(amount) ==
  /\ amount <= outside
  /\ outside' = outside - amount
  /\ reserve' = reserve + amount
  /\ stray' = stray + amount
  /\ UNCHANGED <<bal, mintFeeBps, redeemFeeBps, revenueSink, paused>>

GusdInit ==
  /\ bal = [h \in Holders |-> IF h \in Users THEN InitialBalance ELSE 0]
  /\ reserve = SumOf(bal)
  /\ stray = 0
  /\ outside = InitialOutside
  /\ mintFeeBps = 0 /\ redeemFeeBps = 0
  /\ revenueSink = None
  /\ paused = FALSE

GusdStep ==
  \/ \E m, r \in Fees : setFees(m, r)
  \/ setRevenueSink("ledger")
  \/ \E p \in BOOLEAN : setPaused(p)
  \/ \E u \in Users, x \in Amounts :
       \/ mint(u, x)
       \/ redeem(u, x)
       \/ \E h \in {"ledger", "vault"} : transfer(u, h, x)
  \/ \E x \in Amounts : transferReserve(x)

(* GUSD.reserveBalance: every gUSD, the sink's fees included, is backed by *)
(* exactly one unit of the reserve, and what else the contract holds was   *)
(* sent there; so any sequence of redemptions can be paid.                 *)
ReserveBacksSupply == reserve = SumOf(bal) + stray

(* GUSD.setFees: fees never exist without a sink, or minting and redeeming *)
(* would both revert on the fee's mint.                                    *)
FeeHasSink == {mintFeeBps, redeemFeeBps} # {0} => revenueSink # None
=============================================================================
