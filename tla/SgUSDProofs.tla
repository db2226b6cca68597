---------------------------- MODULE SgUSDProofs -----------------------------
(***************************************************************************)
(* The dollar is backed, the vault's shares are its seed's and its         *)
(* stakers', no staker is diluted, and the indexer's tables follow the     *)
(* chain, for every set of users, fee, split and amount.  TypeOK needs the *)
(* two accounting equations (a burn or a payout stays natural because the  *)
(* sum covers it), they need TypeOK, and the fee's credit needs a sink:    *)
(* the four are one inductive invariant.                                   *)
(***************************************************************************)
EXTENDS MCSgUSD, AmountProofs

Inv == TypeOK /\ ReserveBacksSupply /\ FeeHasSink /\ SeedGate

-----------------------------------------------------------------------------
(* Arithmetic of the conversions                                           *)

(* Entering at no more shares than the assets are worth, and leaving with  *)
(* no more assets than the shares are worth, never lowers the price.       *)
LEMMA EnterKeepsPrice ==
  ASSUME NEW T \in Nat, NEW S \in Nat, NEW a \in Nat, NEW s \in Nat,
         s * (T + 1) <= a * (S + 1)
  PROVE  (T + a + 1) * (S + 1) >= (T + 1) * (S + s + 1)
<1>1. (T + a + 1) * (S + 1) = (T + 1) * (S + 1) + a * (S + 1)
  OBVIOUS
<1>2. (T + 1) * (S + s + 1) = (T + 1) * (S + 1) + s * (T + 1)
  OBVIOUS
<1> QED
  BY <1>1, <1>2

(* The other way: leaving with at most the shares' worth.                  *)
LEMMA LeaveKeepsPrice ==
  ASSUME NEW T \in Nat, NEW S \in Nat, NEW a \in Nat, NEW s \in Nat,
         a * (S + 1) <= s * (T + 1)
  PROVE  (T - a + 1) * (S + 1) >= (T + 1) * (S - s + 1)
<1>1. (T - a + 1) * (S + 1) = (T + 1) * (S + 1) - a * (S + 1)
  OBVIOUS
<1>2. (T + 1) * (S - s + 1) = (T + 1) * (S + 1) - s * (T + 1)
  OBVIOUS
<1> QED
  BY <1>1, <1>2

-----------------------------------------------------------------------------
(* Balances                                                                *)

(* The sums range over finite sets of holders.                             *)
LEMMA HoldersFinite == IsFiniteSet(Holders) /\ IsFiniteSet(Users \cup {"vault"})
<1>1. IsFiniteSet({"ledger"}) /\ IsFiniteSet({"vault"}) /\ IsFiniteSet({"treasury"})
  BY FS_Singleton
<1>2. IsFiniteSet({"ledger"} \cup {"vault"})
  BY <1>1, FS_Union
<1>3. IsFiniteSet(({"ledger"} \cup {"vault"}) \cup {"treasury"})
  BY <1>1, <1>2, FS_Union
<1>4. IsFiniteSet(Users \cup (({"ledger"} \cup {"vault"}) \cup {"treasury"}))
  BY <1>3, FS_Union, GusdConstants
<1>5. Holders = Users \cup (({"ledger"} \cup {"vault"}) \cup {"treasury"})
  BY DEF Holders
<1>6. IsFiniteSet(Users \cup {"vault"})
  BY <1>1, FS_Union, GusdConstants
<1> QED
  BY <1>4, <1>5, <1>6

(* A credit adds its amount to one balance and to the sum.                 *)
LEMMA CreditSum ==
  ASSUME NEW H, IsFiniteSet(H), NEW b \in [H -> Nat], NEW h \in H, NEW x \in Nat
  PROVE  /\ credit(b, h, x) \in [H -> Nat]
         /\ credit(b, h, x)[h] = b[h] + x
         /\ \A k \in H \ {h} : credit(b, h, x)[k] = b[k]
         /\ SumOf(credit(b, h, x)) = SumOf(b) + x
<1> DEFINE c == credit(b, h, x)
<1>1. c \in [H -> Nat] /\ c[h] = b[h] + x /\ \A k \in H \ {h} : c[k] = b[k]
  BY DEF credit
<1> HIDE DEF c
<1>2. SumOf(c) = SumOf(b) - b[h] + c[h]
  BY <1>1, SumChange
<1>3. SumOf(b) \in Nat /\ b[h] \in Nat
  BY SumNat
<1>4. SumOf(c) = SumOf(b) + x
  BY <1>1, <1>2, <1>3
<1> QED
  BY <1>1, <1>4 DEF c

(* A covered debit takes its amount from one balance and from the sum.     *)
LEMMA DebitSum ==
  ASSUME NEW H, IsFiniteSet(H), NEW b \in [H -> Nat], NEW h \in H, NEW x \in Nat, x <= b[h]
  PROVE  /\ debit(b, h, x) \in [H -> Nat]
         /\ debit(b, h, x)[h] = b[h] - x
         /\ \A k \in H \ {h} : debit(b, h, x)[k] = b[k]
         /\ SumOf(debit(b, h, x)) = SumOf(b) - x
<1> DEFINE c == debit(b, h, x)
<1>0. b[h] - x \in Nat
  OBVIOUS
<1>1. c \in [H -> Nat] /\ c[h] = b[h] - x /\ \A k \in H \ {h} : c[k] = b[k]
  BY <1>0 DEF debit
<1> HIDE DEF c
<1>2. SumOf(c) = SumOf(b) - b[h] + c[h]
  BY <1>1, SumChange
<1>3. SumOf(b) \in Nat /\ b[h] \in Nat
  BY SumNat
<1>4. SumOf(c) = SumOf(b) - x
  BY <1>1, <1>2, <1>3
<1> QED
  BY <1>1, <1>4 DEF c

(* A transfer leaves the sum as it was.                                    *)
LEMMA MovedSum ==
  ASSUME NEW H, IsFiniteSet(H), NEW b \in [H -> Nat], NEW f \in H, NEW t \in H, f # t,
         NEW x \in Nat, x <= b[f]
  PROVE  /\ moved(b, f, t, x) \in [H -> Nat]
         /\ moved(b, f, t, x)[f] = b[f] - x
         /\ moved(b, f, t, x)[t] = b[t] + x
         /\ \A k \in H \ {f, t} : moved(b, f, t, x)[k] = b[k]
         /\ SumOf(moved(b, f, t, x)) = SumOf(b)
<1> DEFINE d == debit(b, f, x)
<1>1. /\ d \in [H -> Nat] /\ d[f] = b[f] - x
      /\ \A k \in H \ {f} : d[k] = b[k]
      /\ SumOf(d) = SumOf(b) - x
  BY DebitSum
<1> HIDE DEF d
<1> DEFINE m == credit(d, t, x)
<1>2. /\ m \in [H -> Nat] /\ m[t] = d[t] + x
      /\ \A k \in H \ {t} : m[k] = d[k]
      /\ SumOf(m) = SumOf(d) + x
  BY <1>1, CreditSum
<1>3. moved(b, f, t, x) = m
  BY DEF moved, d
<1> HIDE DEF m
<1>4. SumOf(m) = SumOf(b)
  BY <1>1, <1>2, SumNat
<1>5. m[t] = b[t] + x
  BY <1>1, <1>2
<1> QED
  BY <1>1, <1>2, <1>3, <1>4, <1>5


-----------------------------------------------------------------------------
(* Preservation                                                            *)

(* A fee is part of the amount it is taken from.                           *)
LEMMA FeeWithin ==
  ASSUME NEW x \in Nat, NEW f \in 0..MaxFeeBps
  PROVE  MulDivCeil(x, f, BPS) \in Nat /\ MulDivCeil(x, f, BPS) <= x
<1>1. f \in Nat /\ f <= BPS /\ BPS \in Nat \ {0}
  BY GusdConstants
<1>2. x * f <= x * BPS
  BY <1>1
<1> QED
  BY <1>1, <1>2, CeilAbove



(* Paying a fee adds exactly it to the supply.                             *)
LEMMA PaidFeeSum ==
  ASSUME NEW b \in [Holders -> Nat], NEW fee \in Nat,
         fee > 0 => revenueSink \in Holders
  PROVE  paidFee(b, fee) \in [Holders -> Nat] /\ SumOf(paidFee(b, fee)) = SumOf(b) + fee
<1>1. CASE fee > 0
  <2>1. /\ credit(b, revenueSink, fee) \in [Holders -> Nat]
        /\ SumOf(credit(b, revenueSink, fee)) = SumOf(b) + fee
    BY <1>1, HoldersFinite, CreditSum
  <2> QED
    BY <1>1, <2>1 DEF paidFee
<1>2. CASE ~(fee > 0)
  <2>1. fee = 0 /\ SumOf(b) \in Nat
    BY <1>2, HoldersFinite, SumNat
  <2> QED
    BY <1>2, <2>1 DEF paidFee
<1> QED
  BY <1>1, <1>2

(* A fee rate of zero takes no fee.                                        *)
LEMMA NoRateNoFee ==
  ASSUME NEW x \in Nat
  PROVE  MulDivCeil(x, 0, BPS) = 0
<1>1. BPS \in Nat \ {0} /\ x * 0 = 0
  BY GusdConstants
<1>2. (0 + BPS - 1) \div BPS = 0
  BY <1>1
<1> QED
  BY <1>1, <1>2 DEF MulDivCeil

(* GUSD.mint: what is minted, fee included, is what was paid in.           *)
LEMMA MintKeeps ==
  ASSUME TypeOK, ReserveBacksSupply, FeeHasSink, NEW u \in Users, NEW x \in Amounts, mint(u, x)
  PROVE  /\ bal' \in [Holders -> Nat] /\ reserve' \in Nat /\ outside' \in Nat
         /\ ReserveBacksSupply'
<1> DEFINE fee == MulDivCeil(x, mintFeeBps, BPS)
<1>1. x \in Nat /\ u \in Holders /\ bal \in [Holders -> Nat] /\ reserve \in Nat /\ stray \in Nat
      /\ outside \in Nat /\ mintFeeBps \in 0..MaxFeeBps
  BY GusdConstants DEF TypeOK, Holders
<1>2. fee \in Nat /\ fee <= x
  BY <1>1, FeeWithin
<1>3. fee > 0 => revenueSink \in Holders
  <2>1. mintFeeBps = 0 => fee = 0
    BY <1>1, NoRateNoFee
  <2>2. revenueSink # None => revenueSink \in Holders
    BY DEF TypeOK, Holders
  <2> QED
    BY <2>1, <2>2, <1>2 DEF FeeHasSink
<1>4. /\ outside' = outside - x /\ x <= outside
      /\ reserve' = reserve + x
      /\ stray' = stray
      /\ bal' = paidFee(credit(bal, u, x - fee), fee)
  BY DEF mint, netOut
<1> HIDE DEF fee
<1>5. x - fee \in Nat
  BY <1>1, <1>2
<1> DEFINE b == credit(bal, u, x - fee)
<1>6. b \in [Holders -> Nat] /\ SumOf(b) = SumOf(bal) + (x - fee)
  BY <1>1, <1>5, HoldersFinite, CreditSum
<1>7. bal' = paidFee(b, fee)
  BY <1>4
<1> HIDE DEF b
<1>8. bal' \in [Holders -> Nat] /\ SumOf(bal') = SumOf(b) + fee
  BY <1>2, <1>3, <1>6, <1>7, PaidFeeSum
<1>9. SumOf(bal) \in Nat /\ reserve = SumOf(bal) + stray
  BY <1>1, HoldersFinite, SumNat DEF ReserveBacksSupply
<1>10. reserve' = SumOf(bal') + stray'
  BY <1>1, <1>2, <1>4, <1>6, <1>8, <1>9
<1> QED
  BY <1>1, <1>4, <1>8, <1>10 DEF ReserveBacksSupply

(* GUSD.redeem: what is burned, less the fee minted, is what is paid out.  *)
LEMMA RedeemKeeps ==
  ASSUME TypeOK, ReserveBacksSupply, FeeHasSink, NEW u \in Users, NEW x \in Amounts, redeem(u, x)
  PROVE  /\ bal' \in [Holders -> Nat] /\ reserve' \in Nat /\ outside' \in Nat
         /\ ReserveBacksSupply'
<1> DEFINE fee == MulDivCeil(x, redeemFeeBps, BPS)
<1>1. x \in Nat /\ u \in Holders /\ bal \in [Holders -> Nat] /\ reserve \in Nat /\ stray \in Nat
      /\ outside \in Nat /\ redeemFeeBps \in 0..MaxFeeBps
  BY GusdConstants DEF TypeOK, Holders
<1>2. fee \in Nat /\ fee <= x
  BY <1>1, FeeWithin
<1>3. fee > 0 => revenueSink \in Holders
  <2>1. redeemFeeBps = 0 => fee = 0
    BY <1>1, NoRateNoFee
  <2>2. revenueSink # None => revenueSink \in Holders
    BY DEF TypeOK, Holders
  <2> QED
    BY <2>1, <2>2, <1>2 DEF FeeHasSink
<1>4. /\ x <= bal[u]
      /\ outside' = outside + (x - fee)
      /\ reserve' = reserve - (x - fee)
      /\ stray' = stray
      /\ bal' = paidFee(debit(bal, u, x), fee)
  BY DEF redeem, netOut
<1> HIDE DEF fee
<1> DEFINE b == debit(bal, u, x)
<1>5. b \in [Holders -> Nat] /\ SumOf(b) = SumOf(bal) - x
  BY <1>1, <1>4, HoldersFinite, DebitSum
<1>6. bal' = paidFee(b, fee)
  BY <1>4
<1> HIDE DEF b
<1>7. bal' \in [Holders -> Nat] /\ SumOf(bal') = SumOf(b) + fee
  BY <1>2, <1>3, <1>5, <1>6, PaidFeeSum
<1>8. SumOf(bal) \in Nat /\ SumOf(bal') \in Nat /\ reserve = SumOf(bal) + stray
  BY <1>1, <1>7, HoldersFinite, SumNat DEF ReserveBacksSupply
<1>9. reserve' = SumOf(bal') + stray'
  BY <1>1, <1>2, <1>4, <1>5, <1>7, <1>8
<1>10. reserve' \in Nat /\ outside' \in Nat
  BY <1>1, <1>2, <1>4, <1>8, <1>9
<1> QED
  BY <1>7, <1>9, <1>10 DEF ReserveBacksSupply

(* Moving gUSD between two holders keeps the balances and the supply.      *)
LEMMA MoveKeeps ==
  ASSUME TypeOK, ReserveBacksSupply, NEW f \in Holders, NEW t \in Holders, f # t,
         NEW x \in Nat, x <= bal[f], bal' = moved(bal, f, t, x),
         reserve' = reserve, stray' = stray
  PROVE  bal' \in [Holders -> Nat] /\ ReserveBacksSupply'
<1>1. bal \in [Holders -> Nat]
  BY DEF TypeOK
<1>2. bal' \in [Holders -> Nat] /\ SumOf(bal') = SumOf(bal)
  BY <1>1, HoldersFinite, MovedSum
<1> QED
  BY <1>2 DEF ReserveBacksSupply


(* Every call on the token keeps the invariant.                            *)
LEMMA GusdKeeps ==
  ASSUME Inv, GusdStep, UNCHANGED <<ledgerVars, vaultVars>>
  PROVE  Inv'
<1> USE DEF Inv, ledgerVars, vaultVars
<1>1. ASSUME NEW m \in Fees, NEW r \in Fees, setFees(m, r)
      PROVE  Inv'
  <2>1. UNCHANGED <<bal, reserve, stray, outside, revenueSink, paused>>
        /\ mintFeeBps' = m /\ redeemFeeBps' = r /\ {m, r} \subseteq 0..MaxFeeBps
        /\ ({m, r} # {0} => revenueSink # None)
    BY <1>1 DEF setFees
  <2> QED
    BY <2>1 DEF TypeOK, ReserveBacksSupply, FeeHasSink, SeedGate
<1>2. CASE setRevenueSink("ledger")
  BY <1>2 DEF setRevenueSink, TypeOK, ReserveBacksSupply, FeeHasSink, SeedGate, None
<1>3. ASSUME NEW p \in BOOLEAN, setPaused(p)
      PROVE  Inv'
  BY <1>3 DEF setPaused, TypeOK, ReserveBacksSupply, FeeHasSink, SeedGate
<1>4. ASSUME NEW u \in Users, NEW x \in Amounts, mint(u, x)
      PROVE  Inv'
  <2>1. /\ bal' \in [Holders -> Nat] /\ reserve' \in Nat /\ outside' \in Nat
        /\ ReserveBacksSupply'
    BY <1>4, MintKeeps
  <2>2. UNCHANGED <<stray, mintFeeBps, redeemFeeBps, revenueSink, paused>>
    BY <1>4 DEF mint
  <2> QED
    BY <2>1, <2>2 DEF TypeOK, FeeHasSink, SeedGate
<1>5. ASSUME NEW u \in Users, NEW x \in Amounts, redeem(u, x)
      PROVE  Inv'
  <2>1. /\ bal' \in [Holders -> Nat] /\ reserve' \in Nat /\ outside' \in Nat
        /\ ReserveBacksSupply'
    BY <1>5, RedeemKeeps
  <2>2. UNCHANGED <<stray, mintFeeBps, redeemFeeBps, revenueSink, paused>>
    BY <1>5 DEF redeem
  <2> QED
    BY <2>1, <2>2 DEF TypeOK, FeeHasSink, SeedGate
<1>6. ASSUME NEW u \in Users, NEW x \in Amounts, NEW h \in {"ledger", "vault"}, transfer(u, h, x)
      PROVE  Inv'
  <2>1. u \in Holders /\ h \in Holders /\ u # h /\ x \in Nat
    BY GusdConstants DEF Holders
  <2>2. /\ x <= bal[u] /\ bal' = moved(bal, u, h, x)
        /\ UNCHANGED <<reserve, stray, outside, mintFeeBps, redeemFeeBps, revenueSink, paused>>
    BY <1>6 DEF transfer
  <2>3. bal' \in [Holders -> Nat] /\ ReserveBacksSupply'
    BY <2>1, <2>2, MoveKeeps
  <2> QED
    BY <2>2, <2>3 DEF TypeOK, FeeHasSink, SeedGate
<1>7. ASSUME NEW x \in Amounts, transferReserve(x)
      PROVE  Inv'
  <2>1. x \in Nat /\ SumOf(bal) \in Nat /\ stray \in Nat /\ outside \in Nat /\ reserve \in Nat
    BY GusdConstants, HoldersFinite, SumNat DEF TypeOK
  <2>2. /\ x <= outside /\ outside' = outside - x /\ reserve' = reserve + x /\ stray' = stray + x
        /\ UNCHANGED <<bal, mintFeeBps, redeemFeeBps, revenueSink, paused>>
    BY <1>7 DEF transferReserve
  <2>3. outside' \in Nat /\ reserve' \in Nat /\ stray' \in Nat
    BY <2>1, <2>2
  <2>4. ReserveBacksSupply'
    BY <2>1, <2>2 DEF ReserveBacksSupply
  <2> QED
    BY <2>2, <2>3, <2>4 DEF TypeOK, FeeHasSink, SeedGate
<1> QED
  BY <1>1, <1>2, <1>3, <1>4, <1>5, <1>6, <1>7 DEF GusdStep

(* Holders pay from their own balance: what one pays it no longer has, and *)
(* no gUSD appears or vanishes.                                            *)
LEMMA HolderPays ==
  ASSUME NEW c \in [Holders -> Nat], NEW f \in Holders, NEW t \in Holders, f # t,
         NEW x \in Nat, x <= c[f]
  PROVE  /\ moved(c, f, t, x) \in [Holders -> Nat]
         /\ moved(c, f, t, x)[f] = c[f] - x
         /\ SumOf(moved(c, f, t, x)) = SumOf(c)
<1>1. IsFiniteSet(Holders)
  BY HoldersFinite
<1> QED
  BY <1>1, MovedSum

(* The ledger is another holder than the vault and the treasury.           *)
LEMMA LedgerPays ==
  ASSUME NEW c \in [Holders -> Nat], NEW t \in {"vault", "treasury"}, NEW x \in Nat,
         x <= c["ledger"]
  PROVE  /\ moved(c, "ledger", t, x) \in [Holders -> Nat]
         /\ moved(c, "ledger", t, x)["ledger"] = c["ledger"] - x
         /\ SumOf(moved(c, "ledger", t, x)) = SumOf(c)
<1>1. "ledger" \in Holders /\ t \in Holders /\ "ledger" # t
  BY DEF Holders
<1> QED
  BY <1>1, HolderPays

(* Every call on the revenue ledger keeps it; distribute pays what it has. *)
LEMMA LedgerKeeps ==
  ASSUME Inv, LedgerStep, UNCHANGED vaultVars
  PROVE  Inv'
<1> USE DEF Inv, vaultVars, gusdVars
<1>1. CASE setVault
  BY <1>1 DEF setVault, TypeOK, ReserveBacksSupply, FeeHasSink, SeedGate
<1>2. CASE setTreasury
  BY <1>2 DEF setTreasury, TypeOK, ReserveBacksSupply, FeeHasSink, SeedGate
<1>3. ASSUME NEW b \in Splits, setSplit(b)
      PROVE  Inv'
  <2>1. b \in 0..BPS
    BY <1>3, SplitConstants, GusdConstants DEF setSplit
  <2> QED
    BY <1>3, <2>1 DEF setSplit, TypeOK, ReserveBacksSupply, FeeHasSink, SeedGate
<1>4. CASE distribute
  <2> DEFINE amt == bal["ledger"]
             toVault == toVaultShare(amt)
             b == moved(bal, "ledger", "vault", toVault)
  <2>1. /\ bal \in [Holders -> Nat] /\ amt \in Nat
        /\ "ledger" \in Holders /\ "vault" \in Holders /\ "treasury" \in Holders
    BY DEF TypeOK, Holders
  <2>2. toVault \in Nat /\ toVault <= amt
    <3>1. sgUSDBps \in Nat /\ sgUSDBps <= BPS /\ BPS \in Nat \ {0}
      BY GusdConstants DEF TypeOK
    <3>2. amt * sgUSDBps <= amt * BPS
      BY <2>1, <3>1
    <3> HIDE DEF amt
    <3>3. toVault \in Nat /\ toVault * BPS <= amt * sgUSDBps
      BY <2>1, <3>1, FloorBelow DEF toVaultShare
    <3> HIDE DEF toVault
    <3>4. SUFFICES ASSUME toVault >= amt + 1 PROVE FALSE
      BY <2>1, <3>3
    <3>5. toVault * BPS >= (amt + 1) * BPS /\ (amt + 1) * BPS = amt * BPS + BPS
      BY <2>1, <3>1, <3>3, <3>4
    <3> DEFINE p == toVault * BPS
               q == amt * BPS
               r == amt * sgUSDBps
    <3>6. p \in Nat /\ q \in Nat /\ r \in Nat /\ p >= q + BPS /\ p <= r /\ r <= q
      BY <2>1, <3>1, <3>2, <3>3, <3>5
    <3> HIDE DEF p, q, r
    <3> QED
      BY <3>1, <3>6
  <2>3. /\ vault = "vault" /\ treasury = "treasury"
        /\ bal' = moved(b, "ledger", "treasury", amt - toVault)
        /\ totalToVault' = totalToVault + toVault
        /\ totalToTreasury' = totalToTreasury + (amt - toVault)
        /\ UNCHANGED <<vault, treasury, sgUSDBps, reserve, stray, outside, mintFeeBps,
                       redeemFeeBps, revenueSink, paused>>
    BY <1>4 DEF distribute, TypeOK
  <2> HIDE DEF toVault, b
  <2>4. b \in [Holders -> Nat] /\ b["ledger"] = amt - toVault /\ SumOf(b) = SumOf(bal)
    <3>1. b = moved(bal, "ledger", "vault", toVault) /\ toVault <= bal["ledger"]
      BY <2>2 DEF b
    <3> QED
      BY <2>1, <2>2, <3>1, LedgerPays
  <2> HIDE DEF amt
  <2>5. amt - toVault \in Nat
    BY <2>1, <2>2
  <2>6. bal' \in [Holders -> Nat] /\ SumOf(bal') = SumOf(b)
    <3> DEFINE rest == amt - toVault
    <3>1. rest \in Nat /\ rest <= b["ledger"] /\ bal' = moved(b, "ledger", "treasury", rest)
      BY <2>1, <2>2, <2>3, <2>4, <2>5
    <3> HIDE DEF rest
    <3> QED
      BY <2>4, <3>1, LedgerPays
  <2>7. ReserveBacksSupply'
    BY <2>3, <2>4, <2>6 DEF ReserveBacksSupply
  <2>8. totalToVault' \in Nat /\ totalToTreasury' \in Nat
    BY <2>2, <2>3, <2>5 DEF TypeOK
  <2> QED
    BY <2>3, <2>6, <2>7, <2>8 DEF TypeOK, FeeHasSink, SeedGate
<1> QED
  BY <1>1, <1>2, <1>3, <1>4 DEF LedgerStep


(* Minting shares against a payment keeps the books: the supply is still   *)
(* the sum, and no one's shares fall.                                      *)
LEMMA EnterKeeps ==
  ASSUME Inv, NEW u \in Users, NEW k \in Users \cup {"vault"}, NEW a \in Nat, NEW s \in Nat,
         Enter(u, k, a, s)
  PROVE  /\ bal' \in [Holders -> Nat] /\ ReserveBacksSupply'
         /\ totalAssets' = totalAssets + a
         /\ shares' \in [Users \cup {"vault"} -> Nat]
         /\ shareSupply' = shareSupply + s /\ shareSupply' \in Nat
         /\ shareSupply' = SumOf(shares')
         /\ shares'["vault"] = shares["vault"] + (IF k = "vault" THEN s ELSE 0)
         /\ UNCHANGED <<gusdRest, ledgerVars, engineVars>>
<1>1. /\ a <= bal[u] /\ bal' = moved(bal, u, "vault", a)
      /\ shares' = credit(shares, k, s)
      /\ shareSupply' = shareSupply + s
      /\ UNCHANGED <<gusdRest, ledgerVars, engineVars>>
  BY DEF Enter
<1>2. reserve' = reserve /\ stray' = stray
  BY <1>1 DEF gusdRest
<1>3. /\ u \in Holders /\ "vault" \in Holders /\ u # "vault"
      /\ bal \in [Holders -> Nat] /\ shares \in [Users \cup {"vault"} -> Nat]
      /\ shareSupply \in Nat /\ shareSupply = SumOf(shares)
      /\ TypeOK /\ ReserveBacksSupply
  BY GusdConstants DEF Inv, TypeOK, SeedGate, Holders
<1>4. bal' \in [Holders -> Nat] /\ ReserveBacksSupply'
  BY <1>1, <1>2, <1>3, MoveKeeps
<1>5. bal'["vault"] = bal["vault"] + a
  BY <1>1, <1>3, HoldersFinite, MovedSum
<1>6. /\ shares' \in [Users \cup {"vault"} -> Nat]
      /\ shares'[k] = shares[k] + s
      /\ \A j \in (Users \cup {"vault"}) \ {k} : shares'[j] = shares[j]
      /\ SumOf(shares') = SumOf(shares) + s
  <2> DEFINE K == Users \cup {"vault"}
  <2>1. IsFiniteSet(K) /\ shares \in [K -> Nat] /\ k \in K
    BY <1>3, HoldersFinite
  <2>2. shares' = credit(shares, k, s)
    BY <1>1
  <2> HIDE DEF K
  <2>3. /\ shares' \in [K -> Nat]
        /\ shares'[k] = shares[k] + s
        /\ \A j \in K \ {k} : shares'[j] = shares[j]
        /\ SumOf(shares') = SumOf(shares) + s
    BY <2>1, <2>2, CreditSum
  <2> QED
    BY <2>3 DEF K
<1>7. shares'["vault"] = shares["vault"] + (IF k = "vault" THEN s ELSE 0)
  <2>1. CASE k = "vault"
    BY <2>1, <1>6
  <2>2. CASE k # "vault"
    <3>1. "vault" \in (Users \cup {"vault"}) \ {k} /\ shares["vault"] \in Nat
      BY <2>2, <1>3
    <3> QED
      BY <2>2, <3>1, <1>6
  <2> QED
    BY <2>1, <2>2
<1>8. totalAssets' = totalAssets + a
  BY <1>5 DEF totalAssets
<1>9. shareSupply' \in Nat /\ shareSupply' = SumOf(shares')
  BY <1>1, <1>3, <1>6
<1> QED
  BY <1>1, <1>4, <1>6, <1>7, <1>8, <1>9

(* Burning shares for a payment keeps the books, and the seed's shares.    *)
LEMMA LeaveKeeps ==
  ASSUME Inv, NEW u \in Users, NEW a \in Nat, NEW s \in Nat, Leave(u, a, s)
  PROVE  /\ bal' \in [Holders -> Nat] /\ ReserveBacksSupply'
         /\ totalAssets' = totalAssets - a
         /\ shares' \in [Users \cup {"vault"} -> Nat]
         /\ shareSupply' = shareSupply - s /\ shareSupply' \in Nat
         /\ shareSupply' = SumOf(shares')
         /\ shares'["vault"] = shares["vault"]
         /\ UNCHANGED <<seeded, gusdRest, ledgerVars, engineVars>>
<1>1. /\ a <= availableForRedemption /\ s <= shares[u]
      /\ bal' = moved(bal, "vault", u, a)
      /\ shares' = debit(shares, u, s)
      /\ shareSupply' = shareSupply - s
      /\ UNCHANGED <<seeded, gusdRest, ledgerVars, engineVars>>
  BY DEF Leave
<1>2. reserve' = reserve /\ stray' = stray
  BY <1>1 DEF gusdRest
<1>3. /\ u \in Holders /\ "vault" \in Holders /\ u # "vault"
      /\ bal \in [Holders -> Nat] /\ shares \in [Users \cup {"vault"} -> Nat]
      /\ shareSupply \in Nat /\ shareSupply = SumOf(shares) /\ perpReserved \in Nat
      /\ TypeOK /\ ReserveBacksSupply
  BY GusdConstants DEF Inv, TypeOK, SeedGate, Holders
<1>4. a <= bal["vault"]
  <2>1. bal["vault"] \in Nat
    BY <1>3
  <2> QED
    BY <1>1, <1>3, <2>1 DEF availableForRedemption, PosPart, totalAssets
<1>5. bal' \in [Holders -> Nat] /\ ReserveBacksSupply'
  BY <1>1, <1>2, <1>3, <1>4, MoveKeeps
<1>6. bal'["vault"] = bal["vault"] - a
  BY <1>1, <1>3, <1>4, HoldersFinite, MovedSum
<1>7. /\ shares' \in [Users \cup {"vault"} -> Nat]
      /\ \A j \in (Users \cup {"vault"}) \ {u} : shares'[j] = shares[j]
      /\ SumOf(shares') = SumOf(shares) - s
  <2> DEFINE K == Users \cup {"vault"}
  <2>1. IsFiniteSet(K) /\ shares \in [K -> Nat] /\ u \in K
    BY <1>3, HoldersFinite
  <2>2. shares' = debit(shares, u, s) /\ s <= shares[u]
    BY <1>1
  <2> HIDE DEF K
  <2>3. /\ shares' \in [K -> Nat]
        /\ shares'[u] = shares[u] - s
        /\ \A j \in K \ {u} : shares'[j] = shares[j]
        /\ SumOf(shares') = SumOf(shares) - s
    BY <2>1, <2>2, DebitSum
  <2> QED
    BY <2>3 DEF K
<1>8. shares'["vault"] = shares["vault"]
  BY <1>3, <1>7
<1>9. shareSupply' = SumOf(shares') /\ shareSupply' \in Nat
  BY <1>1, <1>3, <1>7, HoldersFinite, SumNat
<1>10. totalAssets' = totalAssets - a
  BY <1>6 DEF totalAssets
<1> QED
  BY <1>1, <1>5, <1>7, <1>8, <1>9, <1>10

(* The conversions are natural, and round in the vault's favour.           *)
LEMMA Conversions ==
  ASSUME Inv, NEW x \in Nat
  PROVE  /\ totalAssets \in Nat /\ shareSupply \in Nat
         /\ sharesDown(x) \in Nat /\ sharesDown(x) * (totalAssets + 1) <= x * (shareSupply + 1)
         /\ assetsDown(x) \in Nat /\ assetsDown(x) * (shareSupply + 1) <= x * (totalAssets + 1)
         /\ sharesUp(x) \in Nat /\ x * (shareSupply + 1) <= sharesUp(x) * (totalAssets + 1)
         /\ assetsUp(x) \in Nat /\ x * (totalAssets + 1) <= assetsUp(x) * (shareSupply + 1)
<1>1. totalAssets \in Nat /\ shareSupply \in Nat
  BY DEF Inv, TypeOK, totalAssets, Holders
<1>2. totalAssets + 1 \in Nat \ {0} /\ shareSupply + 1 \in Nat \ {0}
  BY <1>1
<1> DEFINE T == totalAssets + 1
           S == shareSupply + 1
<1>3. T \in Nat \ {0} /\ S \in Nat \ {0} /\ T \in Nat /\ S \in Nat
  BY <1>2
<1>4. /\ sharesDown(x) = MulDivFloor(x, S, T) /\ sharesUp(x) = MulDivCeil(x, S, T)
      /\ assetsDown(x) = MulDivFloor(x, T, S) /\ assetsUp(x) = MulDivCeil(x, T, S)
  BY DEF sharesDown, sharesUp, assetsDown, assetsUp
<1> HIDE DEF T, S
<1>5. MulDivFloor(x, S, T) \in Nat /\ MulDivFloor(x, S, T) * T <= x * S
  BY <1>3, FloorBelow
<1>6. MulDivFloor(x, T, S) \in Nat /\ MulDivFloor(x, T, S) * S <= x * T
  BY <1>3, FloorBelow
<1>7. MulDivCeil(x, S, T) \in Nat /\ x * S <= MulDivCeil(x, S, T) * T
  BY <1>3, CeilAbove
<1>8. MulDivCeil(x, T, S) \in Nat /\ x * T <= MulDivCeil(x, T, S) * S
  BY <1>3, CeilAbove
<1> QED
  BY <1>1, <1>4, <1>5, <1>6, <1>7, <1>8 DEF T, S


(* A share is worth at least what it was.                                  *)
PriceKept == (totalAssets' + 1) * (shareSupply + 1) >= (totalAssets + 1) * (shareSupply' + 1)

(* A deposit or mint keeps the invariant and the price.                    *)
LEMMA EntryKeeps ==
  ASSUME Inv, seeded, seeded' = seeded, NEW u \in Users, NEW a \in Nat, NEW s \in Nat,
         Enter(u, u, a, s), s * (totalAssets + 1) <= a * (shareSupply + 1)
  PROVE  Inv' /\ PriceKept
<1>1. /\ bal' \in [Holders -> Nat] /\ ReserveBacksSupply'
      /\ totalAssets' = totalAssets + a
      /\ shares' \in [Users \cup {"vault"} -> Nat]
      /\ shareSupply' = shareSupply + s /\ shareSupply' \in Nat
      /\ shareSupply' = SumOf(shares')
      /\ shares'["vault"] = shares["vault"] + (IF u = "vault" THEN s ELSE 0)
      /\ UNCHANGED <<gusdRest, ledgerVars, engineVars>>
  BY EnterKeeps
<1>2. u # "vault" /\ shares["vault"] \in Nat /\ shares["vault"] > 0
  BY GusdConstants DEF Inv, TypeOK, SeedGate
<1>3. shares'["vault"] > 0
  BY <1>1, <1>2
<1>4. Inv'
  BY <1>1, <1>3 DEF Inv, TypeOK, SeedGate, FeeHasSink, gusdRest, ledgerVars, engineVars
<1>5. totalAssets \in Nat /\ shareSupply \in Nat
  BY Conversions
<1>6. (totalAssets + a + 1) * (shareSupply + 1) >= (totalAssets + 1) * (shareSupply + s + 1)
  BY <1>5, EnterKeepsPrice
<1> QED
  BY <1>1, <1>4, <1>6 DEF PriceKept

(* A withdrawal or redemption keeps the invariant and the price.           *)
LEMMA ExitKeeps ==
  ASSUME Inv, NEW u \in Users, NEW a \in Nat, NEW s \in Nat,
         Leave(u, a, s), a * (shareSupply + 1) <= s * (totalAssets + 1)
  PROVE  Inv' /\ PriceKept
<1>1. /\ bal' \in [Holders -> Nat] /\ ReserveBacksSupply'
      /\ totalAssets' = totalAssets - a
      /\ shares' \in [Users \cup {"vault"} -> Nat]
      /\ shareSupply' = shareSupply - s /\ shareSupply' \in Nat
      /\ shareSupply' = SumOf(shares')
      /\ shares'["vault"] = shares["vault"]
      /\ UNCHANGED <<seeded, gusdRest, ledgerVars, engineVars>>
  BY LeaveKeeps
<1>2. totalAssets \in Nat /\ shareSupply \in Nat
  BY Conversions
<1>3. ~seeded => shareSupply' = 0
  BY <1>1, <1>2 DEF Inv, SeedGate
<1>4. Inv'
  BY <1>1, <1>3 DEF Inv, TypeOK, SeedGate, FeeHasSink, gusdRest, ledgerVars, engineVars
<1>5. (totalAssets - a + 1) * (shareSupply + 1) >= (totalAssets + 1) * (shareSupply - s + 1)
  BY <1>2, LeaveKeepsPrice
<1> QED
  BY <1>1, <1>4, <1>5 DEF PriceKept

(* A transfer of shares changes their owners and nothing else; the vault,  *)
(* which calls nothing on itself, only ever receives them.                 *)
LEMMA TransferKeeps ==
  ASSUME Inv, NEW u \in Users, NEW to \in (Users \cup {"vault"}) \ {u}, NEW x \in Nat,
         transferShares(u, to, x)
  PROVE  Inv' /\ PriceKept
<1> DEFINE K == Users \cup {"vault"}
<1>1. /\ IsFiniteSet(K) /\ shares \in [K -> Nat] /\ u \in K /\ to \in K /\ u # to
      /\ "vault" \in K /\ u # "vault"
  BY HoldersFinite, GusdConstants DEF Inv, TypeOK
<1>2. /\ x <= shares[u] /\ shares' = moved(shares, u, to, x)
      /\ UNCHANGED <<gusdVars, ledgerVars, engineVars, seeded, shareSupply>>
  BY DEF transferShares
<1> HIDE DEF K
<1>3. /\ shares' \in [K -> Nat] /\ SumOf(shares') = SumOf(shares)
      /\ shares'[to] = shares[to] + x
      /\ \A k \in K \ {u, to} : shares'[k] = shares[k]
  BY <1>1, <1>2, MovedSum
<1>4. shares'["vault"] >= shares["vault"]
  BY <1>1, <1>3
<1>5. Inv'
  <2>1. shares["vault"] \in Nat /\ shares'["vault"] \in Nat
    BY <1>1, <1>3
  <2>2. SeedGate'
    BY <1>2, <1>3, <1>4, <2>1 DEF Inv, SeedGate
  <2> QED
    BY <1>2, <1>3, <2>2 DEF Inv, TypeOK, ReserveBacksSupply, FeeHasSink, gusdVars, ledgerVars,
                            engineVars, K
<1>6. totalAssets' = totalAssets /\ shareSupply' = shareSupply
  BY <1>2 DEF totalAssets, gusdVars
<1>7. (totalAssets + 1) * (shareSupply + 1) \in Nat
  BY DEF Inv, TypeOK, totalAssets, Holders
<1> QED
  BY <1>5, <1>6, <1>7 DEF PriceKept

(* Every staker's call keeps the invariant and, once seeded, the price.    *)
LEMMA StakerKeeps ==
  ASSUME Inv, StakerStep
  PROVE  Inv' /\ (~seeded \/ PriceKept)
<1>1. PICK u \in Users, x \in Amounts :
        \/ seed(u, x) \/ deposit(u, x) \/ mintShares(u, x) \/ withdraw(u, x) \/ redeemShares(u, x)
        \/ \E to \in (Users \cup {"vault"}) \ {u} : transferShares(u, to, x)
  BY DEF StakerStep
<1>2. /\ x \in Nat /\ totalAssets \in Nat /\ shareSupply \in Nat
      /\ sharesDown(x) \in Nat /\ sharesDown(x) * (totalAssets + 1) <= x * (shareSupply + 1)
      /\ assetsDown(x) \in Nat /\ assetsDown(x) * (shareSupply + 1) <= x * (totalAssets + 1)
      /\ sharesUp(x) \in Nat /\ x * (shareSupply + 1) <= sharesUp(x) * (totalAssets + 1)
      /\ assetsUp(x) \in Nat /\ x * (totalAssets + 1) <= assetsUp(x) * (shareSupply + 1)
  BY Conversions, GusdConstants
<1>3. CASE seed(u, x)
  <2>1. ~seeded /\ x # 0 /\ seeded' = TRUE /\ Enter(u, "vault", x, x) /\ "vault" \in Users \cup {"vault"}
    BY <1>3 DEF seed
  <2>2. /\ bal' \in [Holders -> Nat] /\ ReserveBacksSupply'
        /\ shares' \in [Users \cup {"vault"} -> Nat]
        /\ shareSupply' \in Nat /\ shareSupply' = SumOf(shares')
        /\ shares'["vault"] = shares["vault"] + x
        /\ UNCHANGED <<gusdRest, ledgerVars, engineVars>>
    BY <1>2, <2>1, EnterKeeps
  <2>3. shares'["vault"] > 0
    BY <1>2, <2>1, <2>2 DEF Inv, TypeOK
  <2> QED
    BY <2>1, <2>2, <2>3 DEF Inv, TypeOK, SeedGate, FeeHasSink, gusdRest, ledgerVars, engineVars
<1>4. CASE deposit(u, x)
  <2>1. seeded /\ seeded' = seeded /\ Enter(u, u, x, sharesDown(x))
    BY <1>4 DEF deposit
  <2> QED
    BY <1>2, <2>1, EntryKeeps
<1>5. CASE mintShares(u, x)
  <2>1. seeded /\ seeded' = seeded /\ Enter(u, u, assetsUp(x), x)
    BY <1>5 DEF mintShares
  <2> QED
    BY <1>2, <2>1, EntryKeeps
<1>6. CASE withdraw(u, x)
  <2>1. Leave(u, x, sharesUp(x))
    BY <1>6 DEF withdraw
  <2> QED
    BY <1>2, <2>1, ExitKeeps
<1>7. CASE redeemShares(u, x)
  <2>1. Leave(u, assetsDown(x), x)
    BY <1>7 DEF redeemShares
  <2> QED
    BY <1>2, <2>1, ExitKeeps
<1>8. ASSUME NEW to \in (Users \cup {"vault"}) \ {u}, transferShares(u, to, x)
      PROVE  Inv' /\ PriceKept
  BY <1>2, <1>8, TransferKeeps
<1> QED
  BY <1>1, <1>3, <1>4, <1>5, <1>6, <1>7, <1>8

(* Every engine call keeps the invariant; only a payout lowers the price.  *)
LEMMA EngineKeeps ==
  ASSUME Inv, EngineStep
  PROVE  Inv' /\ (PriceKept \/ engineWithdrawn' > engineWithdrawn)
<1>0. totalAssets \in Nat /\ shareSupply \in Nat
  BY DEF Inv, TypeOK, totalAssets, Holders
<1>1. ASSUME UNCHANGED <<gusdVars, ledgerVars, seeded, shares, shareSupply>>,
             perpEngine' \in {None, "engine"}, perpReserved' \in Nat, engineMaxWithdrawPerBlock' \in Nat, engineWithdrawn' \in Nat
      PROVE  Inv' /\ PriceKept
  <2>1. Inv'
    BY <1>1 DEF Inv, TypeOK, ReserveBacksSupply, SeedGate, FeeHasSink, gusdVars, ledgerVars
  <2>2. totalAssets' = totalAssets /\ shareSupply' = shareSupply
    BY <1>1 DEF totalAssets, gusdVars
  <2>3. (totalAssets + 1) * (shareSupply + 1) \in Nat
    BY <1>0
  <2> QED
    BY <2>1, <2>2, <2>3 DEF PriceKept
<1>2. /\ perpReserved \in Nat /\ engineMaxWithdrawPerBlock \in Nat /\ engineWithdrawn \in Nat
      /\ perpEngine \in {None, "engine"}
  BY DEF Inv, TypeOK
<1>3. ASSUME NEW x \in Reservations, setPerpReserved(x)
      PROVE  Inv' /\ PriceKept
  BY <1>1, <1>2, <1>3, VaultConstants DEF setPerpReserved
<1>4. ASSUME NEW c \in Caps, setEngineMaxWithdrawPerBlock(c)
      PROVE  Inv' /\ PriceKept
  BY <1>1, <1>2, <1>4, VaultConstants DEF setEngineMaxWithdrawPerBlock
<1>5. CASE NextBlock
  BY <1>1, <1>2, <1>5 DEF NextBlock
<1>7. CASE setPerpEngine
  BY <1>1, <1>2, <1>7 DEF setPerpEngine
<1>6. ASSUME NEW u \in Users, NEW x \in Amounts, perpWithdraw(u, x)
      PROVE  Inv' /\ (PriceKept \/ engineWithdrawn' > engineWithdrawn)
  <2> DEFINE room == PosPart(engineMaxWithdrawPerBlock - engineWithdrawn)
             paid == Lesser(Lesser(x, totalAssets), room)
  <2>1. /\ bal' = moved(bal, "vault", u, paid)
        /\ engineWithdrawn' = engineWithdrawn + paid
        /\ UNCHANGED <<gusdRest, ledgerVars, seeded, shares, shareSupply, perpEngine,
                       perpReserved, engineMaxWithdrawPerBlock>>
    BY <1>6 DEF perpWithdraw
  <2>2. room \in Nat /\ x \in Nat
    BY <1>2, GusdConstants DEF PosPart
  <2> HIDE DEF room
  <2>3. paid \in Nat /\ paid <= totalAssets
    BY <1>0, <2>2 DEF Lesser
  <2> HIDE DEF paid
  <2>4. /\ u \in Holders /\ "vault" \in Holders /\ u # "vault" /\ paid <= bal["vault"]
        /\ bal \in [Holders -> Nat] /\ TypeOK /\ ReserveBacksSupply
        /\ reserve' = reserve /\ stray' = stray
    BY <2>1, <2>3, GusdConstants DEF Inv, TypeOK, Holders, totalAssets, gusdRest
  <2>5. bal' \in [Holders -> Nat] /\ ReserveBacksSupply'
    BY <2>1, <2>3, <2>4, MoveKeeps
  <2>6. bal'["vault"] = bal["vault"] - paid
    BY <2>1, <2>3, <2>4, HoldersFinite, MovedSum
  <2>7. Inv'
    <3>1. engineWithdrawn' \in Nat
      BY <1>2, <2>1, <2>3
    <3> QED
      BY <2>1, <2>5, <3>1 DEF Inv, TypeOK, SeedGate, FeeHasSink, gusdRest, ledgerVars
  <2>8. CASE paid > 0
    BY <1>2, <2>1, <2>3, <2>7, <2>8
  <2>9. CASE paid = 0
    <3>1. totalAssets' = totalAssets /\ shareSupply' = shareSupply
      BY <1>0, <2>1, <2>6, <2>9 DEF totalAssets
    <3>2. (totalAssets + 1) * (shareSupply + 1) \in Nat
      BY <1>0
    <3> QED
      BY <2>7, <3>1, <3>2 DEF PriceKept
  <2> QED
    BY <2>3, <2>8, <2>9
<1> QED
  BY <1>3, <1>4, <1>5, <1>6, <1>7 DEF EngineStep


(* Token and ledger steps never take from the vault.                       *)
LEMMA RevenueKeepsPrice ==
  ASSUME Inv, \/ GusdStep /\ UNCHANGED <<ledgerVars, vaultVars>>
              \/ LedgerStep /\ UNCHANGED vaultVars
  PROVE  PriceKept
<1>0. /\ bal \in [Holders -> Nat] /\ totalAssets = bal["vault"] /\ totalAssets \in Nat
      /\ shareSupply \in Nat /\ shareSupply' = shareSupply
      /\ "vault" \in Holders /\ "ledger" \in Holders /\ "treasury" \in Holders
      /\ Users \subseteq Holders /\ "vault" \notin Users
  BY GusdConstants DEF Inv, TypeOK, totalAssets, Holders, vaultVars
<1>1. SUFFICES bal'["vault"] \in Nat /\ bal'["vault"] >= bal["vault"]
  <2> DEFINE T == totalAssets
             W == totalAssets'
             S == shareSupply
  <2>1. T \in Nat /\ W \in Nat /\ S \in Nat /\ W >= T
    BY <1>0, <1>1 DEF totalAssets
  <2> HIDE DEF T, W, S
  <2>2. (W + 1) * (S + 1) >= (T + 1) * (S + 1)
    BY <2>1
  <2> QED
    BY <1>0, <2>2 DEF T, W, S, PriceKept
<1>2. Inv'
  BY GusdKeeps, LedgerKeeps
<1>3. bal'["vault"] \in Nat
  BY <1>0, <1>2 DEF Inv, TypeOK
<1>4. ASSUME NEW u \in Users, NEW x \in Amounts, NEW h \in {"ledger", "vault"}, transfer(u, h, x)
      PROVE  bal'["vault"] >= bal["vault"]
  <2>1. x <= bal[u] /\ bal' = moved(bal, u, h, x) /\ x \in Nat /\ u # h /\ h \in Holders
    BY <1>4, <1>0, GusdConstants DEF transfer
  <2>2. CASE h = "vault"
    <3>1. bal'["vault"] = bal["vault"] + x
      BY <1>0, <2>1, <2>2 DEF moved, credit, debit
    <3> QED
      BY <1>0, <2>1, <3>1
  <2>3. CASE h = "ledger"
    <3>1. bal'["vault"] = bal["vault"]
      BY <1>0, <2>1, <2>3 DEF moved, credit, debit
    <3> QED
      BY <1>0, <3>1
  <2> QED
    BY <2>2, <2>3
<1>5. ASSUME NEW b, NEW fee \in Nat
      PROVE  paidFee(b, fee)["vault"] = b["vault"]
  BY DEF Inv, TypeOK, paidFee, credit, None
<1>6. ASSUME NEW u \in Users, NEW x \in Amounts, mint(u, x) \/ redeem(u, x)
      PROVE  bal'["vault"] >= bal["vault"]
  <2>1. x \in Nat /\ mintFeeBps \in 0..MaxFeeBps /\ redeemFeeBps \in 0..MaxFeeBps /\ u # "vault"
    BY <1>0, GusdConstants DEF Inv, TypeOK
  <2>2. /\ MulDivCeil(x, mintFeeBps, BPS) \in Nat
        /\ MulDivCeil(x, redeemFeeBps, BPS) \in Nat
    BY <2>1, FeeWithin
  <2>3. \/ bal' = paidFee(credit(bal, u, netOut(x, MulDivCeil(x, mintFeeBps, BPS))),
                          MulDivCeil(x, mintFeeBps, BPS))
        \/ bal' = paidFee(debit(bal, u, x), MulDivCeil(x, redeemFeeBps, BPS))
    BY <1>6 DEF mint, redeem
  <2>4. \A n : credit(bal, u, n)["vault"] = bal["vault"]
    BY <1>0, <2>1 DEF credit
  <2>5. debit(bal, u, x)["vault"] = bal["vault"]
    BY <1>0, <2>1 DEF debit
  <2>6. bal'["vault"] = bal["vault"]
    BY <1>5, <2>2, <2>3, <2>4, <2>5
  <2> QED
    BY <1>0, <2>6
<1>7. CASE GusdStep
  <2>1. bal' = bal \/ \E u \in Users, x \in Amounts :
           mint(u, x) \/ redeem(u, x) \/ \E h \in {"ledger", "vault"} : transfer(u, h, x)
    BY <1>7 DEF GusdStep, setFees, setRevenueSink, setPaused, transferReserve
  <2>2. CASE bal' = bal
    BY <1>0, <2>2
  <2>3. ASSUME NEW u \in Users, NEW x \in Amounts,
               mint(u, x) \/ redeem(u, x) \/ \E h \in {"ledger", "vault"} : transfer(u, h, x)
        PROVE  bal'["vault"] >= bal["vault"]
    BY <1>4, <1>6, <2>3, Zenon
  <2> QED
    BY <1>3, <2>1, <2>2, <2>3
<1>8. CASE distribute
  <2> DEFINE toVault == toVaultShare(bal["ledger"])
  <2>1. toVault \in Nat
    BY <1>0, FloorBelow, GusdConstants DEF toVaultShare, Inv, TypeOK
  <2>2. vault = "vault" /\ treasury = "treasury"
        /\ bal' = moved(moved(bal, "ledger", vault, toVault), "ledger", treasury,
                        bal["ledger"] - toVault)
    BY <1>8 DEF distribute, Inv, TypeOK
  <2> HIDE DEF toVault
  <2>3. bal'["vault"] = bal["vault"] + toVault
    BY <1>0, <2>2 DEF moved, credit, debit
  <2> QED
    BY <1>0, <2>1, <2>3
<1>9. CASE LedgerStep
  <2>1. bal' = bal \/ distribute
    BY <1>9 DEF LedgerStep, setVault, setTreasury, setSplit, gusdVars
  <2> QED
    BY <1>0, <1>8, <2>1
<1> QED
  BY <1>3, <1>7, <1>9

-----------------------------------------------------------------------------
(* Theorems                                                                *)

(* The deployed contracts satisfy the invariant.                           *)
LEMMA InitInv == Init => Inv
<1> SUFFICES ASSUME Init PROVE Inv
  OBVIOUS
<1> USE DEF Init, GusdInit, LedgerInit
<1>1. bal \in [Holders -> Nat] /\ shares \in [Users \cup {"vault"} -> Nat]
  BY GusdConstants
<1>2. SumOf(bal) \in Nat
  BY <1>1, HoldersFinite, SumNat
<1>3. SumOf(shares) = 0
  <2>1. \A k \in Users \cup {"vault"} : shares[k] = 0
    OBVIOUS
  <2> DEFINE K == Users \cup {"vault"}
  <2>2. shares \in [K -> Nat] /\ \A k \in K : shares[k] = 0
    BY <1>1, <2>1
  <2> HIDE DEF K
  <2> QED
    BY <2>2, SumZero
<1>4. BPS \div 2 \in 0..BPS /\ 0 \in 0..MaxFeeBps
  BY GusdConstants
<1>5. TypeOK
  BY <1>1, <1>2, <1>4, GusdConstants DEF TypeOK
<1> QED
  BY <1>2, <1>3, <1>5 DEF Inv, ReserveBacksSupply, FeeHasSink, SeedGate

(* Every step keeps it.                                                    *)
LEMMA StepInv == Inv /\ [Next]_vars => Inv' /\ (~seeded \/ PriceKept \/ engineWithdrawn' > engineWithdrawn)
<1> SUFFICES ASSUME Inv, [Next]_vars
             PROVE  Inv' /\ (~seeded \/ PriceKept \/ engineWithdrawn' > engineWithdrawn)
  OBVIOUS
<1>1. CASE GusdStep /\ UNCHANGED <<ledgerVars, vaultVars>>
  BY <1>1, GusdKeeps, RevenueKeepsPrice
<1>2. CASE LedgerStep /\ UNCHANGED vaultVars
  BY <1>2, LedgerKeeps, RevenueKeepsPrice
<1>3. CASE StakerStep
  BY <1>3, StakerKeeps
<1>4. CASE EngineStep
  BY <1>4, EngineKeeps
<1>5. CASE UNCHANGED vars
  <2>1. Inv'
    BY <1>5 DEF vars, gusdVars, ledgerVars, vaultVars, Inv, TypeOK, ReserveBacksSupply,
                FeeHasSink, SeedGate
  <2>2. totalAssets' = totalAssets /\ shareSupply' = shareSupply
    BY <1>5 DEF vars, gusdVars, vaultVars, totalAssets
  <2>3. (totalAssets + 1) * (shareSupply + 1) \in Nat
    BY DEF Inv, TypeOK, totalAssets, Holders
  <2> QED
    BY <2>1, <2>2, <2>3 DEF PriceKept
<1> QED
  BY <1>1, <1>2, <1>3, <1>4, <1>5 DEF Next

(* It holds in every reachable state.                                      *)
LEMMA AlwaysInv == Spec => []Inv
<1>1. Init => Inv
  BY InitInv
<1>2. Inv /\ [Next]_vars => Inv'
  BY StepInv
<1> QED
  BY <1>1, <1>2, PTL DEF Spec

(* No checked subtraction of a mint, redemption, transfer, distribution,   *)
(* deposit, withdrawal or payout underflows.                               *)
THEOREM BooksTyped == Spec => []TypeOK
<1>1. Inv => TypeOK
  BY DEF Inv
<1> QED
  BY <1>1, AlwaysInv, PTL

(* GUSD.mint, redeem and every transfer: each gUSD is backed by one unit   *)
(* of the reserve, whatever the fees.                                      *)
THEOREM DollarBacked == Spec => []ReserveBacksSupply
<1>1. Inv => ReserveBacksSupply
  BY DEF Inv
<1> QED
  BY <1>1, AlwaysInv, PTL

(* GUSD.setFees and setRevenueSink, in any order: a fee that is charged    *)
(* has someone to go to.                                                   *)
THEOREM FeesHaveSink == Spec => []FeeHasSink
<1>1. Inv => FeeHasSink
  BY DEF Inv
<1> QED
  BY <1>1, AlwaysInv, PTL

(* sgUSD.seed and _deposit: no shares before the seed, and its shares stay *)
(* locked in the vault for good.                                           *)
THEOREM SeedLocked == Spec => []SeedGate
<1>1. Inv => SeedGate
  BY DEF Inv
<1> QED
  BY <1>1, AlwaysInv, PTL

(* ERC4626's conversions as sgUSD uses them: no step but an engine payout  *)
(* lowers the worth of a share.                                            *)
THEOREM NoDilution == Spec => SharePriceNeverFalls
<1> DEFINE A == \/ ~seeded
                \/ (totalAssets' + 1) * (shareSupply + 1) >= (totalAssets + 1) * (shareSupply' + 1)
                \/ engineWithdrawn' > engineWithdrawn
<1>1. Inv /\ [Next]_vars => [A]_vars
  BY StepInv DEF PriceKept
<1>2. Spec => [][A]_vars
  BY <1>1, AlwaysInv, PTL DEF Spec
<1> QED
  BY <1>2 DEF SharePriceNeverFalls

(* sgUSD.maxWithdraw and maxRedeem: what they show, execution accepts.     *)
THEOREM PreviewsHonest == Spec => []HonestPreviews
<1>1. Inv => HonestPreviews
  <2> SUFFICES ASSUME Inv, NEW u \in Users
               PROVE  /\ sharesUp(maxWithdraw(u)) <= shares[u]
                      /\ maxWithdraw(u) <= availableForRedemption
                      /\ maxRedeem(u) <= shares[u]
                      /\ assetsDown(maxRedeem(u)) <= availableForRedemption
    BY DEF HonestPreviews
  <2> DEFINE T == totalAssets + 1
             S == shareSupply + 1
             s == shares[u]
             v == assetsDown(s)
             m == maxWithdraw(u)
             r == maxRedeem(u)
             w == assetsDown(r)
  <2>1. T \in Nat \ {0} /\ S \in Nat \ {0} /\ s \in Nat /\ availableForRedemption \in Nat
    BY DEF Inv, TypeOK, totalAssets, Holders, availableForRedemption, PosPart
  <2>2. v \in Nat /\ v * S <= s * T
    BY <2>1, Conversions
  <2>3. m = Lesser(v, availableForRedemption)
    BY DEF maxWithdraw
  <2> HIDE DEF v
  <2>4. m \in Nat /\ m <= v /\ m <= availableForRedemption
    BY <2>1, <2>2, <2>3 DEF Lesser
  <2>5. r = sharesDown(m)
    BY DEF maxRedeem
  <2> HIDE DEF m, r
  <2>6. m * S <= s * T
    <3>1. m * S <= v * S
      BY <2>1, <2>2, <2>4
    <3> DEFINE p == m * S
               q == v * S
               t == s * T
    <3>2. p \in Nat /\ q \in Nat /\ t \in Nat /\ p <= q /\ q <= t
      BY <2>1, <2>2, <2>4, <3>1
    <3> HIDE DEF p, q, t
    <3>3. p <= t
      BY <3>2
    <3> QED
      BY <3>3 DEF p, t
  <2>7. sharesUp(m) <= s
    <3>1. sharesUp(m) = MulDivCeil(m, S, T)
      BY DEF sharesUp
    <3> HIDE DEF T, S, s
    <3> QED
      BY <2>1, <2>4, <2>6, <3>1, CeilAbove
  <2>8. r \in Nat /\ r * T <= m * S
    BY <2>4, <2>5, Conversions
  <2>9. r <= s
    <3> HIDE DEF T, S, s
    <3>1. SUFFICES ASSUME r >= s + 1 PROVE FALSE
      BY <2>1, <2>8
    <3>2. r * T >= (s + 1) * T /\ (s + 1) * T = s * T + T
      BY <2>1, <2>8, <3>1
    <3> DEFINE p == m * S
               q == r * T
               t == s * T
    <3>3. p \in Nat /\ q \in Nat /\ t \in Nat /\ q <= p /\ p <= t /\ q >= t + T
      BY <2>1, <2>4, <2>6, <2>8, <3>2
    <3> HIDE DEF p, q, t
    <3> QED
      BY <2>1, <3>3
  <2>10. w \in Nat /\ w * S <= r * T
    BY <2>8, Conversions
  <2>11. w <= m
    <3> HIDE DEF T, S, s, w
    <3>1. SUFFICES ASSUME w >= m + 1 PROVE FALSE
      BY <2>4, <2>10
    <3>2. w * S >= (m + 1) * S /\ (m + 1) * S = m * S + S
      BY <2>1, <2>4, <2>10, <3>1
    <3> DEFINE p == m * S
               q == r * T
               t == w * S
    <3>3. p \in Nat /\ q \in Nat /\ t \in Nat /\ q <= p /\ t <= q /\ t >= p + S
      BY <2>1, <2>4, <2>8, <2>10, <3>2
    <3> HIDE DEF p, q, t
    <3> QED
      BY <2>1, <3>3
  <2>12. w <= availableForRedemption
    <3> HIDE DEF w
    <3> QED
      BY <2>1, <2>4, <2>10, <2>11
  <2> QED
    BY <2>4, <2>7, <2>9, <2>12 DEF m, r
<1> QED
  BY <1>1, AlwaysInv, PTL

-----------------------------------------------------------------------------
(* The net of signed amounts                                               *)

(* The two parts of an amount.                                             *)
LEMMA PosParts ==
  ASSUME NEW i \in Int
  PROVE  PosPart(i) \in Nat /\ PosPart(-i) \in Nat /\ PosPart(i) - PosPart(-i) = i
BY DEF PosPart

(* Changing one entry changes the net by as much.                          *)
LEMMA NetChange ==
  ASSUME NEW S, IsFiniteSet(S), NEW f \in [S -> Int], NEW a \in S, NEW x \in Int,
         NEW g, g = [f EXCEPT ![a] = @ + x]
  PROVE  Net(f) \in Int /\ Net(g) = Net(f) + x
<1> DEFINE fp == [u \in S |-> PosPart(f[u])]
           fn == [u \in S |-> PosPart(-f[u])]
           gp == [u \in S |-> PosPart(g[u])]
           gn == [u \in S |-> PosPart(-g[u])]
<1>1. g \in [S -> Int] /\ g[a] = f[a] + x /\ \A u \in S \ {a} : g[u] = f[u]
  OBVIOUS
<1>2. /\ fp \in [S -> Nat] /\ fn \in [S -> Nat] /\ gp \in [S -> Nat] /\ gn \in [S -> Nat]
      /\ \A u \in S \ {a} : gp[u] = fp[u] /\ gn[u] = fn[u]
  BY <1>1, PosParts
<1>3. fp[a] - fn[a] = f[a] /\ gp[a] - gn[a] = f[a] + x
  BY <1>1, PosParts
<1>4. Net(f) = SumOf(fp) - SumOf(fn) /\ Net(g) = SumOf(gp) - SumOf(gn)
  BY <1>1 DEF Net
<1> HIDE DEF fp, fn, gp, gn
<1>gains. fp \in [S -> Nat] /\ gp \in [S -> Nat] /\ \A u \in S \ {a} : gp[u] = fp[u]
  BY <1>2
<1>losses. fn \in [S -> Nat] /\ gn \in [S -> Nat] /\ \A u \in S \ {a} : gn[u] = fn[u]
  BY <1>2
<1>5. SumOf(gp) = SumOf(fp) - fp[a] + gp[a]
  BY ONLY <1>gains, SumChange, IsFiniteSet(S), a \in S
<1>6. SumOf(gn) = SumOf(fn) - fn[a] + gn[a]
  BY ONLY <1>losses, SumChange, IsFiniteSet(S), a \in S
<1>7. SumOf(fp) \in Nat /\ SumOf(fn) \in Nat
  BY <1>2, SumNat
<1>8. fp[a] \in Nat /\ fn[a] \in Nat /\ gp[a] \in Nat /\ gn[a] \in Nat /\ f[a] \in Int
  BY <1>2
<1> QED BY <1>3, <1>4, <1>5, <1>6, <1>7, <1>8

-----------------------------------------------------------------------------
(* The indexer's tables                                                    *)

Position == [qty : Nat, cost : Int, realized : Int, complete : BOOLEAN]

VaultRow == [seededGusd : Nat, flowGusd : Int, shares : Int, revenueGusd : Int]

VaultTables ==
  [ok : BOOLEAN, gusd : [Holders -> Int], sgusd : [Sharers -> Int],
   positions : [Sharers -> Position],
   vaultRow : VaultRow,
   tape : Int, mirror : [mintFeeBps : Int, redeemFeeBps : Int, sgusdSplitBps : Int],
   recipients : {None, "vault"} \X {None, "treasury"}]

(* The zero address holds nothing.                                         *)
LEMMA ZeroApart == Zero \notin Holders /\ Zero \notin Sharers /\ Sharers \subseteq Holders
BY UsersNotZero DEF Zero, Holders, Sharers

(* gusd.ts: Transfer moves the rows of gUSD, and no other column.          *)
OnlyGusd(d, e) ==
  /\ e.sgusd = d.sgusd /\ e.positions = d.positions /\ e.vaultRow = d.vaultRow
  /\ e.tape = d.tape /\ e.mirror = d.mirror /\ e.recipients = d.recipients

LEMMA GusdRow ==
  ASSUME NEW d \in VaultTables, NEW f, NEW t, NEW v \in Nat,
         transferred(d.gusd, f, t, v) \in [Holders -> Int]
  PROVE  LET e == GusdTransfer(d, f, t, v)
         IN  /\ e \in VaultTables /\ OnlyGusd(d, e)
             /\ e.gusd = transferred(d.gusd, f, t, v)
             /\ d.ok /\ ~underflows(d.gusd, f, v) => e.ok
<1>1. underflows(d.gusd, f, v) \in BOOLEAN
  BY DEF underflows
<1> DEFINE rows == transferred(d.gusd, f, t, v)
           fits == ~underflows(d.gusd, f, v)
<1>2. rows \in [Holders -> Int] /\ fits \in BOOLEAN
  BY <1>1
<1>3. GusdTransfer(d, f, t, v) = [d EXCEPT !.ok = @ /\ fits, !.gusd = rows]
  BY DEF GusdTransfer
<1> HIDE DEF rows, fits
<1>4. (d.ok /\ fits) \in BOOLEAN
  BY <1>2 DEF VaultTables
<1>5. /\ GusdTransfer(d, f, t, v) \in VaultTables
      /\ OnlyGusd(d, GusdTransfer(d, f, t, v))
      /\ GusdTransfer(d, f, t, v).gusd = rows
      /\ d.ok /\ fits => GusdTransfer(d, f, t, v).ok
  BY <1>2, <1>3, <1>4 DEF VaultTables, OnlyGusd
<1> QED BY <1>5 DEF rows, fits

LEMMA GusdMinted ==
  ASSUME NEW d \in VaultTables, NEW t \in Holders, NEW v \in Nat
  PROVE  LET e == GusdTransfer(d, Zero, t, v)
         IN  /\ e \in VaultTables /\ OnlyGusd(d, e) /\ e.gusd = credit(d.gusd, t, v)
             /\ d.ok => e.ok
<1>1. d.gusd \in [Holders -> Int] /\ t # Zero
  BY ZeroApart DEF VaultTables
<1>2. transferred(d.gusd, Zero, t, v) = credit(d.gusd, t, v)
  BY <1>1 DEF transferred, credit
<1>3. credit(d.gusd, t, v) \in [Holders -> Int]
  BY <1>1 DEF credit
<1>4. ~underflows(d.gusd, Zero, v)
  BY DEF underflows
<1> QED BY <1>2, <1>3, <1>4, GusdRow

LEMMA GusdBurned ==
  ASSUME NEW d \in VaultTables, NEW f \in Holders, NEW v \in Nat, v <= d.gusd[f]
  PROVE  LET e == GusdTransfer(d, f, Zero, v)
         IN  /\ e \in VaultTables /\ OnlyGusd(d, e) /\ e.gusd = debit(d.gusd, f, v)
             /\ d.ok => e.ok
<1>1. d.gusd \in [Holders -> Int] /\ f # Zero
  BY ZeroApart DEF VaultTables
<1>2. transferred(d.gusd, f, Zero, v) = debit(d.gusd, f, v)
  BY <1>1 DEF transferred, debit
<1>3. debit(d.gusd, f, v) \in [Holders -> Int]
  BY <1>1 DEF debit
<1>4. ~underflows(d.gusd, f, v)
  BY <1>1 DEF underflows
<1> QED BY <1>2, <1>3, <1>4, GusdRow

LEMMA GusdMoved ==
  ASSUME NEW d \in VaultTables, NEW f \in Holders, NEW t \in Holders, NEW v \in Nat,
         v <= d.gusd[f]
  PROVE  LET e == GusdTransfer(d, f, t, v)
         IN  /\ e \in VaultTables /\ OnlyGusd(d, e) /\ e.gusd = moved(d.gusd, f, t, v)
             /\ d.ok => e.ok
<1>1. d.gusd \in [Holders -> Int] /\ f # Zero /\ t # Zero
  BY ZeroApart DEF VaultTables
<1>2. transferred(d.gusd, f, t, v) = moved(d.gusd, f, t, v)
  BY <1>1 DEF transferred, moved, credit, debit
<1>3. moved(d.gusd, f, t, v) \in [Holders -> Int]
  BY <1>1 DEF moved, credit, debit
<1>4. ~underflows(d.gusd, f, v)
  BY <1>1 DEF underflows
<1> QED BY <1>2, <1>3, <1>4, GusdRow

(* sgusd.ts: Transfer moves the rows of sgUSD and, between wallets, marks  *)
(* both positions incomplete.                                              *)
OnlySgusd(d, e) ==
  /\ e.gusd = d.gusd /\ e.vaultRow = d.vaultRow
  /\ e.tape = d.tape /\ e.mirror = d.mirror /\ e.recipients = d.recipients

LEMMA Demoted ==
  ASSUME NEW d \in VaultTables, NEW w \in Sharers
  PROVE  LET e == demoteVaultPosition(d, w)
         IN  /\ e \in VaultTables /\ OnlySgusd(d, e) /\ e.sgusd = d.sgusd /\ e.ok = d.ok
             /\ ~e.positions[w].complete
             /\ \A h \in Sharers \ {w} : e.positions[h] = d.positions[h]
<1>1. d.positions \in [Sharers -> Position]
  BY DEF VaultTables
<1>2. demoteBasis(d.positions[w]) \in Position /\ ~demoteBasis(d.positions[w]).complete
  BY <1>1 DEF demoteBasis, Position
<1> DEFINE P == [d.positions EXCEPT ![w] = demoteBasis(@)]
<1>3. /\ P \in [Sharers -> Position] /\ ~P[w].complete
      /\ \A h \in Sharers \ {w} : P[h] = d.positions[h]
  BY <1>1, <1>2
<1>4. demoteVaultPosition(d, w) = [d EXCEPT !.positions = P]
  BY DEF demoteVaultPosition, VaultTables
<1> HIDE DEF P
<1> QED BY <1>3, <1>4 DEF VaultTables, OnlySgusd

LEMMA SgusdRow ==
  ASSUME NEW d \in VaultTables, NEW f, NEW t, NEW v \in Nat,
         f \in Sharers \cup {Zero}, t \in Sharers \cup {Zero},
         transferred(d.sgusd, f, t, v) \in [Sharers -> Int]
  PROVE  LET e == SgusdTransfer(d, f, t, v)
         IN  /\ e \in VaultTables /\ OnlySgusd(d, e)
             /\ e.sgusd = transferred(d.sgusd, f, t, v)
             /\ d.ok /\ ~underflows(d.sgusd, f, v) => e.ok
             /\ isWalletMove(f, t) => ~e.positions[f].complete /\ ~e.positions[t].complete
             /\ \A h \in Sharers : ~(isWalletMove(f, t) /\ h \in {f, t}) =>
                                     e.positions[h] = d.positions[h]
<1> DEFINE rows == transferred(d.sgusd, f, t, v)
           fits == ~underflows(d.sgusd, f, v)
           m == [d EXCEPT !.ok = @ /\ fits, !.sgusd = rows]
<1>1. rows \in [Sharers -> Int] /\ fits \in BOOLEAN
  BY DEF underflows
<1>2. SgusdTransfer(d, f, t, v)
        = IF isWalletMove(f, t) THEN demoteVaultPosition(demoteVaultPosition(m, f), t) ELSE m
  BY DEF SgusdTransfer
<1>3. (d.ok /\ fits) \in BOOLEAN
  BY <1>1 DEF VaultTables
<1> HIDE DEF rows, fits
<1>4. /\ m \in VaultTables /\ OnlySgusd(d, m) /\ m.sgusd = rows /\ m.positions = d.positions
      /\ d.ok /\ fits => m.ok
  BY <1>1, <1>3 DEF VaultTables, OnlySgusd
<1> HIDE DEF m
<1>5. CASE ~isWalletMove(f, t)
  BY <1>2, <1>4, <1>5 DEF rows, fits
<1>6. CASE isWalletMove(f, t)
  <2>1. f \in Sharers /\ t \in Sharers
    BY <1>6 DEF isWalletMove, Sharers
  <2> DEFINE a == demoteVaultPosition(m, f)
             e == demoteVaultPosition(a, t)
  <2>2. /\ a \in VaultTables /\ OnlySgusd(m, a) /\ a.sgusd = m.sgusd /\ a.ok = m.ok
        /\ ~a.positions[f].complete
        /\ \A h \in Sharers \ {f} : a.positions[h] = m.positions[h]
    BY <1>4, <2>1, Demoted
  <2> HIDE DEF a
  <2>3. /\ e \in VaultTables /\ OnlySgusd(a, e) /\ e.sgusd = a.sgusd /\ e.ok = a.ok
        /\ ~e.positions[t].complete
        /\ \A h \in Sharers \ {t} : e.positions[h] = a.positions[h]
    BY <2>2, <2>1, Demoted
  <2>4. SgusdTransfer(d, f, t, v) = e
    BY <1>2, <1>6 DEF a
  <2> HIDE DEF e
  <2>5. OnlySgusd(d, e) /\ e.sgusd = rows /\ (d.ok /\ fits => e.ok)
    BY <1>4, <2>2, <2>3 DEF OnlySgusd
  <2>6. ~e.positions[f].complete /\ ~e.positions[t].complete
    BY <2>1, <2>2, <2>3
  <2>7. \A h \in Sharers : ~(isWalletMove(f, t) /\ h \in {f, t}) => e.positions[h] = d.positions[h]
    BY <1>4, <1>6, <2>2, <2>3
  <2>8. e \in VaultTables
    BY <2>3
  <2> QED BY ONLY <2>4, <2>5, <2>6, <2>7, <2>8, Zenon DEF rows, fits
<1> QED BY <1>5, <1>6

(* sgusd.ts: Deposit credits the owner's position and the vault's row.     *)
OnlyPosition(d, e, w) ==
  /\ e.ok = d.ok /\ e.gusd = d.gusd /\ e.sgusd = d.sgusd
  /\ e.tape = d.tape /\ e.mirror = d.mirror /\ e.recipients = d.recipients
  /\ \A h \in Sharers \ {w} : e.positions[h] = d.positions[h]

RowAdds(d, e, flow, s) ==
  /\ e.vaultRow.flowGusd = d.vaultRow.flowGusd + flow
  /\ e.vaultRow.shares = d.vaultRow.shares + s
  /\ e.vaultRow.seededGusd = d.vaultRow.seededGusd
  /\ e.vaultRow.revenueGusd = d.vaultRow.revenueGusd

RowWith(row, flow, s) == [row EXCEPT !.flowGusd = @ + flow, !.shares = @ + s]

Placed(d, w, b, flow, s) ==
  [[d EXCEPT !.positions[w] = b]
     EXCEPT !.vaultRow.flowGusd = @ + flow, !.vaultRow.shares = @ + s]

LEMMA RowMoves ==
  ASSUME NEW row \in VaultRow, NEW flow \in Int, NEW s \in Int
  PROVE  LET r == RowWith(row, flow, s)
         IN  /\ r \in VaultRow
             /\ r.flowGusd = row.flowGusd + flow /\ r.shares = row.shares + s
             /\ r.seededGusd = row.seededGusd /\ r.revenueGusd = row.revenueGusd
<1>1. row.flowGusd + flow \in Int /\ row.shares + s \in Int
  BY DEF VaultRow
<1> QED BY <1>1 DEF VaultRow, RowWith

LEMMA PositionPut ==
  ASSUME NEW d \in VaultTables, NEW w \in Sharers, NEW b \in Position,
         NEW flow \in Int, NEW s \in Int
  PROVE  LET e == Placed(d, w, b, flow, s)
         IN  /\ e \in VaultTables /\ OnlyPosition(d, e, w) /\ RowAdds(d, e, flow, s)
             /\ e.positions[w] = b
<1> DEFINE P == [d.positions EXCEPT ![w] = b]
           V == RowWith(d.vaultRow, flow, s)
           e == Placed(d, w, b, flow, s)
<1>1. d.positions \in [Sharers -> Position]
  BY DEF VaultTables
<1>2. d.vaultRow \in VaultRow
  BY DEF VaultTables, VaultRow
<1>3. P \in [Sharers -> Position] /\ P[w] = b /\ \A h \in Sharers \ {w} : P[h] = d.positions[h]
  BY <1>1
<1>4. /\ V \in VaultRow
      /\ V.flowGusd = d.vaultRow.flowGusd + flow /\ V.shares = d.vaultRow.shares + s
      /\ V.seededGusd = d.vaultRow.seededGusd /\ V.revenueGusd = d.vaultRow.revenueGusd
  BY <1>2, RowMoves
<1>5. e = [d EXCEPT !.positions = P, !.vaultRow = V]
  BY DEF VaultTables, Placed, RowWith
<1> HIDE DEF P, V, e
<1>6. e \in VaultTables /\ e.positions = P /\ e.vaultRow = V
  BY <1>3, <1>4, <1>5 DEF VaultTables, VaultRow
<1>7. /\ e.ok = d.ok /\ e.gusd = d.gusd /\ e.sgusd = d.sgusd
      /\ e.tape = d.tape /\ e.mirror = d.mirror /\ e.recipients = d.recipients
  BY <1>5 DEF VaultTables
<1>8. OnlyPosition(d, e, w) /\ RowAdds(d, e, flow, s) /\ e.positions[w] = b
  BY <1>3, <1>4, <1>6, <1>7 DEF OnlyPosition, RowAdds
<1> QED BY <1>6, <1>8 DEF e

LEMMA DepositedPosition ==
  ASSUME NEW b \in Position, NEW x \in Int, NEW s \in Nat
  PROVE  LET r == depositVault(b, x, s)
         IN  /\ r \in Position /\ r.qty = b.qty + s /\ r.cost = b.cost + x
             /\ r.realized = b.realized /\ r.complete = b.complete
<1>1. b.qty + s \in Nat /\ b.cost + x \in Int
  BY DEF Position
<1> QED BY <1>1 DEF depositVault, acquireBasis, Position

LEMMA Deposited ==
  ASSUME NEW d \in VaultTables, NEW w \in Sharers, NEW x \in Int, NEW s \in Nat
  PROVE  LET e == Deposit(d, w, x, s)
         IN  /\ e \in VaultTables /\ OnlyPosition(d, e, w)
             /\ RowAdds(d, e, IF w = "vault" THEN 0 ELSE x, s)
             /\ e.positions[w].qty = d.positions[w].qty + s
             /\ e.positions[w].cost = d.positions[w].cost + x
             /\ e.positions[w].realized = d.positions[w].realized
             /\ e.positions[w].complete = d.positions[w].complete
<1> DEFINE b == depositVault(d.positions[w], x, s)
           flow == IF w = "vault" THEN 0 ELSE x
<1>1. d.positions[w] \in Position
  BY DEF VaultTables
<1>2. /\ b \in Position /\ b.qty = d.positions[w].qty + s /\ b.cost = d.positions[w].cost + x
      /\ b.realized = d.positions[w].realized /\ b.complete = d.positions[w].complete
  BY <1>1, DepositedPosition
<1>3. flow \in Int /\ s \in Int
  OBVIOUS
<1>4. Deposit(d, w, x, s) = Placed(d, w, b, flow, s)
  BY DEF Deposit, recordVaultDeposit, Placed
<1> HIDE DEF b, flow
<1>5. /\ Deposit(d, w, x, s) \in VaultTables /\ OnlyPosition(d, Deposit(d, w, x, s), w)
      /\ RowAdds(d, Deposit(d, w, x, s), flow, s) /\ Deposit(d, w, x, s).positions[w] = b
  BY <1>2, <1>3, <1>4, PositionPut
<1> QED BY <1>2, <1>5 DEF flow

(* cost-basis.ts: a complete position that covers the shares burned loses  *)
(* them, and realizes what came out less what they cost.                   *)
LEMMA WithdrawnPosition ==
  ASSUME NEW b \in Position, NEW x \in Nat, NEW s \in Nat
  PROVE  LET r == withdrawVault(b, x, s)
         IN  /\ r \in Position /\ r.complete = b.complete
             /\ b.complete /\ s <= b.qty /\ (s = 0 => x = 0) =>
                  r.qty = b.qty - s /\ r.realized - r.cost = b.realized - b.cost + x
<1> DEFINE r == withdrawVault(b, x, s)
           take == Lesser(s, b.qty)
           att == MulDivFloor(b.cost, take, b.qty)
<1>1. b.qty \in Nat /\ b.cost \in Int /\ b.realized \in Int /\ b.complete \in BOOLEAN
  BY DEF Position
<1>2. CASE ~b.complete \/ b.qty = 0
  <2>1. r = [b EXCEPT !.qty = PosPart(@ - s)]
    BY <1>2 DEF withdrawVault
  <2>2. PosPart(b.qty - s) \in Nat /\ (b.qty = 0 => PosPart(b.qty - s) = 0)
    BY <1>1 DEF PosPart
  <2>3. /\ r \in Position /\ r.complete = b.complete /\ r.qty = PosPart(b.qty - s)
        /\ r.cost = b.cost /\ r.realized = b.realized
    BY <2>1, <2>2 DEF Position
  <2> HIDE DEF r
  <2>4. b.complete /\ s <= b.qty /\ (s = 0 => x = 0) =>
          r.qty = b.qty - s /\ r.realized - r.cost = b.realized - b.cost + x
    BY <1>1, <1>2, <2>2, <2>3
  <2> QED BY <2>3, <2>4 DEF r
<1>3. CASE b.complete /\ b.qty # 0
  <2>1. take \in Nat /\ take <= b.qty /\ (s <= b.qty => take = s)
    BY <1>1 DEF Lesser
  <2>2. r = [b EXCEPT !.qty = @ - take, !.cost = @ - att, !.realized = @ + x - att]
    BY <1>3 DEF withdrawVault, realize
  <2> HIDE DEF take
  <2>3. att \in Int
    BY <1>1, <1>3, <2>1 DEF MulDivFloor
  <2> HIDE DEF att
  <2>4. b.qty - take \in Nat /\ b.cost - att \in Int /\ b.realized + x - att \in Int
    BY <1>1, <2>1, <2>3
  <2>5. /\ r \in Position /\ r.complete = b.complete /\ r.qty = b.qty - take
        /\ r.cost = b.cost - att /\ r.realized = b.realized + x - att
    BY <2>2, <2>4 DEF Position
  <2> HIDE DEF r
  <2>6. b.complete /\ s <= b.qty /\ (s = 0 => x = 0) =>
          r.qty = b.qty - s /\ r.realized - r.cost = b.realized - b.cost + x
    BY <1>1, <2>1, <2>3, <2>5
  <2> QED BY <2>5, <2>6 DEF r
<1> QED BY <1>1, <1>2, <1>3

LEMMA Withdrawn ==
  ASSUME NEW d \in VaultTables, NEW w \in Sharers, NEW x \in Nat, NEW s \in Nat
  PROVE  LET e == Withdraw(d, w, x, s)
         IN  /\ e \in VaultTables /\ OnlyPosition(d, e, w) /\ RowAdds(d, e, -x, -s)
             /\ e.positions[w] = withdrawVault(d.positions[w], x, s)
<1> DEFINE b == withdrawVault(d.positions[w], x, s)
           e == Withdraw(d, w, x, s)
<1>1. d.positions[w] \in Position
  BY DEF VaultTables
<1>2. b \in Position
  BY <1>1, WithdrawnPosition
<1>3. -x \in Int /\ -s \in Int
  OBVIOUS
<1>4. d.vaultRow \in VaultRow
  BY DEF VaultTables
<1>5. d.vaultRow.flowGusd - x = d.vaultRow.flowGusd + (-x) /\ d.vaultRow.shares - s = d.vaultRow.shares + (-s)
  BY <1>4 DEF VaultRow
<1>6. e = Placed(d, w, b, -x, -s)
  BY <1>5 DEF Withdraw, recordVaultWithdraw, VaultTables, Placed
<1> HIDE DEF b, e
<1>7. /\ e \in VaultTables /\ OnlyPosition(d, e, w) /\ RowAdds(d, e, -x, -s)
      /\ e.positions[w] = b
  BY <1>2, <1>3, <1>6, PositionPut
<1> QED BY <1>7 DEF b, e

-----------------------------------------------------------------------------
(* The tables beside the chain                                             *)

Mirrored ==
  /\ Inv
  /\ tables \in VaultTables
  /\ earned \in [Users -> Int] /\ given \in [Users -> Nat]
  /\ TablesFollowChain /\ CompleteBasisAccounts

(* A minted fee is moved by a Transfer of its own.                         *)
LEMMA FeeRow ==
  ASSUME NEW d \in VaultTables, NEW fee \in Nat, fee > 0 => revenueSink \in Holders
  PROVE  LET e == feeTransfer(d, fee)
         IN  /\ e \in VaultTables /\ OnlyGusd(d, e) /\ e.gusd = paidFee(d.gusd, fee)
             /\ d.ok => e.ok
<1>1. CASE fee > 0
  <2>1. feeTransfer(d, fee) = GusdTransfer(d, Zero, revenueSink, fee)
    BY <1>1 DEF feeTransfer
  <2>2. paidFee(d.gusd, fee) = credit(d.gusd, revenueSink, fee)
    BY <1>1 DEF paidFee
  <2> QED BY <1>1, <2>1, <2>2, GusdMinted
<1>2. CASE ~(fee > 0)
  BY <1>2 DEF feeTransfer, paidFee, OnlyGusd
<1> QED BY <1>1, <1>2

(* gusd.ts: Minted and Redeemed move the tape.                             *)
OnlyTape(d, e) ==
  /\ e.ok = d.ok /\ e.gusd = d.gusd /\ e.sgusd = d.sgusd
  /\ e.positions = d.positions /\ e.vaultRow = d.vaultRow
  /\ e.mirror = d.mirror /\ e.recipients = d.recipients

LEMMA Taped ==
  ASSUME NEW d \in VaultTables, NEW x \in Int, NEW fee \in Int
  PROVE  /\ Minted(d, x, fee) \in VaultTables /\ OnlyTape(d, Minted(d, x, fee))
         /\ Minted(d, x, fee).tape = d.tape + x + fee
         /\ Redeemed(d, x, fee) \in VaultTables /\ OnlyTape(d, Redeemed(d, x, fee))
         /\ Redeemed(d, x, fee).tape = d.tape - x + fee
<1>1. d.tape + x + fee \in Int /\ d.tape - x + fee \in Int
  BY DEF VaultTables
<1> QED BY <1>1 DEF Minted, Redeemed, VaultTables, OnlyTape

(* What no event of the token or the ledger changes in the vault's tables. *)
VaultKept ==
  /\ tables'.positions = tables.positions /\ tables'.sgusd = tables.sgusd
  /\ tables'.vaultRow.shares = tables.vaultRow.shares
  /\ tables'.vaultRow.flowGusd = tables.vaultRow.flowGusd
  /\ tables'.vaultRow.seededGusd = tables.vaultRow.seededGusd
  /\ UNCHANGED <<seeded, shares, shareSupply, earned, given>>

SettingsFollow ==
  /\ tables.mirror.mintFeeBps \in {Null, mintFeeBps}
  /\ tables.mirror.redeemFeeBps \in {Null, redeemFeeBps}
  /\ tables.mirror.sgusdSplitBps \in {Null, sgUSDBps}
  /\ tables.recipients = <<vault, treasury>>

(* The tape moves with what backs the dollar.                              *)
TapeMoves == tables'.tape = tables.tape + (reserve' - stray') - (reserve - stray)

LEMMA TapeFollows ==
  ASSUME Mirrored, Inv', TapeMoves
  PROVE  tables'.tape = SumOf(bal')
<1>1. tables.tape = SumOf(bal)
  BY DEF Mirrored, TablesFollowChain
<1>2. bal \in [Holders -> Nat] /\ bal' \in [Holders -> Nat]
  BY DEF Mirrored, Inv, TypeOK
<1>3. SumOf(bal) \in Nat /\ SumOf(bal') \in Nat
  BY <1>2, HoldersFinite, SumNat
<1>4. reserve = SumOf(bal) + stray /\ reserve' = SumOf(bal') + stray'
  BY DEF Mirrored, Inv, ReserveBacksSupply
<1>5. stray \in Nat /\ stray' \in Nat
  BY DEF Mirrored, Inv, TypeOK
<1> QED BY <1>1, <1>3, <1>4, <1>5 DEF TapeMoves

LEMMA DollarFollows ==
  ASSUME Mirrored, Inv', tables' \in VaultTables, tables'.ok, tables'.gusd = bal', TapeMoves,
         VaultKept, SettingsFollow', tables'.vaultRow.revenueGusd = totalToVault'
  PROVE  Mirrored'
<1>1. tables'.tape = SumOf(bal')
  BY TapeFollows
<1>2. earned' = earned /\ given' = given /\ shares' = shares
  BY DEF VaultKept
<1>3. Net(earned)' = Net(earned)
  BY <1>2 DEF Net
<1>4. TablesFollowChain'
  BY <1>1, <1>2, <1>3 DEF TablesFollowChain, Mirrored, VaultKept, SettingsFollow
<1>5. CompleteBasisAccounts'
  BY <1>2 DEF CompleteBasisAccounts, Mirrored, VaultKept
<1> QED BY <1>2, <1>4, <1>5 DEF Mirrored

(* What Mirrored says of types.                                            *)
LEMMA MirroredTypes ==
  ASSUME Mirrored
  PROVE  /\ tables \in VaultTables /\ tables.ok /\ tables.gusd = bal /\ tables.sgusd = shares
         /\ bal \in [Holders -> Nat] /\ shares \in [Sharers -> Nat]
         /\ reserve \in Nat /\ stray \in Nat /\ outside \in Nat /\ sgUSDBps \in 0..BPS
         /\ mintFeeBps \in 0..MaxFeeBps /\ redeemFeeBps \in 0..MaxFeeBps
         /\ tables.vaultRow.revenueGusd = totalToVault /\ totalToVault \in Nat
         /\ SettingsFollow
         /\ Users \subseteq Holders /\ Users \subseteq Sharers
         /\ "vault" \in Holders \ Users /\ "vault" \in Sharers /\ "ledger" \in Holders \ Users
BY GusdConstants DEF Mirrored, TablesFollowChain, SettingsFollow, Inv, TypeOK, Sharers, Holders

(* A fee that is taken has a sink.                                         *)
LEMMA FeeSinks ==
  ASSUME Mirrored, NEW x \in Nat, NEW f \in {mintFeeBps, redeemFeeBps}
  PROVE  /\ MulDivCeil(x, f, BPS) \in Nat /\ MulDivCeil(x, f, BPS) <= x
         /\ MulDivCeil(x, f, BPS) > 0 => revenueSink \in Holders
<1>1. f \in 0..MaxFeeBps
  BY MirroredTypes
<1>2. MulDivCeil(x, f, BPS) \in Nat /\ MulDivCeil(x, f, BPS) <= x
  BY <1>1, FeeWithin
<1>3. f = 0 => MulDivCeil(x, f, BPS) = 0
  BY NoRateNoFee
<1>4. f # 0 => revenueSink \in Holders
  BY DEF Mirrored, Inv, FeeHasSink, TypeOK, Holders
<1> QED BY <1>2, <1>3, <1>4

LEMMA MintFollows ==
  ASSUME Mirrored, Inv', NEW u \in Users, NEW x \in Amounts, IndexedMint(u, x),
         UNCHANGED <<ledgerVars, vaultVars>>
  PROVE  Mirrored'
<1> DEFINE fee == MulDivCeil(x, mintFeeBps, BPS)
           a == GusdTransfer(tables, Zero, u, x - fee)
           b == feeTransfer(a, fee)
           e == Minted(b, x - fee, fee)
<1>1. x \in Nat
  BY GusdConstants
<1>2. fee \in Nat /\ fee <= x /\ (fee > 0 => revenueSink \in Holders)
  BY <1>1, FeeSinks
<1>3. /\ bal' = paidFee(credit(bal, u, x - fee), fee)
      /\ reserve' = reserve + x /\ stray' = stray
      /\ UNCHANGED <<mintFeeBps, redeemFeeBps>>
      /\ tables' = e /\ UNCHANGED <<given, earned>>
  BY DEF IndexedMint, mint, netOut, indexed, quiet
<1> HIDE DEF fee
<1>4. x - fee \in Nat /\ u \in Holders
  BY <1>1, <1>2, MirroredTypes
<1>5. /\ a \in VaultTables /\ OnlyGusd(tables, a) /\ a.gusd = credit(bal, u, x - fee)
      /\ a.ok
  BY <1>4, MirroredTypes, GusdMinted
<1> HIDE DEF a
<1>6. /\ b \in VaultTables /\ OnlyGusd(a, b) /\ b.gusd = bal' /\ b.ok
  BY <1>2, <1>3, <1>5, FeeRow
<1> HIDE DEF b
<1>whole. x - fee \in Int /\ fee \in Int
  BY <1>2, <1>4
<1>7. e \in VaultTables /\ e.tape = b.tape + (x - fee) + fee /\ OnlyTape(b, e)
  BY <1>2, <1>4, <1>6, <1>whole, Taped DEF e
<1> HIDE DEF e
<1>8. tables.tape \in Int
  BY MirroredTypes DEF VaultTables
<1>9. tables' \in VaultTables /\ tables'.ok /\ tables'.gusd = bal'
  BY <1>3, <1>6, <1>7 DEF OnlyTape
<1>10. tables'.tape = tables.tape + x
  BY <1>1, <1>2, <1>3, <1>5, <1>6, <1>7, <1>8 DEF OnlyGusd
<1>11. TapeMoves
  BY <1>1, <1>3, <1>8, <1>10, MirroredTypes DEF TapeMoves
<1>12. /\ tables'.sgusd = tables.sgusd /\ tables'.positions = tables.positions
       /\ tables'.vaultRow = tables.vaultRow /\ tables'.mirror = tables.mirror
       /\ tables'.recipients = tables.recipients
  BY <1>3, <1>5, <1>6, <1>7 DEF OnlyGusd, OnlyTape
<1>13. VaultKept
  BY <1>3, <1>12 DEF VaultKept, vaultVars
<1>14. SettingsFollow' /\ tables'.vaultRow.revenueGusd = totalToVault'
  BY <1>3, <1>12, MirroredTypes DEF SettingsFollow, ledgerVars
<1> QED BY <1>9, <1>11, <1>13, <1>14, DollarFollows

LEMMA RedeemFollows ==
  ASSUME Mirrored, Inv', NEW u \in Users, NEW x \in Amounts, IndexedRedeem(u, x),
         UNCHANGED <<ledgerVars, vaultVars>>
  PROVE  Mirrored'
<1> DEFINE fee == MulDivCeil(x, redeemFeeBps, BPS)
           a == GusdTransfer(tables, u, Zero, x)
           b == feeTransfer(a, fee)
           e == Redeemed(b, x, fee)
<1>1. x \in Nat
  BY GusdConstants
<1>2. fee \in Nat /\ fee <= x /\ (fee > 0 => revenueSink \in Holders)
  BY <1>1, FeeSinks
<1>3. /\ x <= bal[u]
      /\ bal' = paidFee(debit(bal, u, x), fee)
      /\ reserve' = reserve - (x - fee) /\ stray' = stray
      /\ UNCHANGED <<mintFeeBps, redeemFeeBps>>
      /\ tables' = e /\ UNCHANGED <<given, earned>>
  BY DEF IndexedRedeem, redeem, netOut, indexed, quiet
<1> HIDE DEF fee
<1>4. u \in Holders
  BY MirroredTypes
<1>5. /\ a \in VaultTables /\ OnlyGusd(tables, a) /\ a.gusd = debit(bal, u, x)
      /\ a.ok
  BY <1>1, <1>3, <1>4, MirroredTypes, GusdBurned
<1> HIDE DEF a
<1>6. /\ b \in VaultTables /\ OnlyGusd(a, b) /\ b.gusd = bal' /\ b.ok
  BY <1>2, <1>3, <1>5, FeeRow
<1> HIDE DEF b
<1>whole. x \in Int /\ fee \in Int
  BY <1>1, <1>2
<1>7. e \in VaultTables /\ e.tape = b.tape - x + fee /\ OnlyTape(b, e)
  BY <1>1, <1>2, <1>6, <1>whole, Taped DEF e
<1> HIDE DEF e
<1>8. tables.tape \in Int
  BY MirroredTypes DEF VaultTables
<1>9. tables' \in VaultTables /\ tables'.ok /\ tables'.gusd = bal'
  BY <1>3, <1>6, <1>7 DEF OnlyTape
<1>10. tables'.tape = tables.tape - x + fee
  BY <1>1, <1>2, <1>3, <1>5, <1>6, <1>7, <1>8 DEF OnlyGusd
<1>11. TapeMoves
  BY <1>1, <1>2, <1>3, <1>8, <1>10, MirroredTypes DEF TapeMoves
<1>12. /\ tables'.sgusd = tables.sgusd /\ tables'.positions = tables.positions
       /\ tables'.vaultRow = tables.vaultRow /\ tables'.mirror = tables.mirror
       /\ tables'.recipients = tables.recipients
  BY <1>3, <1>5, <1>6, <1>7 DEF OnlyGusd, OnlyTape
<1>13. VaultKept
  BY <1>3, <1>12 DEF VaultKept, vaultVars
<1>14. SettingsFollow' /\ tables'.vaultRow.revenueGusd = totalToVault'
  BY <1>3, <1>12, MirroredTypes DEF SettingsFollow, ledgerVars
<1> QED BY <1>9, <1>11, <1>13, <1>14, DollarFollows

(* A plain move of gUSD: a transfer, or what the engine takes.             *)
LEMMA MoveFollows ==
  ASSUME Mirrored, Inv', NEW f \in Holders, NEW t \in Holders, NEW x \in Nat, x <= bal[f],
         bal' = moved(bal, f, t, x), tables' = GusdTransfer(tables, f, t, x),
         UNCHANGED <<reserve, stray, mintFeeBps, redeemFeeBps, ledgerVars, seeded, shares,
                     shareSupply, earned, given>>
  PROVE  Mirrored'
<1>1. /\ tables' \in VaultTables /\ OnlyGusd(tables, tables') /\ tables'.gusd = bal' /\ tables'.ok
  BY MirroredTypes, GusdMoved
<1>2. tables.tape \in Int
  BY MirroredTypes DEF VaultTables
<1>3. TapeMoves
  BY <1>1, <1>2, MirroredTypes DEF TapeMoves, OnlyGusd
<1>4. VaultKept
  BY <1>1 DEF VaultKept, OnlyGusd
<1>5. SettingsFollow' /\ tables'.vaultRow.revenueGusd = totalToVault'
  BY <1>1, MirroredTypes DEF SettingsFollow, ledgerVars, OnlyGusd
<1> QED BY <1>1, <1>3, <1>4, <1>5, DollarFollows

(* Settings: the handler writes the columns of the setting, and no other.  *)
OnlySettings(d, e) ==
  /\ e.ok = d.ok /\ e.gusd = d.gusd /\ e.sgusd = d.sgusd
  /\ e.positions = d.positions /\ e.vaultRow = d.vaultRow /\ e.tape = d.tape

LEMMA SettingFollows ==
  ASSUME Mirrored, Inv', tables' \in VaultTables, OnlySettings(tables, tables'),
         UNCHANGED <<bal, reserve, stray, totalToVault, seeded, shares, shareSupply,
                     earned, given>>,
         SettingsFollow'
  PROVE  Mirrored'
<1>1. tables' \in VaultTables /\ tables'.ok /\ tables'.gusd = bal'
  BY MirroredTypes DEF OnlySettings
<1>2. tables.tape \in Int
  BY MirroredTypes DEF VaultTables
<1>3. TapeMoves
  BY <1>2, MirroredTypes DEF TapeMoves, OnlySettings
<1>4. VaultKept /\ tables'.vaultRow.revenueGusd = totalToVault'
  BY MirroredTypes DEF VaultKept, OnlySettings
<1> QED BY <1>1, <1>3, <1>4, DollarFollows

LEMMA SettingsPut ==
  ASSUME NEW d \in VaultTables, NEW m \in Nat, NEW r \in Nat,
         NEW v \in {None, "vault"}, NEW t \in {None, "treasury"}
  PROVE  /\ FeesUpdated(d, m, r) \in VaultTables /\ OnlySettings(d, FeesUpdated(d, m, r))
         /\ FeesUpdated(d, m, r).mirror.mintFeeBps = m
         /\ FeesUpdated(d, m, r).mirror.redeemFeeBps = r
         /\ FeesUpdated(d, m, r).mirror.sgusdSplitBps = d.mirror.sgusdSplitBps
         /\ FeesUpdated(d, m, r).recipients = d.recipients
         /\ SplitUpdated(d, m) \in VaultTables /\ OnlySettings(d, SplitUpdated(d, m))
         /\ SplitUpdated(d, m).mirror.mintFeeBps = d.mirror.mintFeeBps
         /\ SplitUpdated(d, m).mirror.redeemFeeBps = d.mirror.redeemFeeBps
         /\ SplitUpdated(d, m).mirror.sgusdSplitBps = m
         /\ SplitUpdated(d, m).recipients = d.recipients
         /\ RecipientsUpdated(d, v, t) \in VaultTables
         /\ OnlySettings(d, RecipientsUpdated(d, v, t))
         /\ RecipientsUpdated(d, v, t).mirror = d.mirror
         /\ RecipientsUpdated(d, v, t).recipients = <<v, t>>
<1>1. <<v, t>> \in {None, "vault"} \X {None, "treasury"}
  OBVIOUS
<1>2. /\ RecipientsUpdated(d, v, t) \in VaultTables
      /\ OnlySettings(d, RecipientsUpdated(d, v, t))
      /\ RecipientsUpdated(d, v, t).mirror = d.mirror
      /\ RecipientsUpdated(d, v, t).recipients = <<v, t>>
  BY <1>1 DEF RecipientsUpdated, VaultTables, OnlySettings
<1>3. /\ FeesUpdated(d, m, r) \in VaultTables /\ OnlySettings(d, FeesUpdated(d, m, r))
      /\ FeesUpdated(d, m, r).mirror.mintFeeBps = m
      /\ FeesUpdated(d, m, r).mirror.redeemFeeBps = r
      /\ FeesUpdated(d, m, r).mirror.sgusdSplitBps = d.mirror.sgusdSplitBps
      /\ FeesUpdated(d, m, r).recipients = d.recipients
  <2> DEFINE N == [d.mirror EXCEPT !.mintFeeBps = m, !.redeemFeeBps = r]
  <2>1. d.mirror \in [mintFeeBps : Int, redeemFeeBps : Int, sgusdSplitBps : Int]
    BY DEF VaultTables
  <2>2. /\ N \in [mintFeeBps : Int, redeemFeeBps : Int, sgusdSplitBps : Int]
        /\ N.mintFeeBps = m /\ N.redeemFeeBps = r /\ N.sgusdSplitBps = d.mirror.sgusdSplitBps
    <3> DEFINE x == d.mirror
    <3>1. m \in Int /\ r \in Int /\ x \in [mintFeeBps : Int, redeemFeeBps : Int, sgusdSplitBps : Int]
      BY <2>1
    <3> HIDE DEF x
    <3>2. N = [x EXCEPT !.mintFeeBps = m, !.redeemFeeBps = r]
      BY DEF x
    <3> HIDE DEF N
    <3> QED BY <3>1, <3>2 DEF x
  <2>3. FeesUpdated(d, m, r) = [d EXCEPT !.mirror = N]
    BY DEF FeesUpdated, VaultTables
  <2> HIDE DEF N
  <2> QED BY <2>2, <2>3 DEF VaultTables, OnlySettings
<1>4. /\ SplitUpdated(d, m) \in VaultTables /\ OnlySettings(d, SplitUpdated(d, m))
      /\ SplitUpdated(d, m).mirror.mintFeeBps = d.mirror.mintFeeBps
      /\ SplitUpdated(d, m).mirror.redeemFeeBps = d.mirror.redeemFeeBps
      /\ SplitUpdated(d, m).mirror.sgusdSplitBps = m
      /\ SplitUpdated(d, m).recipients = d.recipients
  BY DEF SplitUpdated, VaultTables, OnlySettings
<1> QED BY <1>2, <1>3, <1>4

LEMMA GusdFollows ==
  ASSUME Mirrored, Inv', GusdEvents, UNCHANGED <<ledgerVars, vaultVars>>
  PROVE  Mirrored'
<1>0. /\ UNCHANGED <<seeded, shares, shareSupply, totalToVault, sgUSDBps, vault, treasury>>
  BY DEF ledgerVars, vaultVars
<1>1. ASSUME NEW m \in Fees, NEW r \in Fees, setFees(m, r), indexed(FeesUpdated(tables, m, r)), quiet
      PROVE  Mirrored'
  <2>1. m \in Nat /\ r \in Nat /\ None \in {None, "vault"} /\ None \in {None, "treasury"}
    BY GusdConstants
  <2>2. /\ mintFeeBps' = m /\ redeemFeeBps' = r /\ UNCHANGED <<bal, reserve, stray, earned, given>>
        /\ tables' = FeesUpdated(tables, m, r)
    BY <1>1 DEF setFees, indexed, quiet
  <2>3. /\ tables' \in VaultTables /\ OnlySettings(tables, tables')
        /\ tables'.mirror.mintFeeBps = m /\ tables'.mirror.redeemFeeBps = r
        /\ tables'.mirror.sgusdSplitBps = tables.mirror.sgusdSplitBps
        /\ tables'.recipients = tables.recipients
    <3>1. tables \in VaultTables
      BY MirroredTypes
    <3> QED BY ONLY <2>1, <2>2, <3>1, SettingsPut
  <2>4. SettingsFollow'
    BY <1>0, <2>2, <2>3, MirroredTypes DEF SettingsFollow
  <2> QED BY <1>0, <2>2, <2>3, <2>4, SettingFollows
<1>2. ASSUME NEW u \in Users, NEW x \in Amounts, NEW h \in {"ledger", "vault"},
             transfer(u, h, x), indexed(GusdTransfer(tables, u, h, x)), quiet
      PROVE  Mirrored'
  <2>1. x \in Nat /\ u \in Holders /\ h \in Holders
    BY GusdConstants, MirroredTypes
  <2>2. /\ x <= bal[u] /\ bal' = moved(bal, u, h, x) /\ tables' = GusdTransfer(tables, u, h, x)
        /\ UNCHANGED <<reserve, stray, mintFeeBps, redeemFeeBps, earned, given>>
    BY <1>2 DEF transfer, indexed, quiet
  <2> QED BY <1>0, <2>1, <2>2, MoveFollows
<1>3. CASE (setRevenueSink("ledger") \/ \E x \in Amounts : transferReserve(x)) /\ UNCHANGED indexVars
  <2>1. /\ UNCHANGED <<bal, mintFeeBps, redeemFeeBps, tables, earned, given>>
        /\ reserve' - stray' = reserve - stray
    <3>1. Amounts \subseteq Nat /\ reserve \in Nat /\ stray \in Nat
      BY GusdConstants, MirroredTypes
    <3> QED BY <1>3, <3>1 DEF setRevenueSink, transferReserve, indexVars
  <2>2. tables' \in VaultTables /\ tables'.ok /\ tables'.gusd = bal' /\ SettingsFollow'
        /\ tables'.vaultRow.revenueGusd = totalToVault'
    BY <1>0, <2>1, MirroredTypes DEF SettingsFollow
  <2>3. tables.tape \in Int /\ reserve \in Nat /\ stray \in Nat /\ reserve' \in Nat /\ stray' \in Nat
    BY MirroredTypes DEF VaultTables, Inv, TypeOK
  <2>4. TapeMoves
    <3> DEFINE k == reserve - stray
    <3>1. tables' = tables
      BY <2>1
    <3>2. tables'.tape = tables.tape
      BY ONLY <3>1
    <3>3. reserve' - stray' = k
      BY <2>1
    <3>4. k \in Int
      BY <2>3
    <3>5. TapeMoves <=> tables'.tape = tables.tape + k - k
      BY <3>3 DEF TapeMoves
    <3> HIDE DEF k
    <3> QED BY <2>3, <3>2, <3>4, <3>5
  <2>5. VaultKept
    BY <1>0, <2>1 DEF VaultKept
  <2> QED BY <2>2, <2>4, <2>5, DollarFollows
<1> QED BY <1>1, <1>2, <1>3, MintFollows, RedeemFollows DEF GusdEvents

(* ledger.ts: Distributed counts the vault's part of the two transfers.    *)
LEMMA DistributeFollows ==
  ASSUME Mirrored, Inv', IndexedDistribute, UNCHANGED vaultVars
  PROVE  Mirrored'
<1> DEFINE amt == bal["ledger"]
           tv == toVaultShare(amt)
           a == GusdTransfer(tables, "ledger", vault, tv)
           b == GusdTransfer(a, "ledger", treasury, amt - tv)
           e == Distributed(b, tv)
<1>1. amt \in Nat /\ tables.gusd = bal /\ "ledger" \in Holders
  BY MirroredTypes
<1>2. /\ vault # None /\ treasury # None /\ totalToVault' = totalToVault + tv
      /\ bal' = moved(moved(bal, "ledger", vault, tv), "ledger", treasury, amt - tv)
      /\ UNCHANGED <<vault, treasury, sgUSDBps, reserve, stray, mintFeeBps, redeemFeeBps>>
      /\ tables' = e /\ UNCHANGED <<given, earned>>
  BY DEF IndexedDistribute, distribute, indexed, quiet
<1>3. vault = "vault" /\ treasury = "treasury"
  BY <1>2 DEF Mirrored, Inv, TypeOK
<1>4. vault \in Holders /\ treasury \in Holders /\ vault # "ledger"
  BY <1>3 DEF Holders
<1>5. tv \in Nat /\ tv <= amt
  <2>1. sgUSDBps \in Nat /\ sgUSDBps <= BPS /\ BPS \in Nat \ {0}
    BY MirroredTypes, GusdConstants
  <2> QED BY <1>1, <2>1, FloorBelow, FloorShare DEF toVaultShare
<1> HIDE DEF tv
<1>6. /\ a \in VaultTables /\ OnlyGusd(tables, a) /\ a.gusd = moved(bal, "ledger", vault, tv)
      /\ a.ok
  BY <1>1, <1>4, <1>5, MirroredTypes, GusdMoved
<1>7. a.gusd["ledger"] = amt - tv
  BY <1>1, <1>4, <1>5, <1>6, MirroredTypes DEF moved, debit, credit
<1> HIDE DEF a, amt
<1>8. amt - tv \in Nat
  BY <1>1, <1>5
<1>9. /\ b \in VaultTables /\ OnlyGusd(a, b) /\ b.gusd = bal' /\ b.ok
  BY <1>1, <1>2, <1>4, <1>6, <1>7, <1>8, GusdMoved
<1> HIDE DEF b
<1>10. b.vaultRow \in VaultRow /\ b.vaultRow.revenueGusd + tv \in Int
  BY <1>5, <1>9 DEF VaultTables, VaultRow
<1>11. /\ e \in VaultTables /\ OnlyPosition(b, e, "vault") /\ e.positions = b.positions
       /\ e.vaultRow.revenueGusd = b.vaultRow.revenueGusd + tv
       /\ e.vaultRow.shares = b.vaultRow.shares /\ e.vaultRow.flowGusd = b.vaultRow.flowGusd
       /\ e.vaultRow.seededGusd = b.vaultRow.seededGusd
  BY <1>9, <1>10 DEF Distributed, VaultTables, VaultRow, OnlyPosition
<1> HIDE DEF e
<1>12. tables'.tape = tables.tape /\ tables.tape \in Int
  BY <1>2, <1>6, <1>9, <1>11, MirroredTypes DEF OnlyGusd, OnlyPosition, VaultTables
<1>13. TapeMoves
  BY <1>2, <1>12, MirroredTypes DEF TapeMoves
<1>14. tables' \in VaultTables /\ tables'.ok /\ tables'.gusd = bal'
  BY <1>2, <1>9, <1>11 DEF OnlyPosition
<1>15. VaultKept /\ tables'.vaultRow.revenueGusd = totalToVault'
  BY <1>2, <1>6, <1>9, <1>11, MirroredTypes DEF VaultKept, vaultVars, OnlyGusd, OnlyPosition
<1>16. SettingsFollow'
  BY <1>2, <1>6, <1>9, <1>11, MirroredTypes DEF SettingsFollow, OnlyGusd, OnlyPosition
<1> QED BY <1>13, <1>14, <1>15, <1>16, DollarFollows

LEMMA LedgerFollows ==
  ASSUME Mirrored, Inv', LedgerEvents, UNCHANGED vaultVars
  PROVE  Mirrored'
<1>0. UNCHANGED <<seeded, shares, shareSupply>>
  BY DEF vaultVars
<1>1. vault \in {None, "vault"} /\ treasury \in {None, "treasury"} /\ tables \in VaultTables
  BY MirroredTypes DEF Mirrored, Inv, TypeOK
<1>2. CASE setVault /\ mirrored(RecipientsUpdated(tables, vault', treasury))
  <2>1. /\ vault' = "vault" /\ tables' = RecipientsUpdated(tables, "vault", treasury)
        /\ UNCHANGED <<bal, reserve, stray, totalToVault, earned, given, mintFeeBps, redeemFeeBps,
                       sgUSDBps, treasury>>
    BY <1>2 DEF setVault, mirrored, gusdVars
  <2>2. 0 \in Nat /\ "vault" \in {None, "vault"}
    OBVIOUS
  <2>3. /\ tables' \in VaultTables /\ OnlySettings(tables, tables')
        /\ tables'.mirror = tables.mirror /\ tables'.recipients = <<"vault", treasury>>
    BY ONLY <1>1, <2>1, <2>2, SettingsPut
  <2>4. SettingsFollow'
    BY <2>1, <2>3, MirroredTypes DEF SettingsFollow
  <2> QED BY <1>0, <2>1, <2>3, <2>4, SettingFollows
<1>3. CASE setTreasury /\ mirrored(RecipientsUpdated(tables, vault, treasury'))
  <2>1. /\ treasury' = "treasury" /\ tables' = RecipientsUpdated(tables, vault, "treasury")
        /\ UNCHANGED <<bal, reserve, stray, totalToVault, earned, given, mintFeeBps, redeemFeeBps,
                       sgUSDBps, vault>>
    BY <1>3 DEF setTreasury, mirrored, gusdVars
  <2>2. 0 \in Nat /\ "treasury" \in {None, "treasury"}
    OBVIOUS
  <2>3. /\ tables' \in VaultTables /\ OnlySettings(tables, tables')
        /\ tables'.mirror = tables.mirror /\ tables'.recipients = <<vault, "treasury">>
    BY ONLY <1>1, <2>1, <2>2, SettingsPut
  <2>4. SettingsFollow'
    BY <2>1, <2>3, MirroredTypes DEF SettingsFollow
  <2> QED BY <1>0, <2>1, <2>3, <2>4, SettingFollows
<1>4. ASSUME NEW b \in Splits, setSplit(b), indexed(SplitUpdated(tables, b)), quiet
      PROVE  Mirrored'
  <2>1. b \in Nat /\ None \in {None, "vault"} /\ None \in {None, "treasury"}
    BY SplitConstants
  <2>2. /\ sgUSDBps' = b /\ tables' = SplitUpdated(tables, b)
        /\ UNCHANGED <<bal, reserve, stray, totalToVault, earned, given, mintFeeBps, redeemFeeBps,
                       vault, treasury>>
    BY <1>4 DEF setSplit, indexed, quiet, gusdVars
  <2>3. /\ tables' \in VaultTables /\ OnlySettings(tables, tables')
        /\ tables'.mirror.mintFeeBps = tables.mirror.mintFeeBps
        /\ tables'.mirror.redeemFeeBps = tables.mirror.redeemFeeBps
        /\ tables'.mirror.sgusdSplitBps = b
        /\ tables'.recipients = tables.recipients
    BY ONLY <1>1, <2>1, <2>2, SettingsPut
  <2>4. SettingsFollow'
    BY <2>2, <2>3, MirroredTypes DEF SettingsFollow
  <2> QED BY <1>0, <2>2, <2>3, <2>4, SettingFollows
<1> QED BY <1>2, <1>3, <1>4, DistributeFollows DEF LedgerEvents

-----------------------------------------------------------------------------
(* The vault's events                                                      *)

(* A mint or burn of shares is no move between wallets.                    *)
LEMMA SharesMinted ==
  ASSUME NEW d \in VaultTables, NEW k \in Sharers, NEW s \in Nat
  PROVE  LET e == SgusdTransfer(d, Zero, k, s)
         IN  /\ e \in VaultTables /\ OnlySgusd(d, e) /\ e.sgusd = credit(d.sgusd, k, s)
             /\ d.ok => e.ok
             /\ \A h \in Sharers : e.positions[h] = d.positions[h]
<1>1. d.sgusd \in [Sharers -> Int] /\ k # Zero /\ Zero \notin Users
  BY ZeroApart, UsersNotZero DEF VaultTables
<1>2. transferred(d.sgusd, Zero, k, s) = credit(d.sgusd, k, s)
  BY <1>1 DEF transferred, credit
<1>3. credit(d.sgusd, k, s) \in [Sharers -> Int]
  BY <1>1 DEF credit
<1>4. ~underflows(d.sgusd, Zero, s) /\ ~isWalletMove(Zero, k)
  BY <1>1 DEF underflows, isWalletMove
<1> QED BY <1>2, <1>3, <1>4, SgusdRow

LEMMA SharesBurned ==
  ASSUME NEW d \in VaultTables, NEW k \in Sharers, NEW s \in Nat, s <= d.sgusd[k]
  PROVE  LET e == SgusdTransfer(d, k, Zero, s)
         IN  /\ e \in VaultTables /\ OnlySgusd(d, e) /\ e.sgusd = debit(d.sgusd, k, s)
             /\ d.ok => e.ok
             /\ \A h \in Sharers : e.positions[h] = d.positions[h]
<1>1. d.sgusd \in [Sharers -> Int] /\ k # Zero /\ Zero \notin Users
  BY ZeroApart, UsersNotZero DEF VaultTables
<1>2. transferred(d.sgusd, k, Zero, s) = debit(d.sgusd, k, s)
  BY <1>1 DEF transferred, debit
<1>3. debit(d.sgusd, k, s) \in [Sharers -> Int]
  BY <1>1 DEF debit
<1>4. ~underflows(d.sgusd, k, s) /\ ~isWalletMove(k, Zero)
  BY <1>1 DEF underflows, isWalletMove
<1> QED BY <1>2, <1>3, <1>4, SgusdRow

LEMMA SharesMoved ==
  ASSUME NEW d \in VaultTables, NEW f \in Sharers, NEW t \in Sharers, NEW s \in Nat,
         s <= d.sgusd[f]
  PROVE  LET e == SgusdTransfer(d, f, t, s)
         IN  /\ e \in VaultTables /\ OnlySgusd(d, e) /\ e.sgusd = moved(d.sgusd, f, t, s)
             /\ d.ok => e.ok
             /\ isWalletMove(f, t) => ~e.positions[f].complete /\ ~e.positions[t].complete
             /\ \A h \in Sharers : ~(isWalletMove(f, t) /\ h \in {f, t}) =>
                                     e.positions[h] = d.positions[h]
<1>1. d.sgusd \in [Sharers -> Int] /\ f # Zero /\ t # Zero
  BY ZeroApart DEF VaultTables
<1>2. transferred(d.sgusd, f, t, s) = moved(d.sgusd, f, t, s)
  BY <1>1 DEF transferred, moved, debit, credit
<1>3. moved(d.sgusd, f, t, s) \in [Sharers -> Int]
  BY <1>1 DEF moved, debit, credit
<1>4. ~underflows(d.sgusd, f, s)
  BY <1>1 DEF underflows
<1> QED BY <1>2, <1>3, <1>4, SgusdRow

(* _deposit: gUSD in, shares minted, Deposit.                              *)
LEMMA EnteredRows ==
  ASSUME Mirrored, NEW u \in Users, NEW k \in Sharers, NEW a \in Nat, NEW s \in Nat, a <= bal[u]
  PROVE  LET e == entered(u, k, a, s)
         IN  /\ e \in VaultTables /\ e.ok /\ e.gusd = moved(bal, u, "vault", a)
             /\ e.sgusd = credit(shares, k, s)
             /\ e.tape = tables.tape /\ e.mirror = tables.mirror
             /\ e.recipients = tables.recipients
             /\ RowAdds(tables, e, IF k = "vault" THEN 0 ELSE a, s)
             /\ \A h \in Sharers \ {k} : e.positions[h] = tables.positions[h]
             /\ e.positions[k].qty = tables.positions[k].qty + s
             /\ e.positions[k].cost = tables.positions[k].cost + a
             /\ e.positions[k].realized = tables.positions[k].realized
             /\ e.positions[k].complete = tables.positions[k].complete
<1> DEFINE g == GusdTransfer(tables, u, "vault", a)
           m == SgusdTransfer(g, Zero, k, s)
           e == Deposit(m, k, a, s)
<1>1. u \in Holders /\ "vault" \in Holders /\ tables.gusd = bal /\ tables.sgusd = shares
      /\ tables \in VaultTables /\ tables.ok /\ a \in Int
  BY MirroredTypes
<1>2. g \in VaultTables /\ OnlyGusd(tables, g) /\ g.gusd = moved(bal, u, "vault", a) /\ g.ok
  BY <1>1, GusdMoved
<1> HIDE DEF g
<1>3. /\ m \in VaultTables /\ OnlySgusd(g, m) /\ m.sgusd = credit(g.sgusd, k, s) /\ m.ok
      /\ \A h \in Sharers : m.positions[h] = g.positions[h]
  BY <1>2, SharesMinted
<1> HIDE DEF m
<1>4. /\ e \in VaultTables /\ OnlyPosition(m, e, k)
      /\ RowAdds(m, e, IF k = "vault" THEN 0 ELSE a, s)
      /\ e.positions[k].qty = m.positions[k].qty + s
      /\ e.positions[k].cost = m.positions[k].cost + a
      /\ e.positions[k].realized = m.positions[k].realized
      /\ e.positions[k].complete = m.positions[k].complete
  BY <1>1, <1>3, Deposited
<1>5. entered(u, k, a, s) = e
  BY DEF entered, m, g
<1> HIDE DEF e
<1>6. \A h \in Sharers : m.positions[h] = tables.positions[h]
  BY <1>2, <1>3 DEF OnlyGusd
<1>7. /\ m.vaultRow = tables.vaultRow /\ m.sgusd = credit(shares, k, s)
      /\ m.gusd = moved(bal, u, "vault", a) /\ m.tape = tables.tape
      /\ m.mirror = tables.mirror /\ m.recipients = tables.recipients
  BY <1>1, <1>2, <1>3 DEF OnlyGusd, OnlySgusd
<1>8. RowAdds(tables, e, IF k = "vault" THEN 0 ELSE a, s)
  BY <1>4, <1>7 DEF RowAdds
<1>9. /\ e.ok /\ e.gusd = moved(bal, u, "vault", a) /\ e.sgusd = credit(shares, k, s)
      /\ e.tape = tables.tape /\ e.mirror = tables.mirror /\ e.recipients = tables.recipients
  BY <1>3, <1>4, <1>7 DEF OnlyPosition
<1>10. /\ \A h \in Sharers \ {k} : e.positions[h] = tables.positions[h]
       /\ e.positions[k].qty = tables.positions[k].qty + s
       /\ e.positions[k].cost = tables.positions[k].cost + a
       /\ e.positions[k].realized = tables.positions[k].realized
       /\ e.positions[k].complete = tables.positions[k].complete
  BY <1>4, <1>6 DEF OnlyPosition
<1> QED BY <1>4, <1>5, <1>8, <1>9, <1>10

(* _withdraw: shares burned, gUSD out, Withdraw.                           *)
LEMMA LeftRows ==
  ASSUME Mirrored, NEW u \in Users, NEW a \in Nat, NEW s \in Nat,
         a <= bal["vault"], s <= shares[u]
  PROVE  LET e == left(u, a, s)
         IN  /\ e \in VaultTables /\ e.ok /\ e.gusd = moved(bal, "vault", u, a)
             /\ e.sgusd = debit(shares, u, s)
             /\ e.tape = tables.tape /\ e.mirror = tables.mirror
             /\ e.recipients = tables.recipients
             /\ RowAdds(tables, e, -a, -s)
             /\ \A h \in Sharers \ {u} : e.positions[h] = tables.positions[h]
             /\ e.positions[u] = withdrawVault(tables.positions[u], a, s)
<1> DEFINE m == SgusdTransfer(tables, u, Zero, s)
           g == GusdTransfer(m, "vault", u, a)
           e == Withdraw(g, u, a, s)
<1>1. u \in Holders /\ u \in Sharers /\ "vault" \in Holders /\ tables.gusd = bal
      /\ tables.sgusd = shares /\ tables \in VaultTables /\ tables.ok
  BY MirroredTypes
<1>2. /\ m \in VaultTables /\ OnlySgusd(tables, m) /\ m.sgusd = debit(shares, u, s) /\ m.ok
      /\ \A h \in Sharers : m.positions[h] = tables.positions[h]
  BY <1>1, SharesBurned
<1> HIDE DEF m
<1>3. m.gusd = bal
  BY <1>1, <1>2 DEF OnlySgusd
<1>4. g \in VaultTables /\ OnlyGusd(m, g) /\ g.gusd = moved(bal, "vault", u, a) /\ g.ok
  BY <1>1, <1>2, <1>3, GusdMoved
<1> HIDE DEF g
<1>5. /\ e \in VaultTables /\ OnlyPosition(g, e, u) /\ RowAdds(g, e, -a, -s)
      /\ e.positions[u] = withdrawVault(g.positions[u], a, s)
  BY <1>1, <1>4, Withdrawn
<1>6. left(u, a, s) = e
  BY DEF left, m, g
<1> HIDE DEF e
<1>7. /\ g.vaultRow = tables.vaultRow /\ g.sgusd = debit(shares, u, s)
      /\ g.tape = tables.tape /\ g.mirror = tables.mirror /\ g.recipients = tables.recipients
      /\ g.positions = m.positions
  BY <1>1, <1>2, <1>4 DEF OnlyGusd, OnlySgusd
<1>8. RowAdds(tables, e, -a, -s)
  BY <1>5, <1>7 DEF RowAdds
<1>9. /\ e.ok /\ e.gusd = moved(bal, "vault", u, a) /\ e.sgusd = debit(shares, u, s)
      /\ e.tape = tables.tape /\ e.mirror = tables.mirror /\ e.recipients = tables.recipients
  BY <1>4, <1>5, <1>7 DEF OnlyPosition
<1>10. /\ \A h \in Sharers \ {u} : e.positions[h] = tables.positions[h]
       /\ e.positions[u] = withdrawVault(tables.positions[u], a, s)
  BY <1>1, <1>2, <1>5, <1>7 DEF OnlyPosition
<1> QED BY <1>5, <1>6, <1>8, <1>9, <1>10

(* What a step of the vault leaves alone, and what is left to show.        *)
LEMMA VaultFollows ==
  ASSUME Mirrored, Inv', tables' \in VaultTables, tables'.ok, tables'.gusd = bal',
         tables'.sgusd = shares', tables'.tape = tables.tape, tables'.mirror = tables.mirror,
         tables'.recipients = tables.recipients, UNCHANGED <<gusdRest, ledgerVars>>,
         tables'.vaultRow.shares = shareSupply',
         tables'.vaultRow.revenueGusd = tables.vaultRow.revenueGusd,
         tables'.vaultRow.flowGusd = -Net(earned'),
         tables'.vaultRow.seededGusd > 0 <=> seeded',
         earned' \in [Users -> Int], given' \in [Users -> Nat], CompleteBasisAccounts'
  PROVE  Mirrored'
<1>1. reserve' = reserve /\ stray' = stray /\ mintFeeBps' = mintFeeBps
      /\ redeemFeeBps' = redeemFeeBps
  BY DEF gusdRest
<1>2. vault' = vault /\ treasury' = treasury /\ sgUSDBps' = sgUSDBps /\ totalToVault' = totalToVault
  BY DEF ledgerVars
<1>3. tables.tape \in Int /\ reserve \in Nat /\ stray \in Nat
  BY MirroredTypes DEF VaultTables
<1>4. TapeMoves
  BY <1>1, <1>3 DEF TapeMoves
<1>5. tables'.tape = SumOf(bal')
  BY <1>4, TapeFollows
<1>6. SettingsFollow
  BY MirroredTypes
<1>7. SettingsFollow'
  BY <1>1, <1>2, <1>6 DEF SettingsFollow
<1>8. tables'.vaultRow.revenueGusd = totalToVault'
  BY <1>2, MirroredTypes
<1>9. TablesFollowChain'
  BY <1>5, <1>7, <1>8 DEF TablesFollowChain, SettingsFollow
<1> QED BY <1>9 DEF Mirrored

LEMMA UsersFinite == IsFiniteSet(Users)
BY GusdConstants

(* What a user took out or put in changes the flow by as much.             *)
LEMMA Earns ==
  ASSUME Mirrored, NEW u \in Users, NEW x \in Int, earned' = [earned EXCEPT ![u] = @ + x]
  PROVE  /\ earned' \in [Users -> Int] /\ earned'[u] = earned[u] + x
         /\ \A v \in Users \ {u} : earned'[v] = earned[v]
         /\ tables.vaultRow.flowGusd - x = -Net(earned')
<1>1. earned \in [Users -> Int] /\ tables.vaultRow.flowGusd = -Net(earned)
  BY DEF Mirrored, TablesFollowChain
<1>2. Net(earned) \in Int /\ Net(earned') = Net(earned) + x
  BY <1>1, UsersFinite, NetChange
<1> QED BY <1>1, <1>2

(* A deposit or mint of shares by a wallet for itself.                     *)
LEMMA EnterFollows ==
  ASSUME Mirrored, Inv', NEW u \in Users, NEW a \in Nat, NEW s \in Nat,
         Enter(u, u, a, s), seeded' = seeded, tables' = entered(u, u, a, s), earns(u, -a)
  PROVE  Mirrored'
<1>1. /\ a <= bal[u] /\ bal' = moved(bal, u, "vault", a) /\ shares' = credit(shares, u, s)
      /\ shareSupply' = shareSupply + s
      /\ UNCHANGED <<gusdRest, ledgerVars>>
  BY DEF Enter
<1>2. /\ earned' = [earned EXCEPT ![u] = @ + (-a)] /\ given' = given
  BY DEF earns
<1>3. u \in Sharers /\ u # "vault" /\ shares \in [Sharers -> Nat] /\ -a \in Int
  BY MirroredTypes
<1>4. /\ tables' \in VaultTables /\ tables'.ok /\ tables'.gusd = bal'
      /\ tables'.sgusd = shares'
      /\ tables'.tape = tables.tape /\ tables'.mirror = tables.mirror
      /\ tables'.recipients = tables.recipients
      /\ RowAdds(tables, tables', a, s)
      /\ \A h \in Sharers \ {u} : tables'.positions[h] = tables.positions[h]
      /\ tables'.positions[u].qty = tables.positions[u].qty + s
      /\ tables'.positions[u].cost = tables.positions[u].cost + a
      /\ tables'.positions[u].realized = tables.positions[u].realized
      /\ tables'.positions[u].complete = tables.positions[u].complete
  <2>1. LET e == entered(u, u, a, s)
        IN  /\ e \in VaultTables /\ e.ok /\ e.gusd = moved(bal, u, "vault", a)
            /\ e.sgusd = credit(shares, u, s)
            /\ e.tape = tables.tape /\ e.mirror = tables.mirror
            /\ e.recipients = tables.recipients
            /\ RowAdds(tables, e, IF u = "vault" THEN 0 ELSE a, s)
            /\ \A h \in Sharers \ {u} : e.positions[h] = tables.positions[h]
            /\ e.positions[u].qty = tables.positions[u].qty + s
            /\ e.positions[u].cost = tables.positions[u].cost + a
            /\ e.positions[u].realized = tables.positions[u].realized
            /\ e.positions[u].complete = tables.positions[u].complete
    BY <1>1, <1>3, EnteredRows
  <2> QED BY <1>1, <1>3, <2>1
<1>5. /\ earned' \in [Users -> Int] /\ earned'[u] = earned[u] - a
      /\ \A v \in Users \ {u} : earned'[v] = earned[v]
      /\ tables.vaultRow.flowGusd + a = -Net(earned')
  <2>1. tables.vaultRow.flowGusd \in Int /\ earned[u] \in Int
    BY MirroredTypes DEF VaultTables, VaultRow, Mirrored
  <2> DEFINE n == -a
  <2>2. n \in Int /\ earned' = [earned EXCEPT ![u] = @ + n]
    BY <1>2
  <2> HIDE DEF n
  <2>3. /\ earned' \in [Users -> Int] /\ earned'[u] = earned[u] + n
        /\ \A v \in Users \ {u} : earned'[v] = earned[v]
        /\ tables.vaultRow.flowGusd - n = -Net(earned')
    BY <2>2, Earns
  <2>4. earned[u] + n = earned[u] - a /\ tables.vaultRow.flowGusd - n = tables.vaultRow.flowGusd + a
    BY <2>1 DEF n
  <2> QED BY <2>3, <2>4
<1>6. tables.vaultRow.shares = shareSupply /\ (tables.vaultRow.seededGusd > 0 <=> seeded)
      /\ given' \in [Users -> Nat]
  BY <1>2 DEF Mirrored, TablesFollowChain
<1>7. /\ tables'.vaultRow.shares = shareSupply'
      /\ tables'.vaultRow.revenueGusd = tables.vaultRow.revenueGusd
      /\ tables'.vaultRow.flowGusd = -Net(earned')
      /\ tables'.vaultRow.seededGusd = tables.vaultRow.seededGusd
  BY <1>1, <1>4, <1>5, <1>6 DEF RowAdds
<1>8. CompleteBasisAccounts'
  <2> SUFFICES ASSUME NEW v \in Users, tables'.positions[v].complete
               PROVE  /\ tables'.positions[v].qty = shares'[v] + given'[v]
                      /\ tables'.positions[v].realized = earned'[v] + tables'.positions[v].cost
    BY DEF CompleteBasisAccounts
  <2>1. v \in Sharers /\ shares[v] \in Nat /\ given[v] \in Nat /\ earned[v] \in Int
        /\ tables.positions[v] \in Position
    BY MirroredTypes DEF Mirrored, VaultTables
  <2>2. tables.positions[v].complete =>
          /\ tables.positions[v].qty = shares[v] + given[v]
          /\ tables.positions[v].realized = earned[v] + tables.positions[v].cost
    BY DEF Mirrored, CompleteBasisAccounts
  <2>3. tables.positions[v].cost \in Int
    BY <2>1 DEF Position
  <2>4. CASE v = u
    <3>1. shares'[v] = shares[v] + s
      BY <1>1, <1>3, <2>4 DEF credit
    <3> QED BY <1>2, <1>4, <1>5, <2>1, <2>2, <2>3, <2>4, <3>1
  <2>5. CASE v # u
    <3>1. shares'[v] = shares[v]
      BY <1>1, <1>3, <2>1, <2>5 DEF credit
    <3>2. tables'.positions[v] = tables.positions[v] /\ earned'[v] = earned[v]
      BY <1>4, <1>5, <2>1, <2>5
    <3> QED BY <1>2, <2>2, <3>1, <3>2
  <2> QED BY <2>4, <2>5
<1> QED BY <1>1, <1>4, <1>5, <1>6, <1>7, <1>8, VaultFollows

(* A withdrawal or redemption; no shares are burned only for no assets.    *)
LEMMA LeaveFollows ==
  ASSUME Mirrored, Inv', NEW u \in Users, NEW a \in Nat, NEW s \in Nat, s = 0 => a = 0,
         Leave(u, a, s), tables' = left(u, a, s), earns(u, a)
  PROVE  Mirrored'
<1>1. /\ a <= availableForRedemption /\ s <= shares[u]
      /\ bal' = moved(bal, "vault", u, a) /\ shares' = debit(shares, u, s)
      /\ shareSupply' = shareSupply - s
      /\ UNCHANGED <<seeded, gusdRest, ledgerVars>>
  BY DEF Leave
<1>2. earned' = [earned EXCEPT ![u] = @ + a] /\ given' = given
  BY DEF earns
<1>3. u \in Sharers /\ shares \in [Sharers -> Nat] /\ a \in Int
  BY MirroredTypes
<1>4. a <= bal["vault"]
  <2>1. bal["vault"] \in Nat /\ perpReserved \in Nat
    BY MirroredTypes DEF Mirrored, Inv, TypeOK
  <2> QED BY <1>1, <2>1 DEF availableForRedemption, totalAssets, PosPart
<1>5. /\ tables' \in VaultTables /\ tables'.ok /\ tables'.gusd = bal'
      /\ tables'.sgusd = shares'
      /\ tables'.tape = tables.tape /\ tables'.mirror = tables.mirror
      /\ tables'.recipients = tables.recipients
      /\ RowAdds(tables, tables', -a, -s)
      /\ \A h \in Sharers \ {u} : tables'.positions[h] = tables.positions[h]
      /\ tables'.positions[u] = withdrawVault(tables.positions[u], a, s)
  <2>1. LET e == left(u, a, s)
        IN  /\ e \in VaultTables /\ e.ok /\ e.gusd = moved(bal, "vault", u, a)
            /\ e.sgusd = debit(shares, u, s)
            /\ e.tape = tables.tape /\ e.mirror = tables.mirror
            /\ e.recipients = tables.recipients
            /\ RowAdds(tables, e, -a, -s)
            /\ \A h \in Sharers \ {u} : e.positions[h] = tables.positions[h]
            /\ e.positions[u] = withdrawVault(tables.positions[u], a, s)
    BY <1>1, <1>4, LeftRows
  <2> QED BY <1>1, <2>1
<1>6. /\ earned' \in [Users -> Int] /\ earned'[u] = earned[u] + a
      /\ \A v \in Users \ {u} : earned'[v] = earned[v]
      /\ tables.vaultRow.flowGusd - a = -Net(earned')
  BY <1>2, <1>3, Earns
<1>7. /\ tables.vaultRow.shares = shareSupply /\ (tables.vaultRow.seededGusd > 0 <=> seeded)
      /\ given' \in [Users -> Nat] /\ tables.vaultRow.flowGusd \in Int /\ shareSupply \in Int
  BY <1>2, MirroredTypes DEF Mirrored, TablesFollowChain, VaultTables, VaultRow
<1>8. /\ tables'.vaultRow.shares = shareSupply'
      /\ tables'.vaultRow.revenueGusd = tables.vaultRow.revenueGusd
      /\ tables'.vaultRow.flowGusd = -Net(earned')
      /\ tables'.vaultRow.seededGusd = tables.vaultRow.seededGusd
  BY <1>1, <1>5, <1>6, <1>7 DEF RowAdds
<1>9. CompleteBasisAccounts'
  <2> SUFFICES ASSUME NEW v \in Users, tables'.positions[v].complete
               PROVE  /\ tables'.positions[v].qty = shares'[v] + given'[v]
                      /\ tables'.positions[v].realized = earned'[v] + tables'.positions[v].cost
    BY DEF CompleteBasisAccounts
  <2>1. v \in Sharers /\ shares[v] \in Nat /\ given[v] \in Nat /\ earned[v] \in Int
        /\ tables.positions[v] \in Position
    BY MirroredTypes DEF Mirrored, VaultTables
  <2>2. tables.positions[v].complete =>
          /\ tables.positions[v].qty = shares[v] + given[v]
          /\ tables.positions[v].realized = earned[v] + tables.positions[v].cost
    BY DEF Mirrored, CompleteBasisAccounts
  <2>3. tables.positions[v].cost \in Int /\ tables.positions[v].realized \in Int
    BY <2>1 DEF Position
  <2>4. CASE v = u
    <3> DEFINE b == tables.positions[v]
               r == tables'.positions[v]
    <3>1. shares'[v] = shares[v] - s
      BY <1>1, <1>3, <2>4 DEF debit
    <3>2. r = withdrawVault(b, a, s) /\ b \in Position
      BY <1>5, <2>1, <2>4
    <3>3. r.complete
      OBVIOUS
    <3> HIDE DEF b, r
    <3>4. /\ r \in Position /\ r.complete = b.complete
          /\ b.complete /\ s <= b.qty /\ (s = 0 => a = 0) =>
               r.qty = b.qty - s /\ r.realized - r.cost = b.realized - b.cost + a
      BY <3>2, WithdrawnPosition
    <3>5. b.complete
      BY <3>3, <3>4
    <3>6. b.qty = shares[v] + given[v] /\ b.realized = earned[v] + b.cost
      BY <2>2, <3>5 DEF b
    <3>7. s <= b.qty
      BY <1>1, <2>1, <2>4, <3>6
    <3>8. r.qty = b.qty - s /\ r.realized - r.cost = b.realized - b.cost + a
      BY <3>4, <3>5, <3>7
    <3>9. r.cost \in Int /\ r.realized \in Int /\ b.cost \in Int
      BY <2>3, <3>4 DEF Position, b
    <3>10. r.qty = shares'[v] + given'[v] /\ r.realized = earned'[v] + r.cost
      BY <1>2, <1>6, <2>1, <2>4, <3>1, <3>6, <3>8, <3>9
    <3> QED BY <3>10 DEF r
  <2>5. CASE v # u
    <3>1. shares'[v] = shares[v]
      BY <1>1, <1>3, <2>1, <2>5 DEF debit
    <3>2. tables'.positions[v] = tables.positions[v] /\ earned'[v] = earned[v]
      BY <1>5, <1>6, <2>1, <2>5
    <3> QED BY <1>2, <2>2, <3>1, <3>2
  <2> QED BY <2>4, <2>5
<1> QED BY <1>1, <1>5, <1>6, <1>7, <1>8, <1>9, VaultFollows

(* The seed: the vault's own position, and no flow of a wallet.            *)
LEMMA SeedPut ==
  ASSUME NEW d \in VaultTables, NEW a \in Nat
  PROVE  LET e == Seeded(d, a)
         IN  /\ e \in VaultTables /\ OnlyPosition(d, e, "vault") /\ e.positions = d.positions
             /\ e.vaultRow.seededGusd = d.vaultRow.seededGusd + a
             /\ e.vaultRow.flowGusd = d.vaultRow.flowGusd
             /\ e.vaultRow.shares = d.vaultRow.shares
             /\ e.vaultRow.revenueGusd = d.vaultRow.revenueGusd
<1>1. d.vaultRow \in VaultRow /\ d.vaultRow.seededGusd + a \in Nat
  BY DEF VaultTables, VaultRow
<1> QED BY <1>1 DEF Seeded, VaultTables, VaultRow, OnlyPosition

LEMMA SeedFollows ==
  ASSUME Mirrored, Inv', NEW u \in Users, NEW a \in Nat,
         seed(u, a), tables' = Seeded(entered(u, "vault", a, a), a), quiet
  PROVE  Mirrored'
<1> DEFINE e == entered(u, "vault", a, a)
<1>1. /\ ~seeded /\ a # 0 /\ seeded' = TRUE
      /\ a <= bal[u] /\ bal' = moved(bal, u, "vault", a) /\ shares' = credit(shares, "vault", a)
      /\ shareSupply' = shareSupply + a
      /\ UNCHANGED <<gusdRest, ledgerVars, earned, given>>
  BY DEF seed, Enter, quiet
<1>2. "vault" \in Sharers /\ "vault" \notin Users /\ shares \in [Sharers -> Nat]
      /\ Users \subseteq Sharers
  BY MirroredTypes
<1>3. /\ e \in VaultTables /\ e.ok /\ e.gusd = bal' /\ e.sgusd = shares'
      /\ e.tape = tables.tape /\ e.mirror = tables.mirror
      /\ e.recipients = tables.recipients
      /\ RowAdds(tables, e, IF "vault" = "vault" THEN 0 ELSE a, a)
      /\ \A h \in Sharers \ {"vault"} : e.positions[h] = tables.positions[h]
  BY <1>1, <1>2, EnteredRows
<1> HIDE DEF e
<1>4. tables' = Seeded(e, a)
  BY DEF e
<1>5. /\ tables' \in VaultTables /\ OnlyPosition(e, tables', "vault")
      /\ tables'.positions = e.positions
      /\ tables'.vaultRow.seededGusd = e.vaultRow.seededGusd + a
      /\ tables'.vaultRow.flowGusd = e.vaultRow.flowGusd
      /\ tables'.vaultRow.shares = e.vaultRow.shares
      /\ tables'.vaultRow.revenueGusd = e.vaultRow.revenueGusd
  BY <1>3, <1>4, SeedPut
<1>6. /\ tables.vaultRow.shares = shareSupply /\ (tables.vaultRow.seededGusd > 0 <=> seeded)
      /\ tables.vaultRow.flowGusd = -Net(earned)
      /\ earned' \in [Users -> Int] /\ given' \in [Users -> Nat]
      /\ tables.vaultRow.flowGusd \in Int /\ tables.vaultRow.seededGusd \in Nat
  BY <1>1, MirroredTypes DEF Mirrored, TablesFollowChain, VaultTables, VaultRow
<1>7. earned' = earned /\ Net(earned') = Net(earned)
  BY <1>1
<1>8. /\ tables'.vaultRow.shares = shareSupply'
      /\ tables'.vaultRow.revenueGusd = tables.vaultRow.revenueGusd
      /\ tables'.vaultRow.flowGusd = -Net(earned')
      /\ tables'.vaultRow.seededGusd > 0
  BY <1>1, <1>3, <1>5, <1>6, <1>7 DEF RowAdds
<1>9. CompleteBasisAccounts'
  <2>1. \A v \in Users : tables'.positions[v] = tables.positions[v] /\ shares'[v] = shares[v]
    BY <1>1, <1>2, <1>3, <1>5 DEF credit
  <2>2. CompleteBasisAccounts /\ earned' = earned /\ given' = given
    BY <1>1 DEF Mirrored
  <2> QED BY <2>1, <2>2 DEF CompleteBasisAccounts
<1>10. /\ tables'.ok /\ tables'.gusd = bal' /\ tables'.sgusd = shares'
       /\ tables'.tape = tables.tape /\ tables'.mirror = tables.mirror
       /\ tables'.recipients = tables.recipients
  BY <1>3, <1>5 DEF OnlyPosition
<1>11. tables'.vaultRow.seededGusd > 0 <=> seeded'
  BY <1>1, <1>8
<1> QED BY <1>1, <1>5, <1>6, <1>8, <1>9, <1>10, <1>11, VaultFollows

(* Shares given away: two wallets lose their records, and those given to   *)
(* the vault's address stay in the giver's.                                *)
LEMMA GiveFollows ==
  ASSUME Mirrored, Inv', NEW u \in Users, NEW to \in Sharers \ {u}, NEW x \in Nat,
         transferShares(u, to, x), tables' = SgusdTransfer(tables, u, to, x),
         given' = IF to = "vault" THEN [given EXCEPT ![u] = @ + x] ELSE given,
         earned' = earned
  PROVE  Mirrored'
<1>1. /\ x <= shares[u] /\ shares' = moved(shares, u, to, x)
      /\ UNCHANGED <<gusdVars, ledgerVars, seeded, shareSupply>>
  BY DEF transferShares
<1>2. u \in Sharers /\ to \in Sharers /\ u # to /\ shares \in [Sharers -> Nat]
      /\ tables \in VaultTables /\ tables.sgusd = shares /\ tables.ok /\ tables.gusd = bal
      /\ Users \subseteq Sharers /\ "vault" \notin Users
  BY MirroredTypes
<1>3. /\ tables' \in VaultTables /\ OnlySgusd(tables, tables') /\ tables'.sgusd = shares'
      /\ tables'.ok
      /\ isWalletMove(u, to) => ~tables'.positions[u].complete /\ ~tables'.positions[to].complete
      /\ \A h \in Sharers : ~(isWalletMove(u, to) /\ h \in {u, to}) =>
                              tables'.positions[h] = tables.positions[h]
  BY <1>1, <1>2, SharesMoved
<1>4. /\ tables.vaultRow.shares = shareSupply /\ (tables.vaultRow.seededGusd > 0 <=> seeded)
      /\ tables.vaultRow.flowGusd = -Net(earned)
      /\ earned \in [Users -> Int] /\ given \in [Users -> Nat]
  BY DEF Mirrored, TablesFollowChain
<1>5. given' \in [Users -> Nat]
  BY <1>4
<1>6. UNCHANGED gusdRest /\ bal' = bal
  BY <1>1 DEF gusdVars, gusdRest
<1>7. /\ tables'.vaultRow = tables.vaultRow /\ tables'.gusd = bal' /\ tables'.tape = tables.tape
      /\ tables'.mirror = tables.mirror /\ tables'.recipients = tables.recipients
  BY <1>2, <1>3, <1>6 DEF OnlySgusd
<1>8. Net(earned') = Net(earned)
  OBVIOUS
<1>9. CompleteBasisAccounts'
  <2> SUFFICES ASSUME NEW v \in Users, tables'.positions[v].complete
               PROVE  /\ tables'.positions[v].qty = shares'[v] + given'[v]
                      /\ tables'.positions[v].realized = earned'[v] + tables'.positions[v].cost
    BY DEF CompleteBasisAccounts
  <2>1. v \in Sharers /\ ~(isWalletMove(u, to) /\ v \in {u, to})
    BY <1>2, <1>3
  <2>2. tables'.positions[v] = tables.positions[v]
    BY <1>3, <2>1
  <2>3. /\ tables.positions[v].qty = shares[v] + given[v]
        /\ tables.positions[v].realized = earned[v] + tables.positions[v].cost
    BY <2>2 DEF Mirrored, CompleteBasisAccounts
  <2>4. shares[v] \in Nat /\ given[v] \in Nat
    BY <1>2, <1>4
  <2>5. CASE v = u
    <3>1. to = "vault"
      BY <1>2, <2>1, <2>5 DEF isWalletMove, Sharers
    <3>2. shares'[v] = shares[v] - x /\ given'[v] = given[v] + x
      BY <1>1, <1>2, <1>4, <2>5, <3>1 DEF moved, debit, credit
    <3> QED BY <2>2, <2>3, <2>4, <3>2
  <2>6. CASE v # u
    <3>1. v # to
      BY <1>2, <2>1, <2>6 DEF isWalletMove
    <3>2. shares'[v] = shares[v] /\ given'[v] = given[v]
      BY <1>1, <1>2, <1>4, <2>1, <2>6, <3>1 DEF moved, debit, credit
    <3> QED BY <2>2, <2>3, <3>2
  <2> QED BY <2>5, <2>6
<1>10. earned' \in [Users -> Int]
  BY <1>4
<1>11. UNCHANGED <<gusdRest, ledgerVars>>
  BY <1>1, <1>6
<1>12. /\ tables'.vaultRow.shares = shareSupply'
       /\ tables'.vaultRow.revenueGusd = tables.vaultRow.revenueGusd
       /\ tables'.vaultRow.flowGusd = -Net(earned')
       /\ (tables'.vaultRow.seededGusd > 0 <=> seeded')
  BY <1>1, <1>4, <1>7, <1>8
<1> QED BY <1>3, <1>5, <1>7, <1>9, <1>10, <1>11, <1>12, VaultFollows

LEMMA StakerFollows ==
  ASSUME Mirrored, Inv', StakerEvents
  PROVE  Mirrored'
<1>1. PICK u \in Users, x \in Amounts :
        \/ seed(u, x) /\ indexed(Seeded(entered(u, "vault", x, x), x)) /\ quiet
        \/ deposit(u, x) /\ indexed(entered(u, u, x, sharesDown(x))) /\ earns(u, -x)
        \/ mintShares(u, x) /\ indexed(entered(u, u, assetsUp(x), x)) /\ earns(u, -assetsUp(x))
        \/ withdraw(u, x) /\ indexed(left(u, x, sharesUp(x))) /\ earns(u, x)
        \/ redeemShares(u, x) /\ indexed(left(u, paidOut, x)) /\ earns(u, paidOut)
        \/ \E to \in Sharers \ {u} :
             /\ transferShares(u, to, x)
             /\ indexed(SgusdTransfer(tables, u, to, x))
             /\ given' = IF to = "vault" THEN [given EXCEPT ![u] = @ + x] ELSE given
             /\ UNCHANGED earned
  BY Zenon DEF StakerEvents
<1>2. x \in Nat /\ Inv
  BY GusdConstants DEF Mirrored
<1>3. /\ totalAssets \in Nat /\ shareSupply \in Nat
      /\ sharesDown(x) \in Nat /\ sharesUp(x) \in Nat /\ assetsUp(x) \in Nat /\ assetsDown(x) \in Nat
      /\ x * (shareSupply + 1) <= sharesUp(x) * (totalAssets + 1)
      /\ assetsDown(x) * (shareSupply + 1) <= x * (totalAssets + 1)
  BY <1>2, Conversions
<1>4. CASE seed(u, x) /\ indexed(Seeded(entered(u, "vault", x, x), x)) /\ quiet
  BY <1>2, <1>4, SeedFollows DEF indexed
<1>5. CASE deposit(u, x) /\ indexed(entered(u, u, x, sharesDown(x))) /\ earns(u, -x)
  <2>1. Enter(u, u, x, sharesDown(x)) /\ seeded' = seeded /\ tables' = entered(u, u, x, sharesDown(x))
    BY <1>5 DEF deposit, indexed
  <2> QED BY <1>2, <1>3, <1>5, <2>1, EnterFollows
<1>6. CASE mintShares(u, x) /\ indexed(entered(u, u, assetsUp(x), x)) /\ earns(u, -assetsUp(x))
  <2>1. Enter(u, u, assetsUp(x), x) /\ seeded' = seeded /\ tables' = entered(u, u, assetsUp(x), x)
    BY <1>6 DEF mintShares, indexed
  <2> QED BY <1>2, <1>3, <1>6, <2>1, EnterFollows
<1>7. CASE withdraw(u, x) /\ indexed(left(u, x, sharesUp(x))) /\ earns(u, x)
  <2>1. Leave(u, x, sharesUp(x)) /\ tables' = left(u, x, sharesUp(x))
    BY <1>7 DEF withdraw, indexed
  <2>2. sharesUp(x) = 0 => x = 0
    BY <1>2, <1>3
  <2> QED BY <1>2, <1>3, <1>7, <2>1, <2>2, LeaveFollows
<1>8. CASE redeemShares(u, x) /\ indexed(left(u, paidOut, x)) /\ earns(u, paidOut)
  <2>1. Leave(u, assetsDown(x), x) /\ tables' = left(u, paidOut, x)
    BY <1>8 DEF redeemShares, indexed
  <2>2. bal' = moved(bal, "vault", u, assetsDown(x))
    BY <2>1 DEF Leave
  <2>3. bal'["vault"] = bal["vault"] - assetsDown(x)
    BY <1>3, <2>2, MirroredTypes DEF moved, debit, credit
  <2>4. paidOut = assetsDown(x)
    BY <1>3, <2>3, MirroredTypes DEF paidOut
  <2>5. x = 0 => assetsDown(x) = 0
    BY <1>2, <1>3
  <2>6. earns(u, assetsDown(x)) /\ tables' = left(u, assetsDown(x), x)
    BY <1>8, <2>1, <2>4
  <2> QED BY <1>2, <1>3, <2>1, <2>5, <2>6, LeaveFollows
<1>9. ASSUME NEW to \in Sharers \ {u},
             transferShares(u, to, x), indexed(SgusdTransfer(tables, u, to, x)),
             given' = IF to = "vault" THEN [given EXCEPT ![u] = @ + x] ELSE given,
             UNCHANGED earned
      PROVE  Mirrored'
  <2>1. tables' = SgusdTransfer(tables, u, to, x) /\ earned' = earned
    BY <1>9 DEF indexed
  <2> QED BY <1>2, <1>9, <2>1, GiveFollows
<1> QED BY <1>1, <1>4, <1>5, <1>6, <1>7, <1>8, <1>9

(* A step that changes nothing the tables mirror.                          *)
LEMMA RestFollows ==
  ASSUME Mirrored, Inv', UNCHANGED <<gusdRest, ledgerVars, bal, seeded, shares, shareSupply>>,
         UNCHANGED <<tables, earned, given>>
  PROVE  Mirrored'
<1>1. tables' = tables /\ earned' = earned /\ given' = given /\ bal' = bal /\ shares' = shares
      /\ shareSupply' = shareSupply /\ seeded' = seeded
  OBVIOUS
<1>2. /\ tables.vaultRow.shares = shareSupply /\ (tables.vaultRow.seededGusd > 0 <=> seeded)
      /\ tables.vaultRow.flowGusd = -Net(earned)
      /\ earned \in [Users -> Int] /\ given \in [Users -> Nat] /\ CompleteBasisAccounts
  BY DEF Mirrored, TablesFollowChain
<1>3. CompleteBasisAccounts'
  BY <1>1, <1>2 DEF CompleteBasisAccounts
<1>4. UNCHANGED <<gusdRest, ledgerVars>>
  OBVIOUS
<1>5. /\ tables' \in VaultTables /\ tables'.ok /\ tables'.gusd = bal' /\ tables'.sgusd = shares'
  BY <1>1, MirroredTypes
<1>6. Net(earned') = Net(earned)
  BY <1>1
<1> QED BY <1>1, <1>2, <1>3, <1>4, <1>5, <1>6, VaultFollows

LEMMA EngineFollows ==
  ASSUME Mirrored, Inv', EngineEvents
  PROVE  Mirrored'
<1>1. CASE (setPerpEngine \/ \E c \in Caps : setEngineMaxWithdrawPerBlock(c)) /\ UNCHANGED indexVars
  <2>1. UNCHANGED <<gusdVars, ledgerVars, seeded, shares, shareSupply, tables, earned, given>>
    BY <1>1 DEF setPerpEngine, setEngineMaxWithdrawPerBlock, indexVars
  <2>2. UNCHANGED <<gusdRest, ledgerVars, bal, seeded, shares, shareSupply>>
    BY <2>1 DEF gusdVars, gusdRest
  <2> QED BY <2>1, <2>2, RestFollows
<1>2. ASSUME NEW u \in Users, NEW x \in Amounts, perpWithdraw(u, x),
             indexed(GusdTransfer(tables, "vault", u, paidOut)), quiet
      PROVE  Mirrored'
  <2> DEFINE room == PosPart(engineMaxWithdrawPerBlock - engineWithdrawn)
             paid == Lesser(Lesser(x, totalAssets), room)
  <2>1. /\ bal' = moved(bal, "vault", u, paid)
        /\ UNCHANGED <<gusdRest, ledgerVars, seeded, shares, shareSupply>>
        /\ tables' = GusdTransfer(tables, "vault", u, paidOut)
        /\ UNCHANGED <<given, earned>>
    BY <1>2 DEF perpWithdraw, indexed, quiet
  <2>2. room \in Nat /\ x \in Nat /\ totalAssets \in Nat /\ totalAssets = bal["vault"]
    BY GusdConstants, MirroredTypes DEF Mirrored, Inv, TypeOK, PosPart, totalAssets
  <2> HIDE DEF room
  <2>3. paid \in Nat /\ paid <= bal["vault"]
    BY <2>2 DEF Lesser
  <2> HIDE DEF paid
  <2>4. u \in Holders /\ "vault" \in Holders /\ u # "vault" /\ bal \in [Holders -> Nat]
    BY MirroredTypes
  <2>5. bal'["vault"] = bal["vault"] - paid
    BY <2>1, <2>3, <2>4 DEF moved, debit, credit
  <2>6. paidOut = paid
    BY <2>3, <2>4, <2>5 DEF paidOut
  <2>7. UNCHANGED <<reserve, stray, mintFeeBps, redeemFeeBps, ledgerVars, seeded, shares,
                    shareSupply, earned, given>>
    BY <2>1 DEF gusdRest
  <2> QED BY <2>1, <2>3, <2>4, <2>6, <2>7, MoveFollows
<1> QED BY <1>1, <1>2 DEF EngineEvents

-----------------------------------------------------------------------------
(* Indexed steps are steps of the contracts, and the tables follow.        *)
LEMMA IndexedSteps == IndexedNext => Next
<1>1. GusdEvents => GusdStep
  BY DEF GusdEvents, GusdStep, IndexedMint, IndexedRedeem
<1>2. LedgerEvents => LedgerStep
  BY DEF LedgerEvents, LedgerStep, IndexedDistribute
<1>3. StakerEvents => StakerStep
  BY DEF StakerEvents, StakerStep, Sharers
<1>4. EngineEvents => EngineStep
  BY DEF EngineEvents, EngineStep
<1> QED BY <1>1, <1>2, <1>3, <1>4 DEF IndexedNext, Next

LEMMA IndexedInitMirrored == IndexedInit => Mirrored
<1> SUFFICES ASSUME IndexedInit PROVE Mirrored
  OBVIOUS
<1>1. Inv
  BY InitInv DEF IndexedInit
<1>2. bal \in [Holders -> Nat] /\ shares \in [Sharers -> Nat]
  BY <1>1 DEF Inv, TypeOK, Sharers
<1>3. SumOf(bal) \in Nat
  BY <1>2, HoldersFinite, SumNat
<1>4. [h \in Sharers |-> emptyBasis] \in [Sharers -> Position]
  BY DEF emptyBasis, Position
<1>5. /\ ~seeded /\ shareSupply = 0 /\ totalToVault = 0 /\ vault = None /\ treasury = None
      /\ shares = [h \in Sharers |-> 0]
  BY DEF IndexedInit, Init, LedgerInit, Sharers
<1>6. /\ tables = EmptyTables /\ given = [u \in Users |-> 0] /\ earned = [u \in Users |-> 0]
  BY DEF IndexedInit
<1>7. /\ tables.ok /\ tables.gusd = bal /\ tables.sgusd = shares
      /\ tables.positions = [h \in Sharers |-> emptyBasis]
      /\ tables.vaultRow = [seededGusd |-> 0, flowGusd |-> 0, shares |-> 0, revenueGusd |-> 0]
      /\ tables.tape = SumOf(bal)
      /\ tables.mirror = [mintFeeBps |-> Null, redeemFeeBps |-> Null, sgusdSplitBps |-> Null]
      /\ tables.recipients = <<None, None>>
  BY <1>6 DEF EmptyTables
<1>8. tables \in VaultTables
  <2>1. Null \in Int /\ SumOf(bal) \in Int
    BY <1>3 DEF Null
  <2>2. <<None, None>> \in {None, "vault"} \X {None, "treasury"}
    OBVIOUS
  <2>3. [seededGusd |-> 0, flowGusd |-> 0, shares |-> 0, revenueGusd |-> 0] \in VaultRow
    BY DEF VaultRow
  <2> QED BY <1>2, <1>4, <1>6, <2>1, <2>2, <2>3 DEF EmptyTables, VaultTables
<1>9. Net(earned) = 0
  <2> DEFINE z == [u \in Users |-> 0]
  <2>1. z \in [Users -> Nat] /\ \A u \in Users : z[u] = 0
    OBVIOUS
  <2>2. [u \in DOMAIN earned |-> PosPart(earned[u])] = z
    BY <1>6 DEF PosPart
  <2>3. [u \in DOMAIN earned |-> PosPart(-earned[u])] = z
    BY <1>6 DEF PosPart
  <2> HIDE DEF z
  <2>4. SumOf(z) = 0
    BY <2>1, SumZero
  <2> QED BY <2>2, <2>3, <2>4 DEF Net
<1>10. TablesFollowChain
  <2>1. /\ tables.vaultRow.shares = 0 /\ tables.vaultRow.revenueGusd = 0
        /\ tables.vaultRow.flowGusd = 0 /\ tables.vaultRow.seededGusd = 0
    BY <1>7
  <2>2. /\ tables.mirror.mintFeeBps = Null /\ tables.mirror.redeemFeeBps = Null
        /\ tables.mirror.sgusdSplitBps = Null
    BY <1>7
  <2>3. tables.vaultRow.flowGusd = -Net(earned)
    <3> DEFINE n == Net(earned)
               m == -n
    <3>1. n = 0 /\ n \in Int
      BY <1>9
    <3> HIDE DEF n
    <3>2. m \in Int /\ m + n = 0
      BY <3>1
    <3> HIDE DEF m
    <3>3. m = 0
      BY <3>1, <3>2
    <3> QED BY <2>1, <3>3 DEF n, m
  <2>4. tables.vaultRow.seededGusd > 0 <=> seeded
    BY <1>5, <2>1
  <2> QED BY <1>5, <1>7, <2>1, <2>2, <2>3, <2>4 DEF TablesFollowChain
<1>11. CompleteBasisAccounts
  <2>1. ASSUME NEW u \in Users
        PROVE  /\ tables.positions[u] = emptyBasis /\ shares[u] = 0 /\ given[u] = 0
               /\ earned[u] = 0
    BY <1>5, <1>6, <1>7 DEF Sharers
  <2> QED BY <2>1 DEF CompleteBasisAccounts, emptyBasis
<1>12. earned \in [Users -> Int] /\ given \in [Users -> Nat]
  BY <1>6
<1> QED BY <1>1, <1>8, <1>10, <1>11, <1>12 DEF Mirrored

LEMMA MirroredStep == Mirrored /\ IndexedNext => Mirrored'
<1> SUFFICES ASSUME Mirrored, IndexedNext PROVE Mirrored'
  OBVIOUS
<1>1. Inv'
  BY IndexedSteps, StepInv DEF Mirrored
<1> QED BY <1>1, GusdFollows, LedgerFollows, StakerFollows, EngineFollows DEF IndexedNext

LEMMA MirroredRests == Mirrored /\ UNCHANGED <<vars, indexVars>> => Mirrored'
<1> SUFFICES ASSUME Mirrored, UNCHANGED <<vars, indexVars>> PROVE Mirrored'
  OBVIOUS
<1>1. UNCHANGED vars
  OBVIOUS
<1>2. Inv'
  BY <1>1, StepInv DEF Mirrored
<1>3. UNCHANGED <<gusdRest, ledgerVars, bal, seeded, shares, shareSupply>>
      /\ UNCHANGED <<tables, earned, given>>
  BY DEF vars, gusdVars, vaultVars, gusdRest, indexVars
<1> QED BY <1>2, <1>3, RestFollows

(* handlers/gusd.ts, sgusd.ts, ledger.ts, cost-basis.ts: whatever is       *)
(* minted, redeemed, distributed, staked, given away, paid to the engine   *)
(* or set, no handler throws, the tables reproduce the chain, and a        *)
(* complete cost basis accounts for every share and every unit its wallet  *)
(* put in and took out.                                                    *)
THEOREM VaultIndexed == MCSpec => []TablesFollow
<1> DEFINE J == focus \in {"vault", "router", "indexer"} /\ (focus = "indexer" => Mirrored)
<1>1. MCInit => J
  BY IndexedInitMirrored DEF MCInit
<1>2. J /\ [MCNext]_mcVars => J'
  <2> SUFFICES ASSUME J, [MCNext]_mcVars PROVE J'
    OBVIOUS
  <2>1. CASE focus # "indexer" /\ MCNext
    BY <2>1 DEF MCNext
  <2>2. CASE focus = "indexer" /\ MCNext
    <3>1. IndexedNext /\ focus' = focus
      BY <2>2 DEF MCNext
    <3> QED BY <2>2, <3>1, MirroredStep
  <2>3. CASE UNCHANGED mcVars
    <3>1. focus' = focus /\ UNCHANGED <<vars, indexVars>>
      BY <2>3 DEF mcVars
    <3> QED BY <3>1, MirroredRests
  <2> QED BY <2>1, <2>2, <2>3
<1>3. J => TablesFollow
  BY DEF TablesFollow, Mirrored
<1> QED BY <1>1, <1>2, <1>3, PTL DEF MCSpec
=============================================================================
