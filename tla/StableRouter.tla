---------------------------- MODULE StableRouter ----------------------------
(***************************************************************************)
(* StableRouter.sol: gUSD minted and redeemed with other stablecoins, which *)
(* a pool swaps for the reserve asset.  The pool is external: it gives what *)
(* it gives for the whole amount, out of what it holds; the reserve asset   *)
(* in pools is outside the protocol like the users'.  A swap through        *)
(* another pool than the pair's, or one with hooks, is refused.             *)
(***************************************************************************)
EXTENDS GUSD, SequencesExt

CONSTANTS
  Stables,         \* tokens of 6 decimals other than the reserve asset
  InitialStable    \* of each, in the users' hands and in its pool

ASSUME RouterConstants ==
  /\ IsFiniteSet(Stables) /\ "underlying" \notin Stables
  /\ InitialStable \in Nat

VARIABLES
  isStable,        \* the whitelist
  stables,         \* and its list, for allStables
  routerPaused,
  held,            \* what was sent to the router itself
  purse, pool      \* the stablecoins of the users and of the pools

routerVars == <<isStable, stables, routerPaused, held, purse, pool>>

Currencies == Stables \cup {"underlying"}

-----------------------------------------------------------------------------
(* The last entry takes the place of the removed one.                       *)
removed(list, s) ==
  [i \in 1..(Len(list) - 1) |-> IF list[i] = s THEN Last(list) ELSE list[i]]

setStable(s, allowed) ==
  /\ isStable' = IF allowed THEN isStable \cup {s} ELSE isStable \ {s}
  /\ stables' = IF allowed = (s \in isStable) THEN stables
                ELSE IF allowed THEN Append(stables, s) ELSE removed(stables, s)
  /\ UNCHANGED <<gusdVars, routerPaused, held, purse, pool>>

setRouterPaused(p) ==
  /\ routerPaused # p
  /\ routerPaused' = p
  /\ UNCHANGED <<gusdVars, isStable, stables, held, purse, pool>>

Open(s, amount) == ~routerPaused /\ amount # 0 /\ s \in isStable /\ ~paused

(* The whole balance is settled and the swap takes the amount: what was     *)
(* there before would stay with the pool manager, which refuses to close;   *)
(* and nothing of either currency may be left.                              *)
NoDust(s) == held[s] = 0 /\ held["underlying"] = 0

(* The swap gives `out' for what goes in, which the caller bounds below.    *)
mintVia(s, u, amountIn, minOut, out) ==
  /\ Open(s, amountIn)
  /\ minOut <= out
  /\ mint(u, out)
  /\ \/ /\ s = "underlying" /\ out = amountIn
        /\ UNCHANGED routerVars
     \/ /\ s # "underlying" /\ amountIn <= purse[s] /\ NoDust(s)
        /\ purse' = debit(purse, s, amountIn)
        /\ pool' = credit(pool, s, amountIn)
        /\ UNCHANGED <<isStable, stables, routerPaused, held>>

redeemVia(s, u, gusdIn, minOut, out) ==
  /\ Open(s, gusdIn)
  /\ minOut <= out
  /\ redeem(u, gusdIn)
  /\ \/ /\ s = "underlying" /\ out = reserve - reserve'
        /\ UNCHANGED routerVars
     \/ /\ s # "underlying" /\ out <= pool[s] /\ NoDust(s)
        /\ pool' = debit(pool, s, out)
        /\ purse' = credit(purse, s, out)
        /\ UNCHANGED <<isStable, stables, routerPaused, held>>

(* A plain transfer to the router.                                          *)
transferToRouter(s, x) ==
  /\ held' = credit(held, s, x)
  /\ \/ /\ s = "underlying" /\ x <= outside
        /\ outside' = outside - x
        /\ UNCHANGED purse
     \/ /\ s # "underlying" /\ x <= purse[s]
        /\ purse' = debit(purse, s, x)
        /\ UNCHANGED outside
  /\ UNCHANGED <<bal, reserve, stray, mintFeeBps, redeemFeeBps, revenueSink, paused,
                 isStable, stables, routerPaused, pool>>

RouterInit ==
  /\ isStable = {"underlying"} /\ stables = <<"underlying">>
  /\ routerPaused = FALSE
  /\ held = [c \in Currencies |-> 0]
  /\ purse = [s \in Stables |-> InitialStable]
  /\ pool = [s \in Stables |-> InitialStable]

RouterStep ==
  \E s \in Currencies :
    \/ \E b \in BOOLEAN : setStable(s, b) \/ setRouterPaused(b)
    \/ \E x \in Amounts : transferToRouter(s, x)
    \/ \E u \in Users, x \in Amounts, min \in {0, 1}, out \in 0..(2 * InitialStable) :
         mintVia(s, u, x, min, out) \/ redeemVia(s, u, x, min, out)
=============================================================================
