---------------------------- MODULE MCSpotMarket ----------------------------
(* The spot market for TLC, and the web client's quotes beside it.  A unit  *)
(* of gUSD buys about two units of GPU, as the real units are finer in GPU. *)
(* A behaviour is about the market alone, or about two wallets and the      *)
(* indexer, for a bounded number of transactions.                           *)
EXTENDS SpotIndexer, HookQuote

CONSTANTS gA, w1, w2

VARIABLE focus

mcVars == <<focus, vars, indexVars>>

(* One is refused.                                                          *)
MCPolChoices == {[askBps |-> 2, bidBps |-> 1, polFeeBps |-> 1],
                 [askBps |-> 1, bidBps |-> 6, polFeeBps |-> 1]}
MCDefaultPol == [askBps |-> 1, bidBps |-> 1, polFeeBps |-> 0]
MCCaps == {<<4, 6>>}
MCLpAmounts == {<<1, 2>>}

(* The owner restricts the market in one way at a time: the issuance is     *)
(* paused, or closed for a GPU, or the POL is paused.                       *)
Restrictions ==
  {g \in Created : gpu[g] # [h \in GpuHolders |-> 0] /\ ~gpus[g].enabled}
    \cup {x \in {"paused"} : paused} \cup {x \in {"polPaused"} : polPaused}

MCInit == focus \in {"market", "indexer"} /\ IndexedInit

MCNext ==
  /\ UNCHANGED focus
  /\ \/ focus = "market" /\ Next /\ UNCHANGED indexVars /\ Cardinality(Restrictions') <= 1
     \/ focus = "indexer" /\ IndexedNext

MCSpec == MCInit /\ [][MCNext]_mcVars

(* The market without the restriction.                                      *)
AnyNext == focus = "market" /\ Next /\ UNCHANGED <<focus, indexVars>>

AnySpec == MCInit /\ [][AnyNext]_mcVars

(* Where the indexer follows: no handler throws, the tables reproduce the   *)
(* market, and a complete cost basis holds the wallet's units (see          *)
(* MarketRowsFollow, BasisIsHolding).                                       *)
MarketTables == focus = "indexer" => MarketRowsFollow /\ BasisIsHolding
=============================================================================
