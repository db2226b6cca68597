------------------------------ MODULE MCSgUSD -------------------------------
(* A few units of gUSD, fees and a split of halves: every rounding happens. *)
(* A behaviour is about one of three things: one user and the vault; the    *)
(* token reached through the stable router; or two users and the indexer,   *)
(* for a bounded number of transactions.                                    *)
EXTENDS VaultIndexer, StableRouter

CONSTANTS u1, u2

VARIABLE focus

mcVars == <<focus, vars, indexVars, routerVars>>

MCInit ==
  /\ focus \in {"vault", "router", "indexer"}
  /\ IndexedInit
  /\ RouterInit

GusdOwnerStep ==
  setFees(1, 1) \/ setRevenueSink("ledger") \/ setPaused(~paused)

OneUser == bal'[u2] = bal[u2] /\ shares'[u2] = shares[u2]

MCNext ==
  /\ UNCHANGED focus
  /\ \/ focus = "vault" /\ Next /\ UNCHANGED <<indexVars, routerVars>> /\ OneUser
     \/ focus = "router" /\ GusdOwnerStep
          /\ UNCHANGED <<ledgerVars, vaultVars, indexVars, routerVars>>
     \/ focus = "router" /\ RouterStep
          /\ UNCHANGED <<ledgerVars, vaultVars, indexVars>> /\ OneUser
     \/ focus = "indexer" /\ IndexedNext /\ UNCHANGED routerVars

MCSpec == MCInit /\ [][MCNext]_mcVars

(* Where the indexer follows: no handler underflows, the tables reproduce   *)
(* the chain, and a complete cost basis accounts for all of the wallet's    *)
(* shares, gains and losses (see TablesFollowChain, CompleteBasisAccounts). *)
TablesFollow == focus = "indexer" => TablesFollowChain /\ CompleteBasisAccounts
=============================================================================
