----------------------------- MODULE MCClients ------------------------------
(***************************************************************************)
(* The clients of the oracle, the chain and the indexer.  They share no     *)
(* state: the stores and the runner see the login only through Session,     *)
(* which WalletSession implements and which they take any step of.  What    *)
(* one of them does is therefore checked with the others at rest, in their  *)
(* initial states or stopped: `subject' is the one that moves.              *)
(***************************************************************************)
EXTENDS Naturals

CONSTANTS
  None, Externals, Embeddeds, MaxPending,
  Addresses, Runs, Origins, MaxApprovals, FollowUps, MaxFails, MaxPages,
  MaxLoops, MaxFaults, MaxCalls,
  Prices, MaxTime, MaxPrints,
  x1, e1, w1, w2, r1, r2, desk

ASSUME ClientConstants ==
  /\ Externals \cap Embeddeds = {}
  /\ None \notin Externals \cup Embeddeds \cup Addresses
  /\ {MaxPending, MaxLoops, MaxCalls, FollowUps} \subseteq Nat \ {0}

VARIABLES
  subject,
  ws, orphans, reconnectTimer, downSince, sseActive, sseLoops, stopped,
  privy, linked, due, session, flow, attached, pending, tried, denied,
  status, address, run, action, tx,
  boundStatus, boundAddress, account, activity, fails,
  mounted, source, pollTimer, watchdogTimer, retryTimer, strays, boots, polls, syncing,
  connection, faults,
  now, series, frame, candles, fetch, watch

Stream  == INSTANCE CandidateStream
Login   == INSTANCE WalletSession
Runner  == INSTANCE ActionRunner WITH Wallets <- Addresses
Stores  == INSTANCE WalletStores WITH
             Wallets <- Addresses, status <- boundStatus, address <- boundAddress
Feed    == INSTANCE OracleFeed
(* Two windows, so that a deeper answer may come before or after another.   *)
Candles == INSTANCE CandleSet WITH Windows <- {<<t, MaxTime + 1>> : t \in 0..1}

streamVars  == <<ws, orphans, reconnectTimer, downSince, sseActive, sseLoops, stopped>>
loginVars   == <<privy, linked, due, session, flow, attached, pending, tried, denied>>
runnerVars  == <<status, address, run, action, tx>>
storesVars  == <<boundStatus, boundAddress, account, activity, fails>>
feedVars    == <<mounted, source, pollTimer, watchdogTimer, retryTimer, strays, boots, polls,
                 syncing, connection, faults>>
candleVars  == <<now, series, frame, candles, fetch, watch>>

allVars == <<subject, streamVars, loginVars, runnerVars, storesVars, feedVars,
             candleVars>>

Init ==
  /\ subject \in {"stream", "login", "runner", "stores", "feed", "candles"}
  /\ IF subject = "stream" THEN Stream!Init ELSE Stream!Stopped
  /\ Login!Init /\ Runner!Init /\ Stores!Init /\ Feed!Init /\ Candles!Init

StreamMoves ==
  /\ subject = "stream"
  /\ Stream!Next
  /\ UNCHANGED <<loginVars, runnerVars, storesVars, feedVars, candleVars>>

LoginMoves ==
  /\ subject = "login"
  /\ Login!Next
  /\ UNCHANGED <<streamVars, runnerVars, storesVars, feedVars, candleVars>>

RunnerMoves ==
  /\ subject = "runner"
  /\ Runner!Next
  /\ UNCHANGED <<streamVars, loginVars, storesVars, feedVars, candleVars>>

StoresMove ==
  /\ subject = "stores"
  /\ Stores!Next
  /\ UNCHANGED <<streamVars, loginVars, runnerVars, feedVars, candleVars>>

FeedMoves ==
  /\ subject = "feed"
  /\ Feed!Next
  /\ UNCHANGED <<streamVars, loginVars, runnerVars, storesVars, candleVars>>

CandlesMove ==
  /\ subject = "candles"
  /\ Candles!Next
  /\ UNCHANGED <<streamVars, loginVars, runnerVars, storesVars, feedVars>>

Next ==
  /\ UNCHANGED subject
  /\ StreamMoves \/ LoginMoves \/ RunnerMoves \/ StoresMove \/ FeedMoves \/ CandlesMove

(* The fairness each client states, which asks nothing of a client at rest. *)
Spec ==
  /\ Init
  /\ [][Next]_allVars
  /\ Stream!Fairness /\ Login!Fairness /\ Runner!Fairness /\ Stores!Fairness /\ Feed!Fairness

-----------------------------------------------------------------------------
(* Properties: each client's own, where they are explained                  *)

(* privy-auth-port.ts, account-store.ts, activity-store.ts: through late    *)
(* answers and wallet changes the signer is the session's, and so are the   *)
(* balances shown and the loads that are waited for.                        *)
WalletIsSessions ==
  Login!SignerIsSession /\ Stores!BalancesAreTheWallets /\ Stores!LoadingIsInflight

(* action-runner.ts: a record says what happened on the chain, stays gone   *)
(* once it is cleared, and is the only one in flight of its surface.        *)
RunnerHonest == Runner!LedgerIsChain /\ Runner!ClearedStaysCleared /\ Runner!OneActionPerSurface

(* stream.ts, feed.ts: no socket is forgotten while another is opened.      *)
(* Without a listener the feed has no stream and no timer in a field; the   *)
(* calls in flight and the timers it has lost start nothing.                *)
NoForgottenStream ==
  [](Stream!OneSocket /\ Feed!TornDownIsQuiet) /\ Feed!TeardownStartsNothing

(* fold.ts, tv-feed.ts: the folded buckets are the server's, and the        *)
(* chart's last bar is the last of them.                                    *)
CandlesFollowServer == Candles!FoldMatchesServer /\ Candles!ChartFollowsTail

(* privy-auth-port.ts: what the stores and the runner build on.             *)
ImplementsSession == Login!ImplementsSession

(* Nothing hangs, whatever fails and however late it answers: the keeper    *)
(* has a source of ticks (stream.ts), a login ends unless Privy refuses the *)
(* user's wallet (privy-bridge.tsx), a signed action settles (tx-store.ts), *)
(* a bound wallet's balances load (account-store.ts) and a mounted feed     *)
(* gets its stream back (feed.ts).                                          *)
NothingHangs ==
  /\ Stream!NeverBlindForLong
  /\ Login!ConnectingResolves
  /\ Runner!SignedSettles
  /\ Stores!BalancesLoad
  /\ Feed!StreamComesBack
=============================================================================
