---------------------------- MODULE WalletStores ----------------------------
(***************************************************************************)
(* The stores that follow the session's wallet: account-store.ts, its       *)
(* balances and positions, and activity-store.ts, its indexed rows.  Each   *)
(* has at most one load in flight, which calls made meanwhile join, and     *)
(* which the session may outrun.                                            *)
(***************************************************************************)
EXTENDS Naturals

CONSTANTS
  Wallets, None,
  MaxFails,       \* bound on loads that fail
  MaxPages        \* MAX_PAGES

VARIABLES
  status, address,  \* the session, as its listener sees it
  account,          \* OnChainAccountStore
  activity,         \* IndexedActivityStore
  fails             \* loads that have failed

vars == <<status, address, account, activity, fails>>

Session == INSTANCE Session

-----------------------------------------------------------------------------
(* Mutant: a stale refresh that lands.                                      *)
landsAnyway(wallet) == account.address # None

-----------------------------------------------------------------------------
(* OnChainAccountStore: `refreshing' is the wallet whose reads are in       *)
(* flight, `loaded' the wallet whose balances are shown.                    *)
refresh(s) ==
  IF s.address = None \/ s.refreshing # None
  THEN s
  ELSE [s EXCEPT !.refreshing = s.address]

accountBound(a) ==
  IF a = account.address
  THEN account
  ELSE refresh([account EXCEPT !.address = a, !.loaded = None])

(* A stale refresh must not land.                                           *)
lands(wallet) == account.address = wallet

refreshEnds(ok) ==
  [account EXCEPT !.loaded = IF ok /\ lands(account.refreshing) THEN account.refreshing ELSE @,
                  !.refreshing = None]

refreshAnswered(ok) ==
  /\ account.refreshing # None
  /\ ok \/ fails < MaxFails
  /\ account' = refreshEnds(ok)
  /\ fails' = IF ok THEN fails ELSE fails + 1
  /\ UNCHANGED <<status, address, activity>>

(* The timer runs from a wallet's binding to its release.                   *)
polling == account.address # None

(* The interval, and the tab becoming visible.                              *)
poll ==
  /\ polling
  /\ account.refreshing = None
  /\ account' = refresh(account)
  /\ UNCHANGED <<status, address, activity, fails>>

-----------------------------------------------------------------------------
(* IndexedActivityStore, one stream of the two: `rows' are the wallets      *)
(* whose rows are shown, `paging' the wallets whose next page is awaited.   *)
load(s) ==
  IF s.address = None \/ s.inflight # None
  THEN s
  ELSE [s EXCEPT !.inflight = s.address, !.loading = TRUE]

activityBound(a) ==
  IF a # None /\ a = activity.address
  THEN activity
  ELSE load([activity EXCEPT !.address = a, !.rows = {}, !.more = FALSE, !.pages = 0,
                             !.loading = FALSE])

loadEnds(ok, more) ==
  IF activity.address # activity.inflight
  THEN [activity EXCEPT !.inflight = None]
  ELSE [activity EXCEPT !.inflight = None, !.loading = FALSE, !.pages = 0,
                        !.rows = IF ok THEN {activity.inflight} ELSE @,
                        !.more = IF ok THEN more ELSE @]

loadAnswered(ok, more) ==
  /\ activity.inflight # None
  /\ ok \/ fails < MaxFails
  /\ activity' = loadEnds(ok, more)
  /\ fails' = IF ok THEN fails ELSE fails + 1
  /\ UNCHANGED <<status, address, account>>

(* The first subscription of a page to a store that has loaded nothing.     *)
ensureLoaded ==
  /\ activity.address # None /\ activity.rows = {}
  /\ activity' = load(activity)
  /\ UNCHANGED <<status, address, account, fails>>

loadMore ==
  /\ activity.address # None /\ activity.more
  /\ activity.pages < MaxPages
  /\ activity' = [activity EXCEPT !.pages = @ + 1, !.paging = @ \cup {activity.address}]
  /\ UNCHANGED <<status, address, account, fails>>

pageAnswered(w, ok, more) ==
  /\ w \in activity.paging
  /\ activity' = [activity EXCEPT !.paging = @ \ {w},
                                  !.rows = IF ok THEN @ \cup {w} ELSE @,
                                  !.more = IF ok THEN more ELSE @]
  /\ UNCHANGED <<status, address, account, fails>>

-----------------------------------------------------------------------------
(* makeReconciler, after a confirmed action and in its follow-up.           *)
reconcilerRefreshes ==
  /\ account' = refresh(account)
  /\ activity' = load(activity)
  /\ UNCHANGED <<status, address, fails>>

(* Web3Services' listener: the stores follow in the same step.              *)
sessionChanges ==
  /\ Session!SessionNext
  /\ account' = accountBound(address')
  /\ activity' = activityBound(address')
  /\ UNCHANGED fails

Init ==
  /\ Session!Idle
  /\ account = [address |-> None, loaded |-> None, refreshing |-> None]
  /\ activity = [address |-> None, rows |-> {}, more |-> FALSE, pages |-> 0, loading |-> FALSE,
                 inflight |-> None, paging |-> {}]
  /\ fails = 0

Next ==
  \/ sessionChanges
  \/ poll
  \/ reconcilerRefreshes
  \/ ensureLoaded
  \/ loadMore
  \/ \E ok \in BOOLEAN : refreshAnswered(ok)
  \/ \E ok, more \in BOOLEAN : loadAnswered(ok, more)
  \/ \E w \in Wallets, ok, more \in BOOLEAN : pageAnswered(w, ok, more)

(* Timers fire and reads answer, a bounded number of them with an error.    *)
Fairness ==
  /\ WF_vars(\E ok \in BOOLEAN : refreshAnswered(ok))
  /\ WF_vars(poll)

Spec == Init /\ [][Next]_vars /\ Fairness

-----------------------------------------------------------------------------
(* Properties                                                               *)

(* account-store.ts: the balances shown are those of the session's wallet,  *)
(* whatever refreshes were in flight when it was bound.                     *)
BalancesAreTheWallets == account.loaded \in {None, address}

(* activity-store.ts: "loading" is shown only while a load of the bound     *)
(* wallet is under way, so that no failure or switch wedges it.             *)
LoadingIsInflight == activity.loading => activity.inflight = address

(* account-store.ts: a wallet that stays bound has its balances loaded,     *)
(* also when an earlier wallet's refresh was in flight and its own first    *)
(* one skipped.                                                             *)
BalancesLoad == []<>(account.loaded = address) \/ []<><<address' # address>>_vars
=============================================================================
