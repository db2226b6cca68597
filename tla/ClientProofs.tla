---------------------------- MODULE ClientProofs ----------------------------
(***************************************************************************)
(* What the clients never do, for every number of wallets, calls, surfaces *)
(* and retries: the safety properties of MCClients, and the refinement of  *)
(* Session by the login.                                                   *)
(***************************************************************************)
EXTENDS MCClients, Integers, TLAPS

-----------------------------------------------------------------------------
(* CandidateStream: the reconnect timer is set only while no socket lives. *)
StreamInv == orphans = 0 /\ (reconnectTimer => ws \notin Stream!Alive)

LEMMA StreamStep ==
  ASSUME StreamInv, Stream!Next
  PROVE  StreamInv'
<1> USE DEF StreamInv, Stream!Alive, Stream!Socket
<1>1. CASE Stream!onOpen
  BY <1>1 DEF Stream!onOpen
<1>2. CASE Stream!onError
  BY <1>2 DEF Stream!onError
<1>3. CASE Stream!onClose
  BY <1>3 DEF Stream!onClose
<1>4. CASE Stream!ThresholdPasses
  BY <1>4 DEF Stream!ThresholdPasses
<1>5. ASSUME NEW constructed \in BOOLEAN, Stream!reconnect(constructed)
      PROVE  StreamInv'
  BY <1>5 DEF Stream!reconnect, Stream!open
<1>6. CASE Stream!sseLoopReturns
  BY <1>6 DEF Stream!sseLoopReturns
<1>7. CASE Stream!stop
  BY <1>7 DEF Stream!stop
<1> QED
  BY <1>1, <1>2, <1>3, <1>4, <1>5, <1>6, <1>7 DEF Stream!Next

-----------------------------------------------------------------------------
(* OracleFeed: without listeners there is no stream and no timer in a      *)
(* field, so that nothing that answers after the teardown starts anything. *)
FeedInv == Feed!TornDownIsQuiet /\ boots \in Nat /\ polls \in Nat /\ strays \in Nat

FeedStartsNothing ==
  ~mounted /\ ~mounted' =>
    /\ boots' <= boots /\ polls' <= polls /\ strays' <= strays
    /\ syncing' => syncing

LEMMA FeedStep ==
  ASSUME FeedInv, Feed!Next
  PROVE  FeedInv' /\ FeedStartsNothing
<1> USE DEF FeedInv, FeedStartsNothing, Feed!TornDownIsQuiet
<1>1. CASE Feed!subscribe
  BY <1>1 DEF Feed!subscribe, Feed!start
<1>2. CASE Feed!stop
  BY <1>2 DEF Feed!stop
<1>3. ASSUME NEW ok \in BOOLEAN, Feed!bootstrapped(ok)
      PROVE  FeedInv' /\ FeedStartsNothing
  BY <1>3 DEF Feed!bootstrapped, Feed!tornDown
<1>4. CASE Feed!poll
  BY <1>4 DEF Feed!poll
<1>5. ASSUME NEW ok \in BOOLEAN, Feed!pollAnswered(ok)
      PROVE  FeedInv' /\ FeedStartsNothing
  BY <1>5 DEF Feed!pollAnswered
<1>6. CASE Feed!onopen
  BY <1>6 DEF Feed!onopen
<1>7. ASSUME NEW fatal \in BOOLEAN, Feed!onerror(fatal)
      PROVE  FeedInv' /\ FeedStartsNothing
  BY <1>7 DEF Feed!onerror
<1>8. ASSUME NEW stray \in BOOLEAN, Feed!retry(stray)
      PROVE  FeedInv' /\ FeedStartsNothing
  BY <1>8 DEF Feed!retry
<1>9. CASE Feed!watchdog \/ Feed!resynced
  BY <1>9 DEF Feed!watchdog, Feed!resynced
<1> QED
  BY <1>1, <1>2, <1>3, <1>4, <1>5, <1>6, <1>7, <1>8, <1>9
     DEF Feed!Next, Feed!Bootstrapping, Feed!Polling, Feed!Connecting

StreamsQuiet == StreamInv /\ FeedInv

LEMMA InitStreams == Init => StreamsQuiet
BY DEF Init, Stream!Init, Stream!Stopped, Feed!Init, StreamsQuiet, StreamInv, FeedInv,
       Feed!TornDownIsQuiet, Stream!Alive, Stream!Socket

LEMMA StepStreams ==
  ASSUME StreamsQuiet, [Next]_allVars
  PROVE  StreamsQuiet' /\ (FeedStartsNothing \/ UNCHANGED feedVars)
<1>1. CASE UNCHANGED streamVars
  <2>1. StreamInv'
    BY <1>1 DEF StreamsQuiet, StreamInv, streamVars, Stream!Alive, Stream!Socket
  <2>2. CASE UNCHANGED feedVars
    BY <2>1, <2>2 DEF StreamsQuiet, FeedInv, feedVars, Feed!TornDownIsQuiet
  <2>3. CASE FeedMoves
    BY <2>1, <2>3, FeedStep DEF StreamsQuiet, FeedMoves
  <2> QED
    BY <2>2, <2>3 DEF Next, allVars, LoginMoves, RunnerMoves, StoresMove, CandlesMove, StreamMoves
<1>2. CASE StreamMoves
  <2>1. StreamInv'
    BY <1>2, StreamStep DEF StreamsQuiet, StreamMoves
  <2> QED
    BY <1>2, <2>1 DEF StreamsQuiet, FeedInv, StreamMoves, feedVars, Feed!TornDownIsQuiet
<1> QED
  BY <1>1, <1>2 DEF Next, allVars, LoginMoves, RunnerMoves, StoresMove, FeedMoves, CandlesMove

(* stream.ts and feed.ts: no socket of the keeper is forgotten while       *)
(* another is opened.  Without a listener the feed has no stream and no    *)
(* timer in a field, and whatever fires or answers then, a retry timeout   *)
(* that stop did not clear included, starts no call, no resync and no      *)
(* further timer, for every number of calls in flight.                     *)
THEOREM StreamsNeverForgotten == Spec => NoForgottenStream
<1>1. StreamsQuiet => Stream!OneSocket /\ Feed!TornDownIsQuiet
  BY DEF StreamsQuiet, StreamInv, FeedInv, Stream!OneSocket
<1>2. StreamsQuiet /\ [Next]_allVars => [FeedStartsNothing]_(Feed!vars)
  BY StepStreams DEF feedVars, Feed!vars
<1>3. Feed!TeardownStartsNothing <=> [][FeedStartsNothing]_(Feed!vars)
  BY DEF Feed!TeardownStartsNothing, FeedStartsNothing
<1> QED
  BY InitStreams, StepStreams, <1>1, <1>2, <1>3, PTL DEF Spec, NoForgottenStream

-----------------------------------------------------------------------------
(* WalletStores: both stores are bound to the session's wallet; what is    *)
(* shown, and what is waited for, is that wallet's.                        *)
StoresInv ==
  /\ account \in [address : {boundAddress}, loaded : {None, boundAddress},
                  refreshing : Addresses \cup {None}]
  /\ activity.address = boundAddress /\ boundAddress \in Addresses \cup {None}
  /\ activity \in [address : Addresses \cup {None}, rows : SUBSET Addresses, more : BOOLEAN,
                   pages : Nat, loading : BOOLEAN, inflight : Addresses \cup {None},
                   paging : SUBSET Addresses]
  /\ activity.loading => activity.inflight = boundAddress

LEMMA StoresStep ==
  ASSUME StoresInv, Stores!Next
  PROVE  StoresInv'
<1> DEFINE W == Addresses \cup {None}
           Acc(b) == [address : {b}, loaded : {None, b}, refreshing : W]
           Act == [address : W, rows : SUBSET Addresses, more : BOOLEAN, pages : Nat,
                   loading : BOOLEAN, inflight : W, paging : SUBSET Addresses]
           Bound(s, b) == s.address = b /\ (s.loading => s.inflight = b)
<1>1. /\ account \in Acc(boundAddress) /\ activity \in Act /\ Bound(activity, boundAddress)
      /\ boundAddress \in W
  BY DEF StoresInv
<1>2. SUFFICES /\ account' \in Acc(boundAddress') /\ activity' \in Act
               /\ Bound(activity', boundAddress') /\ boundAddress' \in W
  BY DEF StoresInv
<1>3. ASSUME NEW s \in Act, NEW b \in W, Bound(s, b)
      PROVE  Stores!load(s) \in Act /\ Bound(Stores!load(s), b)
  BY <1>3 DEF Stores!load
<1>4. ASSUME NEW b \in W, NEW s \in Acc(b)
      PROVE  Stores!refresh(s) \in Acc(b)
  BY <1>4 DEF Stores!refresh
<1>5. CASE Stores!sessionChanges
  <2>1. boundAddress' \in W
    BY <1>5 DEF Stores!sessionChanges, Stores!Session!SessionNext, Stores!Session!Connecting,
                Stores!Session!End, Stores!Session!Bind
  <2> DEFINE b == boundAddress'
             acc == [account EXCEPT !.address = b, !.loaded = None]
             act == [activity EXCEPT !.address = b, !.rows = {}, !.more = FALSE, !.pages = 0,
                                     !.loading = FALSE]
  <2>2. account' = Stores!accountBound(b) /\ activity' = Stores!activityBound(b)
    BY <1>5 DEF Stores!sessionChanges
  <2>3. acc \in Acc(b) /\ act \in Act /\ Bound(act, b)
    BY <1>1, <2>1
  <2>4. Stores!accountBound(b) \in Acc(b)
    <3>1. CASE b = account.address
      BY <1>1, <3>1 DEF Stores!accountBound
    <3>2. CASE b # account.address
      <4>1. Stores!accountBound(b) = Stores!refresh(acc)
        BY <3>2 DEF Stores!accountBound
      <4> HIDE DEF acc
      <4> QED
        BY <1>4, <2>1, <2>3, <4>1
    <3> QED
      BY <3>1, <3>2
  <2>5. Stores!activityBound(b) \in Act /\ Bound(Stores!activityBound(b), b)
    <3>1. CASE b # None /\ b = activity.address
      BY <1>1, <3>1 DEF Stores!activityBound
    <3>2. CASE ~(b # None /\ b = activity.address)
      <4>1. Stores!activityBound(b) = Stores!load(act)
        BY <3>2 DEF Stores!activityBound
      <4> HIDE DEF act
      <4> QED
        BY <1>3, <2>1, <2>3, <4>1
    <3> QED
      BY <3>1, <3>2
  <2> QED
    BY <2>1, <2>2, <2>4, <2>5
<1>6. CASE Stores!poll
  BY <1>1, <1>4, <1>6 DEF Stores!poll
<1>7. CASE Stores!reconcilerRefreshes
  BY <1>1, <1>3, <1>4, <1>7 DEF Stores!reconcilerRefreshes
<1>8. CASE Stores!ensureLoaded
  BY <1>1, <1>3, <1>8 DEF Stores!ensureLoaded
<1>9. CASE Stores!loadMore
  <2> DEFINE k == activity.pages + 1
             P == activity.paging \cup {activity.address}
  <2>1. activity.address \in Addresses /\ activity.pages \in Nat /\ activity.paging \subseteq Addresses
    BY <1>1, <1>9 DEF Stores!loadMore
  <2>2. k \in Nat /\ P \in SUBSET Addresses
    BY <2>1
  <2>3. activity' = [activity EXCEPT !.pages = k, !.paging = P]
    BY <1>9 DEF Stores!loadMore
  <2>4. UNCHANGED <<boundStatus, boundAddress, account>>
    BY <1>9 DEF Stores!loadMore
  <2> HIDE DEF k, P
  <2> QED
    BY <1>1, <2>2, <2>3, <2>4
<1>10. ASSUME NEW ok \in BOOLEAN, Stores!refreshAnswered(ok)
       PROVE  /\ account' \in Acc(boundAddress') /\ activity' \in Act
              /\ Bound(activity', boundAddress') /\ boundAddress' \in W
  BY <1>1, <1>10 DEF Stores!refreshAnswered, Stores!refreshEnds, Stores!lands
<1>11. ASSUME NEW ok \in BOOLEAN, NEW more \in BOOLEAN, Stores!loadAnswered(ok, more)
       PROVE  /\ account' \in Acc(boundAddress') /\ activity' \in Act
              /\ Bound(activity', boundAddress') /\ boundAddress' \in W
  BY <1>1, <1>11 DEF Stores!loadAnswered, Stores!loadEnds
<1>12. ASSUME NEW w \in Addresses, NEW ok \in BOOLEAN, NEW more \in BOOLEAN,
              Stores!pageAnswered(w, ok, more)
       PROVE  /\ account' \in Acc(boundAddress') /\ activity' \in Act
              /\ Bound(activity', boundAddress') /\ boundAddress' \in W
  BY <1>1, <1>12 DEF Stores!pageAnswered
<1> QED
  BY <1>5, <1>6, <1>7, <1>8, <1>9, <1>10, <1>11, <1>12 DEF Stores!Next

-----------------------------------------------------------------------------
(* WalletSession: a session is connected exactly while a signer is         *)
(* attached, and names it.                                                 *)
Statuses == {"idle", "connecting", "connected"}

Sessions == [status : Statuses, did : Login!Wallets \cup {None},
             address : Login!Wallets \cup {None}, chain : {None, "known"},
             sync : {"idle", "synced", "failed"}]

LoginInv ==
  /\ session \in Sessions
  /\ privy \in Login!Wallets \cup {None}
  /\ Login!SignerIsSession

(* What a step does to the session, as the stores and the runner see it.   *)
SessionMoves == Login!Abstract!SessionNext \/ UNCHANGED <<session.status, session.address>>

LEMMA LoginStep ==
  ASSUME LoginInv, Login!Next
  PROVE  LoginInv' /\ SessionMoves
<1> DEFINE W == Login!Wallets
           Good == /\ session' \in Sessions /\ privy' \in W \cup {None}
                   /\ (session'.status = "connected") <=> (attached' # None)
                   /\ session'.address = attached'
                   /\ SessionMoves
<1>1. /\ session \in Sessions /\ privy \in W \cup {None}
      /\ (session.status = "connected") <=> (attached # None)
      /\ session.address = attached
  BY DEF LoginInv, Sessions, Login!SignerIsSession
<1>2. SUFFICES Good
  BY DEF LoginInv, Sessions, Login!SignerIsSession
<1>3. None \notin W /\ Login!Wallets = Externals \cup Embeddeds
  BY ClientConstants DEF Login!Wallets
<1>4. ASSUME UNCHANGED <<session, attached>>, privy' \in W \cup {None}
      PROVE  Good
  BY <1>1, <1>4 DEF SessionMoves
<1>5. ASSUME NEW calls, Login!endSession(calls), UNCHANGED privy
      PROVE  Good
  <2>1. session' = Login!DISCONNECTED /\ attached' = None
    BY <1>5 DEF Login!endSession, Login!setSession
  <2>2. session' \in Sessions /\ session'.status = "idle" /\ session'.address = None
    BY <2>1 DEF Login!DISCONNECTED, Sessions, Statuses
  <2>3. Login!Abstract!End
    BY <2>2 DEF Login!Abstract!End
  <2> QED
    BY <1>1, <1>5, <2>1, <2>2, <2>3 DEF SessionMoves, Login!Abstract!SessionNext
<1>6. ASSUME NEW w \in W, NEW chain \in {None, "known"}, NEW calls,
             Login!attachWallet(w, chain, calls), UNCHANGED privy
      PROVE  Good
  <2>1. /\ session' = [session EXCEPT !.status = "connected", !.address = w, !.chain = chain]
        /\ attached' = w
    BY <1>6 DEF Login!attachWallet, Login!setSession
  <2>2. session' \in Sessions /\ session'.status = "connected" /\ session'.address = w
    BY <1>1, <2>1 DEF Sessions, Statuses
  <2>3. Login!Abstract!Bind(w)
    BY <2>2 DEF Login!Abstract!Bind
  <2> QED
    BY <1>1, <1>3, <1>6, <2>1, <2>2, <2>3 DEF SessionMoves, Login!Abstract!SessionNext
<1>7. ASSUME NEW next \in Sessions, NEW calls, Login!setSession(next, calls),
             next.status = session.status, next.address = session.address,
             UNCHANGED <<privy, attached>>
      PROVE  Good
  <2>1. session' = next
    BY <1>7 DEF Login!setSession
  <2> QED
    BY <1>1, <1>7, <2>1 DEF SessionMoves
<1>8. CASE Login!DialogStep
  BY <1>1, <1>4, <1>8
     DEF Login!DialogStep, Login!connect, Login!cancelConnect, Login!backToMethod,
         Login!chooseOAuth, Login!oauthFails, Login!sendCode, Login!submitCode, Login!chooseWallet
<1>9. CASE Login!Answer
  <2>1. ASSUME NEW u \in Embeddeds, Login!codeSent(u)
        PROVE  Good
    BY <1>1, <1>4, <2>1 DEF Login!codeSent
  <2>2. ASSUME NEW u \in Embeddeds, NEW ok \in BOOLEAN, Login!verified(u, ok)
        PROVE  Good
    BY <1>1, <1>3, <1>4, <2>2 DEF Login!verified
  <2>3. ASSUME NEW w \in Externals, NEW ok \in BOOLEAN, Login!accountsAnswered(w, ok)
        PROVE  Good
    BY <1>1, <1>4, <2>3 DEF Login!accountsAnswered
  <2>4. ASSUME NEW w \in Externals, NEW ok \in BOOLEAN, Login!siweSigned(w, ok)
        PROVE  Good
    BY <1>1, <1>3, <1>4, <2>4 DEF Login!siweSigned
  <2>5. ASSUME NEW w \in Embeddeds, Login!providerReady(w)
        PROVE  Good
    BY <1>3, <1>6, <2>5 DEF Login!providerReady
  <2>6. ASSUME NEW w \in Externals, Login!restored(w)
        PROVE  Good
    BY <1>3, <1>6, <2>6 DEF Login!restored
  <2>7. ASSUME NEW w \in Externals, Login!restoreFails(w)
        PROVE  Good
    BY <1>5, <2>7 DEF Login!restoreFails
  <2>8. ASSUME NEW ok \in BOOLEAN, Login!logoutAnswered(ok)
        PROVE  Good
    BY <1>1, <1>4, <2>8 DEF Login!logoutAnswered
  <2>9. ASSUME NEW w \in W, NEW ok \in BOOLEAN, Login!switchAnswered(w, ok)
        PROVE  Good
    <3>1. [session EXCEPT !.chain = "known"] \in Sessions
      BY <1>1 DEF Sessions
    <3>2. /\ [session EXCEPT !.chain = "known"].status = session.status
          /\ [session EXCEPT !.chain = "known"].address = session.address
      BY <1>1 DEF Sessions
    <3> QED
      BY <1>1, <1>4, <1>7, <2>9, <3>1, <3>2 DEF Login!switchAnswered, Login!setChain
  <2>10. ASSUME NEW state \in {"synced", "failed"}, Login!markSync(state)
         PROVE  Good
    <3> DEFINE next == [session EXCEPT !.sync = state]
    <3>1. next \in Sessions /\ next.status = session.status /\ next.address = session.address
      BY <1>1, <2>10 DEF Sessions
    <3>2. \E calls : Login!setSession(next, calls)
      BY <2>10 DEF Login!markSync
    <3> HIDE DEF next
    <3> QED
      BY <1>7, <2>10, <3>1, <3>2 DEF Login!markSync
  <2>11. ASSUME NEW u \in Embeddeds, NEW ok \in BOOLEAN, Login!created(u, ok)
         PROVE  Good
    BY <1>1, <1>4, <2>11 DEF Login!created
  <2>12. ASSUME NEW w \in Embeddeds, Login!providerFails(w)
         PROVE  Good
    BY <1>1, <1>4, <2>12 DEF Login!providerFails
  <2> QED
    BY <1>9, <2>1, <2>2, <2>3, <2>4, <2>5, <2>6, <2>7, <2>8, <2>9, <2>10, <2>11, <2>12
       DEF Login!Answer
<1>10. ASSUME NEW w \in W, Login!chainReported(w)
       PROVE  Good
  <2> DEFINE next == [session EXCEPT !.chain = "known"]
  <2>1. next \in Sessions /\ next.status = session.status /\ next.address = session.address
    BY <1>1 DEF Sessions
  <2>2. \E calls : Login!setSession(next, calls)
    BY <1>10 DEF Login!chainReported, Login!setChain
  <2> HIDE DEF next
  <2> QED
    BY <1>7, <1>10, <2>1, <2>2 DEF Login!chainReported
<1>11. CASE Login!sessionEffect
  <2>1. CASE privy = None
    BY <1>1, <1>4, <1>5, <1>11, <2>1 DEF Login!sessionEffect
  <2>2. CASE privy # None
    <3> DEFINE next == Login!setDid(session, privy)
    <3>1. \E calls : Login!setSession(next, calls)
      BY <1>11, <2>2 DEF Login!sessionEffect
    <3>2. UNCHANGED <<privy, attached>>
      BY <1>11, <2>2 DEF Login!sessionEffect
    <3>3. CASE session.status = "idle"
      <4>1. session' = [session EXCEPT !.did = privy, !.status = "connecting"]
        BY <3>1, <3>3 DEF Login!setSession, Login!setDid
      <4>2. /\ session' \in Sessions /\ session'.status = "connecting"
            /\ session'.address = session.address
        BY <1>1, <4>1 DEF Sessions, Statuses
      <4>3. Login!Abstract!Connecting
        BY <1>1, <3>3, <4>2 DEF Login!Abstract!Connecting
      <4> QED
        BY <1>1, <3>2, <3>3, <4>2, <4>3 DEF SessionMoves, Login!Abstract!SessionNext
    <3>4. CASE session.status # "idle"
      <4>1. next = [session EXCEPT !.did = privy]
        BY <3>4 DEF Login!setDid
      <4>2. next \in Sessions /\ next.status = session.status /\ next.address = session.address
        BY <1>1, <4>1 DEF Sessions
      <4> HIDE DEF next
      <4> QED
        BY <1>7, <3>1, <3>2, <4>2
    <3> QED
      BY <3>3, <3>4
  <2> QED
    BY <2>1, <2>2
<1>12. CASE Login!disconnect \/ Login!walletChanged
  BY <1>5, <1>12 DEF Login!disconnect, Login!walletChanged
<1>13. CASE Login!switchChain
  BY <1>1, <1>4, <1>13 DEF Login!switchChain
<1>14. CASE Login!walletLinked \/ Login!walletsListed \/ Login!privyExpires
  BY <1>1, <1>4, <1>14 DEF Login!walletLinked, Login!walletsListed, Login!privyExpires
<1>15. ASSUME NEW u \in W \cup {None}, Login!load(u)
       PROVE  Good
  <2>1. session' = Login!DISCONNECTED /\ attached' = None /\ privy' \in W \cup {None}
    BY <1>15 DEF Login!load
  <2>2. session' \in Sessions /\ session'.status = "idle" /\ session'.address = None
    BY <2>1 DEF Login!DISCONNECTED, Sessions, Statuses
  <2>3. Login!Abstract!End
    BY <2>2 DEF Login!Abstract!End
  <2> QED
    BY <2>1, <2>2, <2>3 DEF SessionMoves, Login!Abstract!SessionNext
<1> QED
  BY <1>8, <1>9, <1>10, <1>11, <1>12, <1>13, <1>14, <1>15 DEF Login!Next

-----------------------------------------------------------------------------
WalletInv == LoginInv /\ StoresInv

LEMMA InitWallet == Init => WalletInv
<1> SUFFICES ASSUME Init PROVE WalletInv
  OBVIOUS
<1>1. LoginInv
  BY DEF Init, Login!Init, Login!DISCONNECTED, LoginInv, Login!SignerIsSession, Sessions, Statuses
<1>2. StoresInv
  BY DEF Init, Stores!Init, Stores!Session!Idle, StoresInv
<1> QED
  BY <1>1, <1>2 DEF WalletInv

LEMMA StepWallet ==
  ASSUME WalletInv, [Next]_allVars
  PROVE  WalletInv' /\ SessionMoves
<1>1. LoginInv /\ StoresInv
  BY DEF WalletInv
<1>2. ASSUME UNCHANGED loginVars
      PROVE  LoginInv' /\ SessionMoves
  BY <1>1, <1>2 DEF loginVars, LoginInv, Login!SignerIsSession, SessionMoves
<1>3. ASSUME UNCHANGED storesVars
      PROVE  StoresInv'
  BY <1>1, <1>3 DEF storesVars, StoresInv
<1>4. CASE LoginMoves
  BY <1>1, <1>3, <1>4, LoginStep DEF LoginMoves, WalletInv
<1>5. CASE StoresMove
  BY <1>1, <1>2, <1>5, StoresStep DEF StoresMove, WalletInv
<1>6. CASE UNCHANGED <<loginVars, storesVars>>
  BY <1>2, <1>3, <1>6 DEF WalletInv
<1> QED
  BY <1>4, <1>5, <1>6 DEF Next, allVars, StreamMoves, RunnerMoves, FeedMoves, CandlesMove

(* privy-auth-port.ts, account-store.ts and activity-store.ts: however     *)
(* late the answers come, the signer, the balances shown and the loads     *)
(* waited for are the session's.                                           *)
THEOREM WalletsAreSessions == Spec => []WalletIsSessions
<1>1. WalletInv /\ [Next]_allVars => WalletInv'
  BY StepWallet
<1>2. WalletInv => WalletIsSessions
  BY DEF WalletInv, LoginInv, StoresInv, WalletIsSessions, Stores!BalancesAreTheWallets,
         Stores!LoadingIsInflight
<1> QED
  BY <1>1, <1>2, InitWallet, PTL DEF Spec

(* privy-auth-port.ts: the login implements Session, which the stores and  *)
(* the runner are built on.                                                *)
THEOREM LoginImplementsSession == Spec => ImplementsSession
<1>1. WalletInv /\ [Next]_allVars => WalletInv'
  BY StepWallet
<1>2. WalletInv /\ [Next]_allVars => [Login!Abstract!SessionNext]_<<session.status, session.address>>
  BY StepWallet DEF SessionMoves
<1>3. Init => Login!Abstract!Idle
  BY DEF Init, Login!Init, Login!DISCONNECTED, Login!Abstract!Idle
<1> QED
  BY <1>1, <1>2, <1>3, InitWallet, PTL
     DEF Spec, ImplementsSession, Login!ImplementsSession, Login!Abstract!Spec

-----------------------------------------------------------------------------
(* ActionRunner: where a program is suspended says what its transactions   *)
(* have done.  Before the signature the chain owes every leg that is left; *)
(* once it is read as confirmed, one less.                                 *)
Mined == {"success", "ingested"}

Pcs == {"new", "head", "client", "sign", "receipt", "simulate", "stores", "evidence", "follow",
        "flip", "done"}
Phases == {"validating", "approving", "simulating", "awaiting-signature", "submitted",
           "reconciling", "complete", "declined", "failed", "reverted"}

Program == [pc : Pcs, origin : Origins \cup {None}, legs : Nat, wallet : Addresses \cup {None},
            chain : {"none", "sent", "reverted"} \cup Mined, owed : Int,
            asked : Addresses \cup {None}, follow : Int, cleared : BOOLEAN]
Record == [origin : Origins, phase : Phases, indexed : BOOLEAN]

(* Where the action is still under way.                                    *)
Live == {"head", "simulate", "client", "sign", "receipt", "stores", "evidence"}

ProgramOK(p) ==
  /\ p.pc = "new" => ~p.cleared
  /\ p.pc \in Live => p.legs >= 1
  /\ p.pc = "simulate" => p.legs = 1
  /\ p.pc \in {"head", "simulate", "client", "sign"} => p.owed = p.legs /\ p.chain # "sent"
  /\ p.pc \in {"new", "sign"} => p.chain = "none"
  /\ p.pc = "receipt" =>
       \/ p.chain \in {"sent", "reverted"} /\ p.owed = p.legs
       \/ p.chain \in Mined /\ p.owed = p.legs - 1
  /\ p.pc \in {"stores", "evidence", "follow", "flip"} => p.owed = 0 /\ p.chain \in Mined
  /\ p.pc = "flip" => p.chain = "ingested"

RecordOK(p, a) ==
  /\ p.pc # "new" /\ ~p.cleared
  /\ p.pc \in Live => ~Runner!isActionTerminal(a.phase)
  /\ a.phase \in {"reconciling", "complete"} => p.owed = 0 /\ p.chain \in Mined
  /\ a.phase = "reconciling" => p.pc \in {"stores", "evidence"}
  /\ a.phase = "reverted" => p.chain = "reverted" /\ p.pc = "done"
  /\ a.phase = "declined" => p.chain = "none" /\ p.pc = "done"
  /\ a.indexed => p.chain = "ingested" /\ p.pc = "done"

Active(a) == a # None /\ ~Runner!isActionTerminal(a.phase)

RunnerInv ==
  /\ run \in [Runs -> Program] /\ action \in [Runs -> Record \cup {None}]
  /\ address \in Addresses \cup {None}
  /\ \A r \in Runs : ProgramOK(run[r])
  /\ \A r \in Runs : action[r] # None => RecordOK(run[r], action[r])
  /\ Runner!OneActionPerSurface

(* A step of one program: what it has to show of its own two records.      *)
LEMMA ProgramStep ==
  ASSUME RunnerInv, NEW r \in Runs, NEW p \in Program, NEW a \in Record \cup {None},
         ProgramOK(p), a # None => RecordOK(p, a),
         Active(a) => Active(action[r]) /\ a.origin = action[r].origin,
         run' = [run EXCEPT ![r] = p], action' = [action EXCEPT ![r] = a],
         address' = address
  PROVE  RunnerInv'
<1>1. run' \in [Runs -> Program] /\ action' \in [Runs -> Record \cup {None}]
  BY DEF RunnerInv
<1>2. \A s \in Runs : /\ run'[s] = IF s = r THEN p ELSE run[s]
                      /\ action'[s] = IF s = r THEN a ELSE action[s]
  BY DEF RunnerInv
<1>3. \A s \in Runs : ProgramOK(run'[s]) /\ (action'[s] # None => RecordOK(run'[s], action'[s]))
  BY <1>2 DEF RunnerInv
<1>4. \A s \in Runs : Active(action'[s]) => Active(action[s]) /\ action'[s].origin = action[s].origin
  BY <1>2
<1>5. \A s, t \in Runs : Active(action[s]) /\ Active(action[t]) /\ action[s].origin = action[t].origin
                          => s = t
  BY DEF RunnerInv, Runner!OneActionPerSurface, Active
<1>6. Runner!OneActionPerSurface'
  BY <1>4, <1>5 DEF Runner!OneActionPerSurface, Active
<1> QED
  BY <1>1, <1>3, <1>6 DEF RunnerInv

LEMMA RunnerStart ==
  ASSUME RunnerInv, NEW r \in Runs, NEW o \in Origins, NEW n \in 0..MaxApprovals, NEW stale \in BOOLEAN,
         Runner!start(r, o, n, stale)
  PROVE  RunnerInv'
<1> DEFINE p == [run[r] EXCEPT !.pc = IF stale THEN "done" ELSE "head", !.origin = o,
                               !.owed = n + 1, !.legs = IF stale THEN 0 ELSE n + 1]
           a == [origin |-> o, indexed |-> FALSE, phase |-> IF stale THEN "failed" ELSE "validating"]
<1>1. run[r] \in Program /\ run[r].pc = "new" /\ ~run[r].cleared /\ n \in Nat
  BY DEF RunnerInv, ProgramOK, Runner!start
<1>2. run' = [run EXCEPT ![r] = p] /\ action' = [action EXCEPT ![r] = a] /\ address' = address
  BY DEF Runner!start, RunnerInv
<1>3. p \in Program /\ ProgramOK(p) /\ p.pc # "new" /\ ~p.cleared /\ (p.pc = "head" <=> ~stale)
  <2> DEFINE k == n + 1
             pc == IF stale THEN "done" ELSE "head"
             legs == IF stale THEN 0 ELSE k
  <2>1. k \in Nat /\ k >= 1 /\ pc \in {"done", "head"} /\ legs \in Nat
    BY <1>1
  <2>2. pc = "head" => legs = k /\ ~stale
    OBVIOUS
  <2>3. p = [run[r] EXCEPT !.pc = pc, !.origin = o, !.owed = k, !.legs = legs]
    OBVIOUS
  <2>4. pc = "head" <=> ~stale
    OBVIOUS
  <2>5. run[r].chain # "sent"
    BY <1>1 DEF RunnerInv, ProgramOK
  <2> HIDE DEF k, pc, legs, p
  <2>6. p \in Program
    <3>1. pc \in Pcs /\ k \in Int /\ o \in Origins \cup {None}
      BY <2>1 DEF Pcs
    <3> QED
      BY <1>1, <2>1, <2>3, <3>1 DEF Program
  <2>7. p.pc = pc /\ p.legs = legs /\ p.owed = k /\ p.cleared = run[r].cleared
    BY <1>1, <2>3 DEF Program
  <2>8. p.chain = run[r].chain
    BY <1>1, <2>3 DEF Program
  <2>9. ProgramOK(p)
    BY <1>1, <2>1, <2>2, <2>5, <2>7, <2>8 DEF ProgramOK, Live
  <2>10. p.pc # "new" /\ ~p.cleared
    BY <1>1, <2>1, <2>7
  <2> QED
    BY <2>4, <2>6, <2>7, <2>9, <2>10
<1>4. a \in Record /\ RecordOK(p, a)
  <2> DEFINE ph == IF stale THEN "failed" ELSE "validating"
  <2>1. ph \in {"failed", "validating"} /\ (~stale => ph = "validating")
    OBVIOUS
  <2>2. a = [origin |-> o, indexed |-> FALSE, phase |-> ph]
    OBVIOUS
  <2> HIDE DEF ph, a, p
  <2>3. a \in Record
    BY <2>1, <2>2 DEF Record, Phases
  <2>4. a.phase = ph /\ ~a.indexed
    BY <2>2
  <2>5. p.pc \in {"done", "head"}
    BY DEF p
  <2> QED
    BY <1>3, <2>1, <2>3, <2>4, <2>5 DEF RecordOK, Live, Runner!isActionTerminal
<1>5. \A s \in Runs : Active(action[s]) => action[s].origin # o
  BY DEF Runner!start, Runner!isActionActive, Active
<1> HIDE DEF p, a
<1>6. run' \in [Runs -> Program] /\ action' \in [Runs -> Record \cup {None}]
  BY <1>2, <1>3, <1>4 DEF RunnerInv
<1>7. \A s \in Runs : /\ run'[s] = IF s = r THEN p ELSE run[s]
                      /\ action'[s] = IF s = r THEN a ELSE action[s]
  BY <1>2 DEF RunnerInv
<1>8. \A s \in Runs : ProgramOK(run'[s]) /\ (action'[s] # None => RecordOK(run'[s], action'[s]))
  BY <1>3, <1>4, <1>7 DEF RunnerInv
<1>9. \A s, t \in Runs : Active(action[s]) /\ Active(action[t]) /\ action[s].origin = action[t].origin
                          => s = t
  BY DEF RunnerInv, Runner!OneActionPerSurface, Active
<1>10. a.origin = o
  BY DEF a
<1>11. Runner!OneActionPerSurface'
  BY <1>5, <1>7, <1>9, <1>10 DEF Runner!OneActionPerSurface, Active
<1> QED
  BY <1>2, <1>6, <1>8, <1>11 DEF RunnerInv

(* The session's end takes every record.                                   *)
LEMMA RunnerSession ==
  ASSUME RunnerInv, Runner!sessionChanges
  PROVE  RunnerInv'
<1>1. address' \in Addresses \cup {None}
  BY DEF Runner!sessionChanges, Runner!Session!SessionNext, Runner!Session!Connecting,
         Runner!Session!End, Runner!Session!Bind
<1>2. CASE status' = "idle"
  <2> DEFINE q(s) == [run[s] EXCEPT !.cleared = @ \/ run[s].pc # "new"]
  <2>1. action' = [r \in Runs |-> None] /\ run' = [s \in Runs |-> q(s)]
    BY <1>2 DEF Runner!sessionChanges
  <2>2. ASSUME NEW s \in Runs
        PROVE  q(s) \in Program /\ ProgramOK(q(s))
    <3> DEFINE c == run[s].cleared \/ run[s].pc # "new"
    <3>1. run[s] \in Program /\ ProgramOK(run[s])
      BY DEF RunnerInv
    <3>2. c \in BOOLEAN /\ (run[s].pc = "new" => ~c)
      BY <3>1 DEF Program, ProgramOK
    <3>3. q(s) = [run[s] EXCEPT !.cleared = c]
      BY <3>1 DEF Program
    <3> HIDE DEF c
    <3> QED
      BY <3>1, <3>2, <3>3 DEF Program, ProgramOK
  <2> HIDE DEF q
  <2>3. run' \in [Runs -> Program] /\ action' \in [Runs -> Record \cup {None}]
    BY <2>1, <2>2
  <2>4. \A s \in Runs : ProgramOK(run'[s]) /\ action'[s] = None
    BY <2>1, <2>2
  <2> QED
    BY <1>1, <2>3, <2>4 DEF RunnerInv, Runner!OneActionPerSurface
<1>3. CASE status' # "idle"
  <2>1. UNCHANGED <<action, run>>
    BY <1>3 DEF Runner!sessionChanges
  <2> QED
    BY <1>1, <2>1 DEF RunnerInv, Runner!OneActionPerSurface
<1> QED
  BY <1>2, <1>3

(* A patch of a record.                                                    *)
LEMMA Patched ==
  ASSUME RunnerInv, NEW r \in Runs, NEW phase \in Phases
  PROVE  \E a \in Record \cup {None} :
           /\ Runner!patch(r, phase) = [action EXCEPT ![r] = a]
           /\ a # None => /\ action[r] # None /\ a \in Record /\ action[r] \in Record
                          /\ a.phase = phase /\ a.origin = action[r].origin
                          /\ a.indexed = action[r].indexed
<1> DEFINE a == IF action[r] = None THEN None ELSE [action[r] EXCEPT !.phase = phase]
<1>1. action \in [Runs -> Record \cup {None}] /\ action[r] \in Record \cup {None}
  BY DEF RunnerInv
<1>2. Runner!patch(r, phase) = [action EXCEPT ![r] = a]
  BY <1>1 DEF Runner!patch
<1>3. CASE action[r] = None
  BY <1>2, <1>3
<1>4. CASE action[r] # None
  <2>1. action[r] \in Record /\ a = [action[r] EXCEPT !.phase = phase]
    BY <1>1, <1>4
  <2> HIDE DEF a
  <2>2. a \in Record /\ a.phase = phase /\ a.origin = action[r].origin /\ a.indexed = action[r].indexed
    BY <2>1 DEF Record
  <2> QED
    BY <1>2, <1>4, <2>1, <2>2
<1> QED
  BY <1>3, <1>4

(* A program that goes on, and says so.                                    *)
LEMMA GoesOn ==
  ASSUME RunnerInv, NEW r \in Runs, NEW p \in Program, NEW phase \in Phases,
         run[r].pc \in Live, p.pc \in Live, p.cleared = run[r].cleared, ProgramOK(p),
         ~Runner!isActionTerminal(phase),
         phase = "reconciling" => p.pc = "stores",
         run' = [run EXCEPT ![r] = p], action' = Runner!patch(r, phase), address' = address
  PROVE  RunnerInv'
<1>1. PICK a \in Record \cup {None} :
        /\ Runner!patch(r, phase) = [action EXCEPT ![r] = a]
        /\ a # None => /\ action[r] # None /\ a \in Record /\ action[r] \in Record
                       /\ a.phase = phase /\ a.origin = action[r].origin
                       /\ a.indexed = action[r].indexed
  BY Patched
<1>2. a # None => RecordOK(run[r], action[r])
  BY <1>1 DEF RunnerInv
<1>3. a # None => RecordOK(p, a)
  BY <1>1, <1>2 DEF RecordOK, ProgramOK, Live, Phases, Runner!isActionTerminal
<1>4. Active(a) => Active(action[r]) /\ a.origin = action[r].origin
  BY <1>1, <1>2 DEF Active, RecordOK
<1> QED
  BY <1>1, <1>3, <1>4, ProgramStep

(* A program that goes on silently.                                        *)
LEMMA GoesOnSilently ==
  ASSUME RunnerInv, NEW r \in Runs, NEW p \in Program, ProgramOK(p),
         action[r] # None => RecordOK(p, action[r]),
         run' = [run EXCEPT ![r] = p], UNCHANGED <<action, address>>
  PROVE  RunnerInv'
<1>1. action[r] \in Record \cup {None} /\ action' = [action EXCEPT ![r] = action[r]]
  BY DEF RunnerInv
<1> QED
  BY <1>1, ProgramStep

(* The end of a program.                                                   *)
LEMMA Ended ==
  ASSUME RunnerInv, NEW r \in Runs
  PROVE  \E p \in Program : /\ Runner!ended(r) = [run EXCEPT ![r] = p]
                            /\ p.pc = "done" /\ p.cleared = run[r].cleared
                            /\ p.owed = run[r].owed /\ p.chain = run[r].chain
                            /\ ProgramOK(p)
<1> DEFINE p == [run[r] EXCEPT !.pc = "done", !.legs = 0, !.wallet = None, !.asked = None]
<1>1. run \in [Runs -> Program] /\ run[r] \in Program
  BY DEF RunnerInv
<1>2. Runner!ended(r) = [run EXCEPT ![r] = p]
  BY <1>1 DEF Runner!ended, Program
<1>3. /\ p \in Program /\ p.pc = "done" /\ p.cleared = run[r].cleared
      /\ p.owed = run[r].owed /\ p.chain = run[r].chain
  BY <1>1 DEF Program, Pcs
<1> HIDE DEF p
<1>4. ProgramOK(p)
  BY <1>3 DEF ProgramOK, Live
<1> QED
  BY <1>2, <1>3, <1>4

LEMMA Settles ==
  ASSUME RunnerInv, NEW r \in Runs, NEW phase \in {"complete", "declined", "failed", "reverted"},
         run[r].pc \in Live,
         phase = "complete" => run[r].owed = 0 /\ run[r].chain \in Mined,
         phase = "declined" => run[r].chain = "none",
         phase = "reverted" => run[r].chain = "reverted",
         Runner!settle(r, phase), address' = address
  PROVE  RunnerInv'
<1>1. phase \in Phases
  BY DEF Phases
<1>2. PICK a \in Record \cup {None} :
        /\ Runner!patch(r, phase) = [action EXCEPT ![r] = a]
        /\ a # None => /\ action[r] # None /\ a \in Record /\ action[r] \in Record
                       /\ a.phase = phase /\ a.origin = action[r].origin
                       /\ a.indexed = action[r].indexed
  BY <1>1, Patched
<1>3. PICK p \in Program : /\ Runner!ended(r) = [run EXCEPT ![r] = p]
                           /\ p.pc = "done" /\ p.cleared = run[r].cleared
                           /\ p.owed = run[r].owed /\ p.chain = run[r].chain
                           /\ ProgramOK(p)
  BY Ended
<1>4. run' = [run EXCEPT ![r] = p] /\ action' = [action EXCEPT ![r] = a]
  BY <1>2, <1>3 DEF Runner!settle
<1>5. a # None => RecordOK(run[r], action[r])
  BY <1>2 DEF RunnerInv
<1>6. a # None => RecordOK(p, a)
  BY <1>2, <1>3, <1>5 DEF RecordOK, Live
<1>7. ~Active(a)
  BY <1>2 DEF Active, Runner!isActionTerminal
<1> QED
  BY <1>3, <1>4, <1>6, <1>7, ProgramStep

(* The next leg of an action, with all that is left of it still owed.      *)
LEMMA AsksWallet ==
  ASSUME RunnerInv, NEW r \in Runs, NEW legs \in Nat, NEW phase \in {"approving", "awaiting-signature"},
         NEW refused \in BOOLEAN, run[r].pc \in Live, run[r].chain # "sent", legs >= 1,
         run[r].owed = legs, Runner!askWallet(r, legs, phase, refused), address' = address
  PROVE  RunnerInv'
<1>1. CASE refused \/ status # "connected"
  <2>1. Runner!settle(r, "failed")
    BY <1>1 DEF Runner!askWallet
  <2> QED
    BY <2>1, Settles
<1>2. CASE ~(refused \/ status # "connected")
  <2> DEFINE p == [run[r] EXCEPT !.pc = "client", !.legs = legs, !.wallet = address]
  <2>1. run \in [Runs -> Program] /\ run[r] \in Program /\ address \in Addresses \cup {None}
    BY DEF RunnerInv
  <2>2. run' = [run EXCEPT ![r] = p] /\ action' = Runner!patch(r, phase)
    BY <1>2, <2>1 DEF Runner!askWallet, Program
  <2>3. /\ p \in Program /\ p.pc = "client" /\ p.cleared = run[r].cleared /\ p.legs = legs
        /\ p.owed = legs /\ p.chain = run[r].chain
    BY <2>1 DEF Program, Pcs
  <2> HIDE DEF p
  <2>4. ProgramOK(p) /\ p.pc \in Live
    BY <2>3 DEF ProgramOK, Live
  <2>5. phase \in Phases /\ ~Runner!isActionTerminal(phase) /\ phase # "reconciling"
    BY DEF Phases, Runner!isActionTerminal
  <2> QED
    BY <2>2, <2>3, <2>4, <2>5, GoesOn
<1> QED
  BY <1>1, <1>2

LEMMA TakesNextLeg ==
  ASSUME RunnerInv, NEW r \in Runs, NEW legs \in Nat, NEW refused \in BOOLEAN,
         run[r].pc \in Live, run[r].chain # "sent", legs >= 1, run[r].owed = legs,
         Runner!nextLeg(r, legs, refused), address' = address
  PROVE  RunnerInv'
<1>1. CASE legs > 1
  <2>1. Runner!askWallet(r, legs, "approving", refused)
    BY <1>1 DEF Runner!nextLeg
  <2> QED
    BY <2>1, AsksWallet
<1>2. CASE ~(legs > 1)
  <2> DEFINE p == [run[r] EXCEPT !.pc = "simulate", !.legs = legs]
  <2>1. run \in [Runs -> Program] /\ run[r] \in Program
    BY DEF RunnerInv
  <2>2. run' = [run EXCEPT ![r] = p] /\ action' = Runner!patch(r, "simulating")
    BY <1>2, <2>1 DEF Runner!nextLeg, Program
  <2>3. /\ p \in Program /\ p.pc = "simulate" /\ p.cleared = run[r].cleared /\ p.legs = legs
        /\ p.owed = legs /\ p.chain = run[r].chain
    BY <2>1 DEF Program, Pcs
  <2> HIDE DEF p
  <2>4. ProgramOK(p) /\ p.pc \in Live
    BY <1>2, <2>3 DEF ProgramOK, Live
  <2>5. "simulating" \in Phases /\ ~Runner!isActionTerminal("simulating")
    BY DEF Phases, Runner!isActionTerminal
  <2> QED
    BY <2>2, <2>3, <2>4, <2>5, GoesOn
<1> QED
  BY <1>1, <1>2

(* What the transaction store settles is what the runner reports.          *)
LEMMA TxSettles ==
  ASSUME RunnerInv, NEW r \in Runs, NEW txStatus, NEW phase \in {"declined", "failed", "reverted"},
         run[r].pc \in Live,
         phase = "declined" => run[r].chain = "none",
         phase = "reverted" /\ tx[r] # None => run[r].chain = "reverted",
         Runner!txSettle(r, txStatus, phase), address' = address
  PROVE  RunnerInv'
<1>1. CASE tx[r] = None
  <2>1. Runner!settle(r, "failed")
    BY <1>1 DEF Runner!txSettle
  <2> QED
    BY <2>1, Settles
<1>2. CASE tx[r] # None
  <2>1. Runner!settle(r, phase)
    BY <1>2 DEF Runner!txSettle
  <2> QED
    BY <1>2, <2>1, Settles
<1> QED
  BY <1>1, <1>2

LEMMA RunnerStep ==
  ASSUME RunnerInv, Runner!Next
  PROVE  RunnerInv'
<1>1. run \in [Runs -> Program] /\ \A r \in Runs : run[r] \in Program /\ ProgramOK(run[r])
  BY DEF RunnerInv
<1>2. \A r \in Runs : action[r] # None => RecordOK(run[r], action[r])
  BY DEF RunnerInv
<1>3. ASSUME NEW r \in Runs, Runner!UserStep(r)
      PROVE  RunnerInv'
  <2>1. CASE \E o \in Origins, n \in 0..MaxApprovals, stale \in BOOLEAN : Runner!start(r, o, n, stale)
    BY <2>1, RunnerStart
  <2>2. CASE Runner!declined(r)
    <3>1. run[r].pc \in Live /\ run[r].chain = "none"
      BY <1>1, <2>2 DEF Runner!declined, Live, ProgramOK
    <3> QED
      BY <2>2, <3>1, TxSettles DEF Runner!declined
  <2>3. CASE Runner!walletFails(r)
    <3>1. run[r].pc \in Live
      BY <2>3 DEF Runner!walletFails, Live
    <3> QED
      BY <2>3, <3>1, TxSettles DEF Runner!walletFails
  <2>4. CASE Runner!signed(r)
    <3> DEFINE p == [run[r] EXCEPT !.pc = "receipt", !.chain = "sent"]
    <3>1. run[r] \in Program /\ run[r].pc = "sign" /\ run[r].pc \in Live
      BY <1>1, <2>4 DEF Runner!signed, Live
    <3>2. run' = [run EXCEPT ![r] = p] /\ address' = address
      BY <1>1, <2>4 DEF Runner!signed, Program
    <3>3. run[r].owed = run[r].legs /\ run[r].legs >= 1
      BY <1>1, <3>1 DEF ProgramOK
    <3>4. /\ p \in Program /\ p.pc = "receipt" /\ p.cleared = run[r].cleared /\ p.chain = "sent"
          /\ p.owed = run[r].owed /\ p.legs = run[r].legs
      BY <3>1 DEF Program, Pcs
    <3> HIDE DEF p
    <3>5. ProgramOK(p) /\ p.pc \in Live
      BY <3>3, <3>4 DEF ProgramOK, Live
    <3>6. CASE run[r].legs = 1
      <4>1. action' = Runner!patch(r, "submitted")
        BY <2>4, <3>6 DEF Runner!signed
      <4>2. "submitted" \in Phases /\ ~Runner!isActionTerminal("submitted")
        BY DEF Phases, Runner!isActionTerminal
      <4> QED
        BY <3>1, <3>2, <3>4, <3>5, <4>1, <4>2, GoesOn
    <3>7. CASE run[r].legs # 1
      <4>1. action' = action
        BY <2>4, <3>7 DEF Runner!signed
      <4>2. action[r] # None => RecordOK(p, action[r])
        BY <1>2, <3>1, <3>4, <3>5 DEF RecordOK, Live, Runner!isActionTerminal
      <4> QED
        BY <3>2, <3>4, <3>5, <4>1, <4>2, GoesOnSilently
    <3> QED
      BY <3>6, <3>7
  <2> QED
    BY <1>3, <2>1, <2>2, <2>3, <2>4 DEF Runner!UserStep
<1>4. ASSUME NEW r \in Runs, Runner!Settling(r)
      PROVE  RunnerInv'
  <2>1. ASSUME NEW refused \in BOOLEAN, Runner!receiptRead(r, refused)
        PROVE  RunnerInv'
    <3>1. /\ run[r] \in Program /\ run[r].pc = "receipt" /\ run[r].pc \in Live
          /\ run[r].chain # "sent" /\ address' = address
      BY <1>1, <2>1 DEF Runner!receiptRead, Live
    <3>2. \/ run[r].chain = "reverted"
          \/ run[r].chain \in Mined /\ run[r].owed = run[r].legs - 1
      BY <1>1, <3>1 DEF ProgramOK
    <3>3. run[r].legs \in Nat /\ run[r].legs >= 1 /\ run[r].owed \in Int
      BY <1>1, <3>1 DEF ProgramOK, Program
    <3>4. CASE tx[r] = None \/ Runner!receiptStatus(run[r].chain) # "confirmed"
      <4>1. Runner!txSettle(r, "reverted", "reverted")
        BY <2>1, <3>4 DEF Runner!receiptRead
      <4>2. tx[r] # None => run[r].chain = "reverted"
        BY <3>4 DEF Runner!receiptStatus
      <4> QED
        BY <3>1, <4>1, <4>2, TxSettles
    <3>5. CASE ~(tx[r] = None \/ Runner!receiptStatus(run[r].chain) # "confirmed")
      <4>1. run[r].chain \in Mined /\ run[r].owed = run[r].legs - 1
        BY <3>2, <3>5 DEF Runner!receiptStatus
      <4>2. CASE run[r].legs > 1
        <5>1. Runner!nextLeg(r, run[r].legs - 1, refused)
          BY <2>1, <3>5, <4>2 DEF Runner!receiptRead
        <5>2. run[r].legs - 1 \in Nat /\ run[r].legs - 1 >= 1
          BY <3>3, <4>2
        <5> QED
          BY <3>1, <4>1, <5>1, <5>2, TakesNextLeg
      <4>3. CASE ~(run[r].legs > 1)
        <5> DEFINE p == [run[r] EXCEPT !.pc = "stores"]
        <5>1. Runner!reconcile(r)
          BY <2>1, <3>5, <4>3 DEF Runner!receiptRead
        <5>2. run' = [run EXCEPT ![r] = p] /\ action' = Runner!patch(r, "reconciling")
          BY <1>1, <5>1 DEF Runner!reconcile, Program
        <5>3. /\ p \in Program /\ p.pc = "stores" /\ p.cleared = run[r].cleared
              /\ p.chain = run[r].chain /\ p.owed = run[r].owed /\ p.legs = run[r].legs
          BY <3>1 DEF Program, Pcs
        <5> HIDE DEF p
        <5>4. ProgramOK(p) /\ p.pc \in Live
          BY <3>3, <4>1, <4>3, <5>3 DEF ProgramOK, Live
        <5>5. "reconciling" \in Phases /\ ~Runner!isActionTerminal("reconciling")
          BY DEF Phases, Runner!isActionTerminal
        <5> QED
          BY <3>1, <5>2, <5>3, <5>4, <5>5, GoesOn
      <4> QED
        BY <4>2, <4>3
    <3> QED
      BY <3>4, <3>5
  <2>2. CASE Runner!timedOut(r)
    <3>1. run[r].pc \in Live
      BY <2>2 DEF Runner!timedOut, Live
    <3> QED
      BY <2>2, <3>1, TxSettles DEF Runner!timedOut
  <2>3. CASE Runner!evidenceAsked(r)
    <3>1. /\ run[r] \in Program /\ run[r].pc = "stores" /\ run[r].pc \in Live
          /\ address' = address /\ address \in Addresses \cup {None}
      BY <1>1, <2>3 DEF Runner!evidenceAsked, Live, RunnerInv
    <3>2. run[r].owed = 0 /\ run[r].chain \in Mined /\ run[r].legs >= 1
      BY <1>1, <3>1 DEF ProgramOK
    <3>3. CASE address = None \/ tx[r] # "confirmed"
      <4>1. Runner!settle(r, "complete")
        BY <2>3, <3>3 DEF Runner!evidenceAsked
      <4> QED
        BY <3>1, <3>2, <4>1, Settles
    <3>4. CASE ~(address = None \/ tx[r] # "confirmed")
      <4> DEFINE p == [run[r] EXCEPT !.pc = "evidence", !.asked = address]
      <4>1. run' = [run EXCEPT ![r] = p] /\ action' = action
        BY <1>1, <2>3, <3>4 DEF Runner!evidenceAsked, Program
      <4>2. /\ p \in Program /\ p.pc = "evidence" /\ p.cleared = run[r].cleared
            /\ p.chain = run[r].chain /\ p.owed = run[r].owed /\ p.legs = run[r].legs
        BY <3>1 DEF Program, Pcs
      <4> HIDE DEF p
      <4>3. ProgramOK(p)
        BY <3>2, <4>2 DEF ProgramOK, Live
      <4>4. action[r] # None => RecordOK(p, action[r])
        BY <1>2, <3>1, <4>2 DEF RecordOK, Live
      <4> QED
        BY <3>1, <4>1, <4>2, <4>3, <4>4, GoesOnSilently
    <3> QED
      BY <3>3, <3>4
  <2>4. ASSUME NEW seen \in BOOLEAN, Runner!evidenceAnswered(r, seen)
        PROVE  RunnerInv'
    <3>1. /\ run[r] \in Program /\ run[r].pc = "evidence" /\ run[r].pc \in Live
          /\ address' = address /\ FollowUps \in Int
      BY <1>1, <2>4, ClientConstants DEF Runner!evidenceAnswered, Live
    <3>2. run[r].owed = 0 /\ run[r].chain \in Mined
      BY <1>1, <3>1 DEF ProgramOK
    <3>3. seen => run[r].chain = "ingested"
      BY <2>4 DEF Runner!evidenceAnswered, Runner!reflected
    <3>4. \E p \in Program : /\ run' = [run EXCEPT ![r] = p] /\ p.pc = IF seen THEN "done" ELSE "follow"
                             /\ p.cleared = run[r].cleared /\ p.owed = run[r].owed
                             /\ p.chain = run[r].chain /\ ProgramOK(p)
      <4>1. CASE seen
        BY <2>4, <4>1, Ended DEF Runner!evidenceAnswered
      <4>2. CASE ~seen
        <5> DEFINE p == [run[r] EXCEPT !.pc = "follow", !.follow = FollowUps]
        <5>1. run' = [run EXCEPT ![r] = p]
          BY <1>1, <2>4, <4>2 DEF Runner!evidenceAnswered, Program
        <5>2. /\ p \in Program /\ p.pc = "follow" /\ p.cleared = run[r].cleared
              /\ p.owed = run[r].owed /\ p.chain = run[r].chain
          BY <3>1 DEF Program, Pcs
        <5> HIDE DEF p
        <5>3. ProgramOK(p)
          BY <3>2, <5>2 DEF ProgramOK, Live
        <5> QED
          BY <4>2, <5>1, <5>2, <5>3
      <4> QED
        BY <4>1, <4>2
    <3>5. PICK p \in Program : /\ run' = [run EXCEPT ![r] = p] /\ p.pc = IF seen THEN "done" ELSE "follow"
                               /\ p.cleared = run[r].cleared /\ p.owed = run[r].owed
                               /\ p.chain = run[r].chain /\ ProgramOK(p)
      BY <3>4
    <3>6. CASE action[r] = None
      <4>1. action' = [action EXCEPT ![r] = None]
        BY <2>4, <3>6 DEF Runner!evidenceAnswered
      <4>2. ~Active(None)
        BY DEF Active
      <4> QED
        BY <3>1, <3>5, <4>1, <4>2, ProgramStep
    <3>7. CASE action[r] # None
      <4> DEFINE a == [action[r] EXCEPT !.phase = "complete", !.indexed = seen]
      <4>1. action[r] \in Record /\ action \in [Runs -> Record \cup {None}]
        BY <3>7 DEF RunnerInv
      <4>2. action' = [action EXCEPT ![r] = a]
        BY <2>4, <3>7, <4>1 DEF Runner!evidenceAnswered
      <4>3. a \in Record /\ a.phase = "complete" /\ a.indexed = seen
        BY <4>1 DEF Record, Phases
      <4> HIDE DEF a
      <4>4. RecordOK(run[r], action[r])
        BY <1>2, <3>7
      <4>5. p.pc # "new" /\ p.pc \notin Live /\ (seen => p.pc = "done")
        BY <3>5 DEF Live
      <4>6. RecordOK(p, a)
        BY <3>2, <3>3, <3>5, <4>3, <4>4, <4>5 DEF RecordOK
      <4>7. ~Active(a)
        BY <4>3 DEF Active, Runner!isActionTerminal
      <4> QED
        BY <3>1, <3>5, <4>2, <4>3, <4>6, <4>7, ProgramStep
    <3> QED
      BY <3>6, <3>7
  <2> QED
    BY <1>4, <2>1, <2>2, <2>3, <2>4 DEF Runner!Settling
<1>5. ASSUME NEW r \in Runs, Runner!RunStep(r)
      PROVE  RunnerInv'
  <2>1. ASSUME NEW stale \in BOOLEAN, NEW refused \in BOOLEAN, Runner!headRead(r, stale, refused)
        PROVE  RunnerInv'
    <3>1. run[r].pc = "head" /\ run[r].pc \in Live /\ address' = address /\ run[r].legs \in Nat
      BY <1>1, <2>1 DEF Runner!headRead, Live, Program
    <3>2. run[r].legs >= 1 /\ run[r].owed = run[r].legs /\ run[r].chain # "sent"
      BY <1>1, <3>1 DEF ProgramOK
    <3>3. CASE stale
      BY <2>1, <3>1, <3>3, Settles DEF Runner!headRead
    <3>4. CASE ~stale
      BY <2>1, <3>1, <3>2, <3>4, TakesNextLeg DEF Runner!headRead
    <3> QED
      BY <3>3, <3>4
  <2>2. ASSUME NEW ok \in BOOLEAN, NEW refused \in BOOLEAN, Runner!simulated(r, ok, refused)
        PROVE  RunnerInv'
    <3>1. run[r].pc = "simulate" /\ run[r].pc \in Live /\ address' = address
      BY <2>2 DEF Runner!simulated, Live
    <3>2. run[r].legs >= 1 /\ run[r].owed = run[r].legs /\ run[r].chain # "sent"
      BY <1>1, <3>1 DEF ProgramOK
    <3>3. run[r].legs = 1
      BY <1>1, <3>1 DEF ProgramOK
    <3>4. CASE ok
      <4>1. Runner!askWallet(r, 1, "awaiting-signature", refused)
        BY <2>2, <3>4 DEF Runner!simulated
      <4> QED
        BY <3>1, <3>2, <3>3, <4>1, AsksWallet
    <3>5. CASE ~ok
      BY <2>2, <3>1, <3>5, Settles DEF Runner!simulated
    <3> QED
      BY <3>4, <3>5
  <2>3. CASE Runner!clientReady(r)
    <3> DEFINE p == [run[r] EXCEPT !.pc = "sign", !.chain = "none"]
    <3>1. run[r] \in Program /\ run[r].pc = "client" /\ run[r].pc \in Live
      BY <1>1, <2>3 DEF Runner!clientReady, Live
    <3>2. run' = [run EXCEPT ![r] = p] /\ action' = action /\ address' = address
      BY <1>1, <2>3 DEF Runner!clientReady, Program
    <3>3. run[r].owed = run[r].legs /\ run[r].legs >= 1
      BY <1>1, <3>1 DEF ProgramOK
    <3>4. /\ p \in Program /\ p.pc = "sign" /\ p.cleared = run[r].cleared /\ p.chain = "none"
          /\ p.owed = run[r].owed /\ p.legs = run[r].legs
      BY <3>1 DEF Program, Pcs
    <3> HIDE DEF p
    <3>5. ProgramOK(p)
      BY <3>3, <3>4 DEF ProgramOK, Live
    <3>6. action[r] # None => RecordOK(p, action[r])
      BY <1>2, <3>1, <3>4 DEF RecordOK, Live, Runner!isActionTerminal
    <3> QED
      BY <3>2, <3>4, <3>5, <3>6, GoesOnSilently
  <2>4. ASSUME NEW ok \in BOOLEAN, Runner!mined(r, ok)
        PROVE  RunnerInv'
    <3> DEFINE c == IF ok THEN "success" ELSE "reverted"
               o == IF ok THEN run[r].owed - 1 ELSE run[r].owed
               p == [run[r] EXCEPT !.chain = c, !.owed = o]
    <3>1. run[r] \in Program /\ run[r].chain = "sent" /\ run[r].owed \in Int /\ run[r].legs \in Nat
      BY <1>1, <2>4 DEF Runner!mined, Program
    <3>2. run' = [run EXCEPT ![r] = p] /\ action' = action /\ address' = address
      BY <1>1, <2>4 DEF Runner!mined, Program
    <3>3. /\ (c = "success" /\ o = run[r].owed - 1) \/ (c = "reverted" /\ o = run[r].owed)
          /\ o \in Int
      <4>1. CASE ok
        BY <3>1, <4>1
      <4>2. CASE ~ok
        BY <3>1, <4>2
      <4> QED
        BY <4>1, <4>2
    <3> HIDE DEF c, o
    <3>4. /\ p \in Program /\ p.pc = run[r].pc /\ p.cleared = run[r].cleared /\ p.chain = c
          /\ p.owed = o /\ p.legs = run[r].legs
      BY <3>1, <3>3 DEF Program, Mined
    <3> HIDE DEF p
    <3>5. ProgramOK(run[r])
      BY <1>1
    <3>6. run[r].pc \in {"receipt", "done"}
      BY <3>1, <3>5 DEF ProgramOK, Mined, Program, Pcs
    <3>7. ProgramOK(p)
      BY <3>1, <3>3, <3>4, <3>5, <3>6 DEF ProgramOK, Mined, Live
    <3>8. action[r] # None => RecordOK(p, action[r])
      BY <1>2, <3>1, <3>4, <3>6 DEF RecordOK, Mined, Live
    <3> QED
      BY <3>2, <3>4, <3>7, <3>8, GoesOnSilently
  <2>5. CASE Runner!ingested(r)
    <3> DEFINE p == [run[r] EXCEPT !.chain = "ingested"]
    <3>1. run[r] \in Program /\ run[r].chain = "success"
      BY <1>1, <2>5 DEF Runner!ingested
    <3>2. run' = [run EXCEPT ![r] = p] /\ action' = action /\ address' = address
      BY <1>1, <2>5 DEF Runner!ingested, Program
    <3>3. /\ p \in Program /\ p.pc = run[r].pc /\ p.cleared = run[r].cleared /\ p.chain = "ingested"
          /\ p.owed = run[r].owed /\ p.legs = run[r].legs
      BY <3>1 DEF Program, Mined
    <3> HIDE DEF p
    <3>4. ProgramOK(p)
      BY <1>1, <3>1, <3>3 DEF ProgramOK, Mined
    <3>5. action[r] # None => RecordOK(p, action[r])
      BY <1>2, <3>1, <3>3 DEF RecordOK, Mined
    <3> QED
      BY <3>2, <3>3, <3>4, <3>5, GoesOnSilently
  <2>6. ASSUME NEW seen \in BOOLEAN, Runner!followUp(r, seen)
        PROVE  RunnerInv'
    <3>1. /\ run[r] \in Program /\ run[r].pc = "follow" /\ action' = action /\ address' = address
          /\ run[r].follow \in Int
      BY <1>1, <2>6 DEF Runner!followUp, Program
    <3>2. run[r].owed = 0 /\ run[r].chain \in Mined
      BY <1>1, <3>1 DEF ProgramOK
    <3>3. \E p \in Program : /\ run' = [run EXCEPT ![r] = p] /\ p.pc \in {"flip", "done", "follow"}
                             /\ p.cleared = run[r].cleared /\ p.owed = run[r].owed
                             /\ p.chain = run[r].chain /\ ProgramOK(p)
      <4>1. CASE seen
        <5> DEFINE p == [run[r] EXCEPT !.pc = "flip"]
        <5>1. run' = [run EXCEPT ![r] = p] /\ run[r].chain = "ingested"
          BY <1>1, <2>6, <4>1 DEF Runner!followUp, Runner!reflected, Program
        <5>2. /\ p \in Program /\ p.pc = "flip" /\ p.cleared = run[r].cleared
              /\ p.owed = run[r].owed /\ p.chain = run[r].chain
          BY <3>1 DEF Program, Pcs
        <5> HIDE DEF p
        <5>3. ProgramOK(p)
          BY <3>2, <5>1, <5>2 DEF ProgramOK, Live
        <5> QED
          BY <5>1, <5>2, <5>3
      <4>2. CASE ~seen /\ run[r].follow = 1
        BY <2>6, <4>2, Ended DEF Runner!followUp
      <4>3. CASE ~seen /\ run[r].follow # 1
        <5> DEFINE k == run[r].follow - 1
                   p == [run[r] EXCEPT !.follow = k]
        <5>1. run' = [run EXCEPT ![r] = p]
          BY <1>1, <2>6, <4>3 DEF Runner!followUp, Program
        <5>2. k \in Int
          BY <3>1
        <5> HIDE DEF k
        <5>3. /\ p \in Program /\ p.pc = "follow" /\ p.cleared = run[r].cleared
              /\ p.owed = run[r].owed /\ p.chain = run[r].chain
          BY <3>1, <5>2 DEF Program
        <5> HIDE DEF p
        <5>4. ProgramOK(p)
          BY <3>2, <5>3 DEF ProgramOK, Live
        <5> QED
          BY <5>1, <5>3, <5>4
      <4> QED
        BY <4>1, <4>2, <4>3
    <3>4. PICK p \in Program : /\ run' = [run EXCEPT ![r] = p] /\ p.pc \in {"flip", "done", "follow"}
                               /\ p.cleared = run[r].cleared /\ p.owed = run[r].owed
                               /\ p.chain = run[r].chain /\ ProgramOK(p)
      BY <3>3
    <3>5. action[r] # None => RecordOK(p, action[r])
      BY <1>2, <3>1, <3>4 DEF RecordOK, Live
    <3> QED
      BY <3>1, <3>4, <3>5, GoesOnSilently
  <2>7. CASE Runner!flipped(r)
    <3>1. run[r].pc = "flip" /\ run' = Runner!ended(r) /\ address' = address
      BY <2>7 DEF Runner!flipped
    <3>2. run[r].chain = "ingested" /\ run[r].owed = 0
      BY <1>1, <3>1 DEF ProgramOK
    <3>3. PICK p \in Program : /\ Runner!ended(r) = [run EXCEPT ![r] = p]
                               /\ p.pc = "done" /\ p.cleared = run[r].cleared
                               /\ p.owed = run[r].owed /\ p.chain = run[r].chain
                               /\ ProgramOK(p)
      BY Ended
    <3>4. CASE action[r] = None
      <4>1. action' = [action EXCEPT ![r] = None]
        BY <2>7, <3>4 DEF Runner!flipped
      <4>2. ~Active(None)
        BY DEF Active
      <4> QED
        BY <3>1, <3>3, <4>1, <4>2, ProgramStep
    <3>5. CASE action[r] # None
      <4> DEFINE a == [action[r] EXCEPT !.indexed = TRUE]
      <4>1. action[r] \in Record /\ action \in [Runs -> Record \cup {None}]
        BY <3>5 DEF RunnerInv
      <4>2. action' = [action EXCEPT ![r] = a]
        BY <2>7, <3>5, <4>1 DEF Runner!flipped
      <4>3. a \in Record /\ a.phase = action[r].phase /\ a.origin = action[r].origin
        BY <4>1 DEF Record
      <4> HIDE DEF a
      <4>4. RecordOK(run[r], action[r])
        BY <1>2, <3>5
      <4>5. RecordOK(p, a)
        BY <3>1, <3>2, <3>3, <4>3, <4>4 DEF RecordOK, Live, Mined
      <4>6. Active(a) => Active(action[r])
        BY <3>5, <4>3 DEF Active
      <4> QED
        BY <3>1, <3>3, <4>2, <4>3, <4>5, <4>6, ProgramStep
    <3> QED
      BY <3>4, <3>5
  <2> QED
    BY <1>5, <2>1, <2>2, <2>3, <2>4, <2>5, <2>6, <2>7 DEF Runner!RunStep
<1> QED
  BY <1>3, <1>4, <1>5, RunnerSession DEF Runner!Next

(* action-runner.ts: through late receipts, failed reads and sessions that *)
(* end, a record says what its transactions did, stays gone once cleared,  *)
(* and is the only one in flight of its surface.                           *)
THEOREM RunnerIsHonest == Spec => []RunnerHonest
<1>1. Init => RunnerInv
  <2> SUFFICES ASSUME Init PROVE RunnerInv
    OBVIOUS
  <2> DEFINE p == [pc |-> "new", origin |-> None, legs |-> 0, wallet |-> None, chain |-> "none",
                   owed |-> 0, asked |-> None, follow |-> 0, cleared |-> FALSE]
  <2>1. /\ run = [r \in Runs |-> p] /\ action = [r \in Runs |-> None] /\ address = None
    BY DEF Init, Runner!Init, Runner!Session!Idle
  <2>2. p \in Program
    BY DEF Program, Pcs
  <2>3. ProgramOK(p)
    BY DEF ProgramOK, Live
  <2> HIDE DEF p
  <2> QED
    BY <2>1, <2>2, <2>3 DEF RunnerInv, Runner!OneActionPerSurface
<1>2. RunnerInv /\ [Next]_allVars => RunnerInv'
  <2> SUFFICES ASSUME RunnerInv, [Next]_allVars
               PROVE  RunnerInv'
    OBVIOUS
  <2>1. CASE RunnerMoves
    BY <2>1, RunnerStep DEF RunnerMoves
  <2>2. CASE UNCHANGED runnerVars
    BY <2>2 DEF runnerVars, RunnerInv, Runner!OneActionPerSurface
  <2> QED
    BY <2>1, <2>2 DEF Next, allVars, StreamMoves, LoginMoves, StoresMove, FeedMoves, CandlesMove
<1>3. RunnerInv => RunnerHonest
  <2> SUFFICES ASSUME RunnerInv PROVE RunnerHonest
    OBVIOUS
  <2>1. \A r \in Runs : action[r] # None => RecordOK(run[r], action[r])
    BY DEF RunnerInv
  <2>2. Runner!LedgerIsChain
    BY <2>1 DEF Runner!LedgerIsChain, RecordOK
  <2>3. Runner!ClearedStaysCleared
    BY <2>1 DEF Runner!ClearedStaysCleared, RecordOK
  <2> QED
    BY <2>2, <2>3 DEF RunnerHonest, RunnerInv
<1> QED
  BY <1>1, <1>2, <1>3, PTL DEF Spec
=============================================================================
