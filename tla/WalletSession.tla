---------------------------- MODULE WalletSession ---------------------------
(***************************************************************************)
(* The web client's wallet session: privy-auth-port.ts, privy-bridge.tsx    *)
(* and session-store.ts.  Privy authenticates a user, named here by the     *)
(* wallet the user resolves to; an effect of the bridge turns what Privy    *)
(* says into an attached wallet.  Every call to Privy, to a wallet or to    *)
(* the backend is in `pending' until it answers, however late.              *)
(***************************************************************************)
EXTENDS FiniteSets, Naturals

CONSTANTS
  Externals,     \* wallets of the browser
  Embeddeds,     \* wallets Privy manages, one per user who logs in otherwise
  None,
  MaxPending     \* bound on the calls in flight when another one is started

VARIABLES
  privy,         \* the authenticated user
  linked,        \* embedded wallets that exist
  due,           \* the dependencies of the bridge's effect have changed
  session,       \* WalletSession
  flow,          \* ConnectFlow's step
  attached,      \* the signer
  pending,
  tried,         \* provisionAttempted: the user createWallet was last called for
  denied        \* history: users whose last wallet call Privy denied

vars == <<privy, linked, due, session, flow, attached, pending, tried, denied>>

privyVars == <<tried, denied>>

Wallets == Externals \cup Embeddeds

DISCONNECTED ==
  [status |-> "idle", did |-> None, address |-> None, chain |-> None, sync |-> "idle"]

call(kind, w) == [kind |-> kind, wallet |-> w]

-----------------------------------------------------------------------------
(* Mutants: an end that waits for the next login, and a wallet that was not *)
(* restored passed over in silence.                                         *)
endSessionRetries(calls) ==
  /\ attached' = None
  /\ flow' = "closed"
  /\ session' = [DISCONNECTED EXCEPT !.status = "connecting"]
  /\ pending' = calls

restoreIgnored(w) ==
  /\ call("restore", w) \in pending
  /\ pending' = pending \ {call("restore", w)}
  /\ UNCHANGED <<privy, linked, due, session, flow, attached, privyVars>>

-----------------------------------------------------------------------------
(* SessionStore.setSession and the bridge's listener, which syncs a changed *)
(* and connected session whose identity is not known to the backend yet.    *)
setSession(next, calls) ==
  /\ session' = next
  /\ pending' = calls \cup {c \in {call("sync", None)} :
                              /\ next # session
                              /\ next.status = "connected" /\ next.did # None
                              /\ next.sync = "idle"}

endSession(calls) ==
  /\ attached' = None
  /\ flow' = "closed"
  /\ setSession(DISCONNECTED, calls)

(* The chain of a managed wallet is known at once, an external wallet is    *)
(* asked.  Which chain it is matters to no step here.                       *)
attachWallet(w, chain, calls) ==
  /\ attached' = w
  /\ flow' = "closed"
  /\ setSession([session EXCEPT !.status = "connected", !.address = w, !.chain = chain],
                calls \cup {c \in {call("chainId", w)} : chain = None})

CanCall == Cardinality(pending) < MaxPending

-----------------------------------------------------------------------------
(* The connect dialog                                                       *)
connect ==
  /\ flow = "closed" /\ session.status = "idle"
  /\ flow' = "method"
  /\ UNCHANGED <<privy, linked, due, session, attached, pending, privyVars>>

cancelConnect ==
  /\ flow # "closed"
  /\ flow' = "closed"
  /\ UNCHANGED <<privy, linked, due, session, attached, pending, privyVars>>

backToMethod ==
  /\ flow \in {"email", "wallet", "signature"}
  /\ flow' = "method"
  /\ UNCHANGED <<privy, linked, due, session, attached, pending, privyVars>>

(* submit-email and resend-code, and submit-code, for the user who owns the *)
(* address.                                                                 *)
sendCode(u) ==
  /\ flow \in {"method", "email"} /\ CanCall
  /\ flow' = "email-busy"
  /\ pending' = pending \cup {call("code", u)}
  /\ UNCHANGED <<privy, linked, due, session, attached, privyVars>>

codeSent(u) ==
  /\ call("code", u) \in pending
  /\ pending' = pending \ {call("code", u)}
  /\ flow' = "email"
  /\ UNCHANGED <<privy, linked, due, session, attached, privyVars>>

submitCode(u) ==
  /\ flow = "email" /\ CanCall
  /\ flow' = "email-busy"
  /\ pending' = pending \cup {call("verify", u)}
  /\ UNCHANGED <<privy, linked, due, session, attached, privyVars>>

verified(u, ok) ==
  /\ call("verify", u) \in pending
  /\ pending' = pending \ {call("verify", u)}
  /\ IF ok /\ privy = None
     THEN privy' = u /\ due' = TRUE /\ UNCHANGED flow
     ELSE /\ flow' = IF flow \in {"email", "email-busy"} THEN "email" ELSE flow
          /\ UNCHANGED <<privy, due>>
  /\ UNCHANGED <<linked, session, attached, privyVars>>

chooseOAuth ==
  /\ flow = "method"
  /\ flow' = "oauth"
  /\ UNCHANGED <<privy, linked, due, session, attached, pending, privyVars>>

oauthFails ==
  /\ flow = "oauth"
  /\ flow' = "method"
  /\ UNCHANGED <<privy, linked, due, session, attached, pending, privyVars>>

chooseWallet(w) ==
  /\ flow = "method" /\ CanCall
  /\ flow' = "wallet"
  /\ pending' = pending \cup {call("accounts", w)}
  /\ UNCHANGED <<privy, linked, due, session, attached, privyVars>>

accountsAnswered(w, ok) ==
  /\ call("accounts", w) \in pending
  /\ flow' = IF ok THEN "signature" ELSE "wallet"
  /\ pending' = (pending \ {call("accounts", w)}) \cup {c \in {call("siwe", w)} : ok}
  /\ UNCHANGED <<privy, linked, due, session, attached, privyVars>>

siweSigned(w, ok) ==
  /\ call("siwe", w) \in pending
  /\ pending' = pending \ {call("siwe", w)}
  /\ IF ok /\ privy = None
     THEN privy' = w /\ due' = TRUE /\ UNCHANGED flow
     ELSE flow' = "signature" /\ UNCHANGED <<privy, due>>
  /\ UNCHANGED <<linked, session, attached, privyVars>>

-----------------------------------------------------------------------------
(* The bridge's effect                                                      *)
setDid(s, did) ==
  IF s.status = "idle"
  THEN [s EXCEPT !.did = did, !.status = "connecting"]
  ELSE [s EXCEPT !.did = did]

hasAttached(w) == attached = w /\ session.status = "connected"

(* What the effect asks of Privy: the wallet's provider or, once per user,  *)
(* the wallet.                                                              *)
walletCalls(u) ==
  IF u \in linked THEN {call("provider", u)} ELSE {c \in {call("create", u)} : tried # u}

sessionEffect ==
  /\ due
  /\ due' = FALSE
  /\ IF privy = None
     THEN /\ IF session.status # "idle"
             THEN endSession(pending)
             ELSE UNCHANGED <<session, flow, attached, pending>>
          /\ UNCHANGED privyVars
     ELSE IF privy \in Embeddeds
     THEN /\ flow' = IF privy \in linked THEN flow ELSE "provisioning"
          /\ setSession(setDid(session, privy), pending \cup walletCalls(privy))
          /\ tried' = IF privy \in linked THEN tried ELSE privy
          /\ denied' = IF walletCalls(privy) = {} THEN denied ELSE denied \ {privy}
          /\ UNCHANGED attached
     ELSE /\ flow' = IF hasAttached(privy) THEN "closed" ELSE flow
          /\ setSession(setDid(session, privy),
                        pending \cup {c \in {call("restore", privy)} : ~hasAttached(privy)})
          /\ UNCHANGED <<attached, privyVars>>
  /\ UNCHANGED <<privy, linked>>

(* createWallet, whose failure is swallowed.                                *)
created(u, ok) ==
  /\ call("create", u) \in pending
  /\ pending' = pending \ {call("create", u)}
  /\ linked' = IF ok THEN linked \cup {u} ELSE linked
  /\ due' = (due \/ (ok /\ privy = u))
  /\ denied' = IF ok THEN denied \ {u} ELSE denied \cup ({u} \ linked)
  /\ UNCHANGED <<privy, session, flow, attached, tried>>

(* getEthereumProvider, whose failure nothing handles.                      *)
providerReady(w) ==
  /\ call("provider", w) \in pending
  /\ attachWallet(w, "known", pending \ {call("provider", w)})
  /\ UNCHANGED <<privy, linked, due, privyVars>>

providerFails(w) ==
  /\ call("provider", w) \in pending
  /\ pending' = pending \ {call("provider", w)}
  /\ denied' = denied \cup {w}
  /\ UNCHANGED <<privy, linked, due, session, flow, attached, tried>>

restored(w) ==
  /\ call("restore", w) \in pending
  /\ attachWallet(w, None, pending \ {call("restore", w)})
  /\ UNCHANGED <<privy, linked, due, privyVars>>

restoreFails(w) ==
  /\ call("restore", w) \in pending
  /\ endSession((pending \ {call("restore", w)}) \cup {call("logout", None)})
  /\ UNCHANGED <<privy, linked, due, privyVars>>

-----------------------------------------------------------------------------
(* The session's end                                                        *)
disconnect ==
  /\ session.status = "connected" /\ CanCall
  /\ endSession(pending \cup {call("logout", None)})
  /\ UNCHANGED <<privy, linked, due, privyVars>>

(* accountsChanged without the attached address.                            *)
walletChanged ==
  /\ attached # None /\ CanCall
  /\ endSession(pending \cup {call("logout", None)})
  /\ UNCHANGED <<privy, linked, due, privyVars>>

logoutAnswered(ok) ==
  /\ call("logout", None) \in pending
  /\ pending' = pending \ {call("logout", None)}
  /\ privy' = IF ok THEN None ELSE privy
  /\ due' = (due \/ privy' # privy)
  /\ UNCHANGED <<linked, session, flow, attached, privyVars>>

-----------------------------------------------------------------------------
(* Networks and the backend's record                                        *)
setChain(calls) == setSession([session EXCEPT !.chain = "known"], calls)

(* eth_chainId, and chainChanged of the attached provider.                  *)
chainReported(w) ==
  /\ \/ call("chainId", w) \in pending
     \/ w = attached
  /\ setChain(pending \ {call("chainId", w)})
  /\ UNCHANGED <<privy, linked, due, flow, attached, privyVars>>

switchChain ==
  /\ attached # None /\ CanCall
  /\ pending' = pending \cup {call("switch", attached)}
  /\ UNCHANGED <<privy, linked, due, session, flow, attached, privyVars>>

(* A switch the user declines or that fails changes nothing.                *)
switchAnswered(w, ok) ==
  /\ call("switch", w) \in pending
  /\ IF ok
     THEN setChain(pending \ {call("switch", w)})
     ELSE pending' = pending \ {call("switch", w)} /\ UNCHANGED session
  /\ UNCHANGED <<privy, linked, due, flow, attached, privyVars>>

(* "expired" is a failure.                                                  *)
markSync(state) ==
  /\ call("sync", None) \in pending
  /\ setSession([session EXCEPT !.sync = state], pending \ {call("sync", None)})
  /\ UNCHANGED <<privy, linked, due, flow, attached, privyVars>>

-----------------------------------------------------------------------------
(* Privy and the browser                                                    *)
(* Privy creates the wallet by itself (createOnLogin), or does not.         *)
walletLinked ==
  /\ privy \in Embeddeds \ linked
  /\ linked' = linked \cup {privy}
  /\ due' = TRUE
  /\ denied' = denied \ {privy}
  /\ UNCHANGED <<privy, session, flow, attached, pending, tried>>

walletsListed ==
  /\ privy # None
  /\ due' = TRUE
  /\ UNCHANGED <<privy, linked, session, flow, attached, pending, privyVars>>

privyExpires ==
  /\ privy # None
  /\ privy' = None
  /\ due' = TRUE
  /\ UNCHANGED <<linked, session, flow, attached, pending, privyVars>>

(* The page is loaded again: by the user, or on the return of an OAuth      *)
(* login.                                                                   *)
load(u) ==
  /\ u = privy \/ (flow = "oauth" /\ u \in Embeddeds)
  /\ privy' = u
  /\ session' = DISCONNECTED
  /\ flow' = "closed"
  /\ attached' = None
  /\ pending' = {}
  /\ due' = TRUE
  /\ tried' = None
  /\ denied' = {}
  /\ UNCHANGED linked

Init ==
  /\ privy = None
  /\ linked = {}
  /\ due = FALSE
  /\ session = DISCONNECTED
  /\ flow = "closed"
  /\ attached = None
  /\ pending = {}
  /\ tried = None
  /\ denied = {}

DialogStep ==
  \/ connect \/ cancelConnect \/ backToMethod \/ chooseOAuth \/ oauthFails
  \/ \E u \in Embeddeds : sendCode(u) \/ submitCode(u)
  \/ \E w \in Externals : chooseWallet(w)

Answer ==
  \/ \E u \in Embeddeds : codeSent(u)
  \/ \E u \in Embeddeds, ok \in BOOLEAN : verified(u, ok)
  \/ \E w \in Externals, ok \in BOOLEAN : accountsAnswered(w, ok) \/ siweSigned(w, ok)
  \/ \E u \in Embeddeds, ok \in BOOLEAN : created(u, ok)
  \/ \E w \in Embeddeds : providerReady(w) \/ providerFails(w)
  \/ \E w \in Externals : restored(w) \/ restoreFails(w)
  \/ \E ok \in BOOLEAN : logoutAnswered(ok)
  \/ \E w \in Wallets, ok \in BOOLEAN : switchAnswered(w, ok)
  \/ \E state \in {"synced", "failed"} : markSync(state)

Next ==
  \/ DialogStep
  \/ Answer
  \/ \E w \in Wallets : chainReported(w)
  \/ sessionEffect
  \/ disconnect \/ walletChanged \/ switchChain
  \/ walletLinked \/ walletsListed \/ privyExpires
  \/ \E u \in Wallets \cup {None} : load(u)

(* React runs a due effect, Privy's answer to a call is yes or no, and a    *)
(* wallet that is looked for is found or not.                               *)
Fairness ==
  /\ WF_vars(sessionEffect)
  /\ \A u \in Embeddeds : /\ WF_vars(\E ok \in BOOLEAN : created(u, ok))
                          /\ WF_vars(providerReady(u) \/ providerFails(u))
  /\ \A w \in Externals : WF_vars(restored(w) \/ restoreFails(w))

Spec == Init /\ [][Next]_vars /\ Fairness

-----------------------------------------------------------------------------
(* Properties                                                               *)

(* PrivyAuthPort: through logins, late answers, wallet changes and          *)
(* expiries the session is connected exactly while a signer is attached,    *)
(* and names that signer.                                                   *)
SignerIsSession ==
  /\ session.status = "connected" <=> attached # None
  /\ session.address = attached

(* privy-bridge.tsx: a login does not hang, however late the answers come   *)
(* and whatever the user's wallet does: "connecting" ends in a connected or *)
(* an ended session.  It may last only when Privy itself has denied the     *)
(* user's embedded wallet, as nothing handles that answer.                  *)
ConnectingResolves == []<>(session.status # "connecting" \/ privy \in denied)

(* What Web3Services builds on: see Session.                                *)
Abstract == INSTANCE Session WITH status <- session.status, address <- session.address

ImplementsSession == Abstract!Spec
=============================================================================
