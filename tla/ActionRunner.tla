----------------------------- MODULE ActionRunner ---------------------------
(***************************************************************************)
(* The web client's transactions: action-runner.ts drives each action       *)
(* through its approvals and its own transaction, tx-store.ts keeps their   *)
(* records, and reconcile.ts follows a confirmed action.  The runner is an  *)
(* async program: `pc' is the await it is suspended at, and everything else *)
(* may move meanwhile, the session included.                                *)
(***************************************************************************)
EXTENDS Naturals

CONSTANTS
  Wallets, None,
  Runs,           \* calls of ActionRunner.run, each started at most once
  Origins,        \* surfaces of the desk
  MaxApprovals,   \* bound on the approvals of a plan
  FollowUps       \* FOLLOW_UP_DELAYS_MS' length

VARIABLES
  status, address,  \* the session, as its listener sees it
  run,              \* per call: the program, and what became of its transaction
  action,           \* ActionRunner.records
  tx                \* TxStore.records: the latest transaction of each call

vars == <<status, address, run, action, tx>>

Session == INSTANCE Session

isActionTerminal(phase) == phase \in {"complete", "declined", "failed", "reverted"}

-----------------------------------------------------------------------------
(* Mutant: a patch that stores a record it did not find.                   *)
patchRecreates(r, phase) ==
  [action EXCEPT ![r] = [origin |-> run[r].origin, phase |-> phase, indexed |-> FALSE]]

(* The session's listener: an idle session clears both sets of records.     *)
(* `cleared' marks the calls that have lost theirs.                         *)
sessionChanges ==
  /\ Session!SessionNext
  /\ IF status' = "idle"
     THEN /\ action' = [r \in Runs |-> None]
          /\ tx' = [r \in Runs |-> None]
          /\ run' = [r \in Runs |-> [run[r] EXCEPT !.cleared = @ \/ run[r].pc # "new"]]
     ELSE UNCHANGED <<action, tx, run>>

-----------------------------------------------------------------------------
(* ActionRunner.  A patch of a record that is gone does nothing, and        *)
(* settling one throws: the program ends either way.                        *)
patch(r, phase) ==
  [action EXCEPT ![r] = IF @ = None THEN None ELSE [@ EXCEPT !.phase = phase]]

ended(r) == [run EXCEPT ![r].pc = "done", ![r].legs = 0, ![r].wallet = None, ![r].asked = None]

settle(r, phase) ==
  /\ action' = patch(r, phase)
  /\ run' = ended(r)

isActionActive(o) ==
  \E r \in Runs : action[r] # None /\ action[r].origin = o /\ ~isActionTerminal(action[r].phase)

(* The guard, the record and the age of the quote are one synchronous step; *)
(* the head block is awaited.  Without a session the first leg fails.       *)
start(r, o, approvals, stale) ==
  /\ run[r].pc = "new"
  /\ ~isActionActive(o)
  /\ run' = [run EXCEPT ![r].pc = IF stale THEN "done" ELSE "head",
                        ![r].origin = o, ![r].owed = approvals + 1,
                        ![r].legs = IF stale THEN 0 ELSE approvals + 1]
  /\ action' = [action EXCEPT ![r] = [origin |-> o, indexed |-> FALSE,
                                      phase |-> IF stale THEN "failed" ELSE "validating"]]
  /\ UNCHANGED <<status, address, tx>>

(* WalletTxPort.run: refused without a session or on another network, and   *)
(* the signer is awaited.                                                   *)
askWallet(r, legs, phase, refused) ==
  IF refused \/ status # "connected"
  THEN settle(r, "failed")
  ELSE /\ action' = patch(r, phase)
       /\ run' = [run EXCEPT ![r].pc = "client", ![r].legs = legs, ![r].wallet = address]

(* The approvals come first, then the simulation of the action itself.      *)
nextLeg(r, legs, refused) ==
  IF legs > 1
  THEN askWallet(r, legs, "approving", refused)
  ELSE /\ action' = patch(r, "simulating")
       /\ run' = [run EXCEPT ![r].pc = "simulate", ![r].legs = legs]

headRead(r, stale, refused) ==
  /\ run[r].pc = "head"
  /\ IF stale THEN settle(r, "failed") ELSE nextLeg(r, run[r].legs, refused)
  /\ UNCHANGED <<status, address, tx>>

simulated(r, ok, refused) ==
  /\ run[r].pc = "simulate"
  /\ IF ok THEN askWallet(r, 1, "awaiting-signature", refused) ELSE settle(r, "failed")
  /\ UNCHANGED <<status, address, tx>>

(* TxStore.run puts its record and asks for the signature.                  *)
clientReady(r) ==
  /\ run[r].pc = "client"
  /\ run' = [run EXCEPT ![r].pc = "sign", ![r].chain = "none"]
  /\ tx' = [tx EXCEPT ![r] = "signing"]
  /\ UNCHANGED <<status, address, action>>

(* TxStore.settle throws when the record is gone, which the runner reports  *)
(* as a failure.                                                            *)
txSettle(r, txStatus, phase) ==
  /\ tx' = [tx EXCEPT ![r] = IF @ = None THEN None ELSE txStatus]
  /\ settle(r, IF tx[r] = None THEN "failed" ELSE phase)

declined(r) ==
  /\ run[r].pc = "sign"
  /\ txSettle(r, "rejected", "declined")
  /\ UNCHANGED <<status, address>>

walletFails(r) ==
  /\ run[r].pc = "sign"
  /\ txSettle(r, "failed", "failed")
  /\ UNCHANGED <<status, address>>

(* The hash: noteSubmitted is called for the action's own transaction.      *)
signed(r) ==
  /\ run[r].pc = "sign"
  /\ run' = [run EXCEPT ![r].pc = "receipt", ![r].chain = "sent"]
  /\ tx' = [tx EXCEPT ![r] = IF @ = None THEN None ELSE "pending"]
  /\ action' = IF run[r].legs = 1 THEN patch(r, "submitted") ELSE action
  /\ UNCHANGED <<status, address>>

receiptStatus(chain) == IF chain = "reverted" THEN "reverted" ELSE "confirmed"

(* The chain, and then the indexer.                                         *)
mined(r, ok) ==
  /\ run[r].chain = "sent"
  /\ run' = [run EXCEPT ![r].chain = IF ok THEN "success" ELSE "reverted",
                        ![r].owed = IF ok THEN @ - 1 ELSE @]
  /\ UNCHANGED <<status, address, action, tx>>

ingested(r) ==
  /\ run[r].chain = "success" /\ run[r].legs = 1
  /\ run' = [run EXCEPT ![r].chain = "ingested"]
  /\ UNCHANGED <<status, address, action, tx>>

timedOut(r) ==
  /\ run[r].pc = "receipt" /\ run[r].chain = "sent"
  /\ txSettle(r, "failed", "failed")
  /\ UNCHANGED <<status, address>>

(* makeReconciler awaits the stores, which never throw.                     *)
reconcile(r) ==
  /\ action' = patch(r, "reconciling")
  /\ run' = [run EXCEPT ![r].pc = "stores"]

receiptRead(r, refused) ==
  /\ run[r].pc = "receipt" /\ run[r].chain # "sent"
  /\ IF tx[r] = None \/ receiptStatus(run[r].chain) # "confirmed"
     THEN txSettle(r, "reverted", "reverted")
     ELSE /\ tx' = [tx EXCEPT ![r] = "confirmed"]
          /\ IF run[r].legs > 1
             THEN nextLeg(r, run[r].legs - 1, refused)
             ELSE reconcile(r)
  /\ UNCHANGED <<status, address>>

(* The evidence is asked for the wallet bound by now; without one, or       *)
(* without the transaction's record, there is none.                         *)
evidenceAsked(r) ==
  /\ run[r].pc = "stores"
  /\ IF address = None \/ tx[r] # "confirmed"
     THEN settle(r, "complete")
     ELSE run' = [run EXCEPT ![r].pc = "evidence", ![r].asked = address]
          /\ UNCHANGED action
  /\ UNCHANGED <<status, address, tx>>

(* The indexer ingests blocks in order: it reflects all transactions of an  *)
(* action when it reflects the last.                                        *)
reflected(r) == run[r].chain = "ingested" /\ run[r].asked = run[r].wallet

evidenceAnswered(r, seen) ==
  /\ run[r].pc = "evidence"
  /\ seen => reflected(r)
  /\ action' = [action EXCEPT ![r] = IF @ = None THEN None
                                     ELSE [@ EXCEPT !.phase = "complete", !.indexed = seen]]
  /\ run' = IF seen THEN ended(r)
            ELSE [run EXCEPT ![r].pc = "follow", ![r].follow = FollowUps]
  /\ UNCHANGED <<status, address, tx>>

followUp(r, seen) ==
  /\ run[r].pc = "follow"
  /\ seen => reflected(r)
  /\ IF seen
     THEN run' = [run EXCEPT ![r].pc = "flip"]
     ELSE run' = IF run[r].follow = 1 THEN ended(r) ELSE [run EXCEPT ![r].follow = @ - 1]
  /\ UNCHANGED <<status, address, action, tx>>

(* onUpdate, when the stores have been read.                                *)
flipped(r) ==
  /\ run[r].pc = "flip"
  /\ action' = [action EXCEPT ![r] = IF @ = None THEN None ELSE [@ EXCEPT !.indexed = TRUE]]
  /\ run' = ended(r)
  /\ UNCHANGED <<status, address, tx>>

-----------------------------------------------------------------------------
Init ==
  /\ Session!Idle
  /\ run = [r \in Runs |-> [pc |-> "new", origin |-> None, legs |-> 0, wallet |-> None,
                            chain |-> "none", owed |-> 0, asked |-> None, follow |-> 0,
                            cleared |-> FALSE]]
  /\ action = [r \in Runs |-> None]
  /\ tx = [r \in Runs |-> None]

(* What only the user decides.                                              *)
UserStep(r) ==
  \/ \E o \in Origins, n \in 0..MaxApprovals, stale \in BOOLEAN : start(r, o, n, stale)
  \/ declined(r) \/ walletFails(r) \/ signed(r)

(* What the page, the node and the indexer do by themselves.                *)
Settling(r) ==
  \/ \E refused \in BOOLEAN : receiptRead(r, refused)
  \/ timedOut(r)
  \/ evidenceAsked(r)
  \/ \E seen \in BOOLEAN : evidenceAnswered(r, seen)

RunStep(r) ==
  \/ \E stale, refused \in BOOLEAN : headRead(r, stale, refused)
  \/ \E ok, refused \in BOOLEAN : simulated(r, ok, refused)
  \/ clientReady(r)
  \/ \E ok \in BOOLEAN : mined(r, ok)
  \/ ingested(r)
  \/ \E seen \in BOOLEAN : followUp(r, seen)
  \/ flipped(r)

Next ==
  \/ sessionChanges
  \/ \E r \in Runs : UserStep(r) \/ Settling(r) \/ RunStep(r)

(* Reads answer, and a receipt arrives or is given up after                 *)
(* RECEIPT_TIMEOUT_MS.  Nothing makes a user sign.                          *)
Fairness == \A r \in Runs : WF_vars(Settling(r))

Spec == Init /\ [][Next]_vars /\ Fairness

-----------------------------------------------------------------------------
(* Properties                                                               *)

(* action-runner.ts: what a record says of its transactions happened:       *)
(* complete means that every one was mined and succeeded, reverted that one *)
(* was mined and reverted, declined that the last was never sent, and       *)
(* indexed that the indexer has them.                                       *)
LedgerIsChain ==
  \A r \in Runs : action[r] # None =>
    /\ action[r].phase \in {"reconciling", "complete"} => run[r].owed = 0
    /\ action[r].phase = "reverted" => run[r].chain = "reverted"
    /\ action[r].phase = "declined" => run[r].chain = "none"
    /\ action[r].indexed => run[r].chain = "ingested"

(* ActionRunner.clear: the actions of a session that ended stay gone: a     *)
(* program that outlives its session never puts its record back.            *)
ClearedStaysCleared == \A r \in Runs : run[r].cleared => action[r] = None

(* ActionRunner.isActionActive: a surface has one action in flight, however *)
(* programs interleave.                                                     *)
OneActionPerSurface ==
  \A r, s \in Runs :
    /\ action[r] # None /\ ~isActionTerminal(action[r].phase)
    /\ action[s] # None /\ ~isActionTerminal(action[s].phase)
    /\ action[r].origin = action[s].origin
    => r = s

(* action-runner.ts and tx-store.ts: a signed action's record settles:      *)
(* receipts that never come, reads that fail and sessions that end leave no *)
(* record in flight.                                                        *)
SignedSettles ==
  \A r \in Runs :
    []<>(action[r] = None \/ action[r].phase \notin {"submitted", "reconciling"})
=============================================================================
