------------------------------- MODULE Keeper -------------------------------
(***************************************************************************)
(* main.ts, strategy.ts, execute.ts and state.ts: the keeper's event loop   *)
(* for one market.  Ticks and reloads start batches of work; batches share  *)
(* one promise queue; loads and refreshes read the indexer's rows and are   *)
(* applied later; the chain, the other parties and the indexer move in      *)
(* between.                                                                 *)
(*                                                                          *)
(* A work item is an order or a position.  What the strategy and the engine *)
(* compute of one at a price is the constant Wanted (the engine's own       *)
(* arithmetic is PerpEngine's).  Orders are created old enough: the delay   *)
(* only postpones them.                                                     *)
(***************************************************************************)
EXTENDS Naturals, Sequences, FiniteSets

CONSTANTS
  Orders, Positions,  \* work items
  Prices,             \* candidate and attested prices, by calcHash
  Wanted,             \* [Prices -> items executable at that price]
  Batches,            \* executor.run calls at one time
  MaxPending,         \* bound on transactions in the mempool
  MaxFaults           \* bound on failing calls and time-outs

Items == Orders \cup Positions

(* Every item can be executed at every price: a value for Wanted.           *)
AllWanted == [p \in Prices |-> Items]

ASSUME KeeperConstants ==
  /\ Wanted \in [Prices -> SUBSET Items]
  /\ MaxPending \in Nat \ {0}
  /\ MaxFaults \in Nat

VARIABLES
  \* the chain
  status,     \* [Items -> {"unborn", "live", "gone"}]
  attested,   \* price of the report the engine accepts now
  mempool,    \* the keeper's transactions, in nonce order
  \* the indexer
  rows,       \* items its tables show as pending or open
  \* the keeper
  book,       \* items in Book.orders and Book.positions
  seen,       \* dedupe: the candidate processed with this book generation
  lastTick,
  load,       \* Book.load in progress, by caller
  batch,      \* executor.run in progress
  queue,      \* batches whose next item is in the promise queue
  step,       \* where execute is for the head of the queue
  snapshot,   \* rows a refresh has read and not yet applied
  faults      \* calls that have failed or timed out

chainVars == <<status, attested, mempool>>
vars == <<status, attested, mempool, rows, book, seen, lastTick, load, batch, queue,
          step, snapshot, faults>>

None == "none"
Callers == {"timer", "executor"}

-----------------------------------------------------------------------------
Live == {i \in Items : status[i] = "live"}

(* What the engine does with a call that carries a report of that price.   *)
Accepts(i, price) == i \in Live /\ price = attested /\ i \in Wanted[price]

(* evaluateTick: the items of the book to execute, liquidations first.     *)
evaluateTick(price) ==
  {s \in [1..Cardinality(book \cap Wanted[price]) -> book \cap Wanted[price]] :
     \A m, n \in DOMAIN s :
       m < n => s[m] # s[n] /\ ~(s[m] \in Orders /\ s[n] \in Positions)}

(* A call that fails, if f: the network does not fail for ever.            *)
fault(f) ==
  /\ f => faults < MaxFaults
  /\ faults' = IF f THEN faults + 1 ELSE faults

idleBatch == [pc |-> "idle", items |-> <<>>, price |-> None]
idleLoad == [pc |-> "idle", found |-> {}]

(* executor.run: a batch waits for its report.                             *)
run(b, items) ==
  IF items = <<>>
  THEN UNCHANGED batch
  ELSE /\ batch[b].pc = "idle"
       /\ batch' = [batch EXCEPT ![b] = [pc |-> "fetch", items |-> items, price |-> None]]

-----------------------------------------------------------------------------
(* Mutants                                                                 *)

(* A reload that adds rows to the book and drops none.                     *)
mergeBook(found) == book \cup found

(* A reload without the re-evaluation of the stored candidate.             *)
noReevaluation == load' = [load EXCEPT !["timer"] = idleLoad] /\ UNCHANGED batch

-----------------------------------------------------------------------------
(* processTick: the same candidate is processed once per book generation.  *)
processTick(price) ==
  /\ seen # price
  /\ seen' = price
  /\ lastTick' = price
  /\ \E b \in Batches, items \in evaluateTick(price) : run(b, items)
  /\ UNCHANGED <<chainVars, rows, book, load, queue, step, snapshot, faults>>

(* Book.load: positions, then orders, are read in separate queries; the    *)
(* maps are replaced when the last answer is back.                         *)
loadPositions(c) ==
  /\ load[c].pc = IF c = "timer" THEN "idle" ELSE "start"
  /\ load' = [load EXCEPT ![c] = [pc |-> "orders", found |-> rows \cap Positions]]
  /\ UNCHANGED <<chainVars, rows, book, seen, lastTick, batch, queue, step, snapshot, faults>>

loadOrders(c) ==
  /\ load[c].pc = "orders"
  /\ load' = [load EXCEPT ![c].pc = "replace", ![c].found = @ \cup (rows \cap Orders)]
  /\ UNCHANGED <<chainVars, rows, book, seen, lastTick, batch, queue, step, snapshot, faults>>

loadedBook(found) == found

loadReplace(c) ==
  /\ load[c].pc = "replace"
  /\ book' = loadedBook(load[c].found)
  /\ seen' = None
  /\ load' = [load EXCEPT ![c] = [pc |-> "done", found |-> {}]]
  /\ UNCHANGED <<chainVars, rows, lastTick, batch, queue, step, snapshot, faults>>

(* The clock read after the timer's load fails: no re-evaluation.  A load  *)
(* that fails before it replaces the maps is one that starts later.        *)
syncClockFails ==
  /\ load["timer"].pc = "done"
  /\ load' = [load EXCEPT !["timer"] = idleLoad]
  /\ UNCHANGED <<chainVars, rows, book, seen, lastTick, batch, queue, step, snapshot>>
  /\ fault(TRUE)

(* reevaluateAll, after the timer's load and clock read.                   *)
reevaluation ==
  /\ load' = [load EXCEPT !["timer"] = idleLoad]
  /\ IF lastTick = None
     THEN UNCHANGED batch
     ELSE \E b \in Batches, items \in evaluateTick(lastTick) : run(b, items)

reevaluateAll ==
  /\ load["timer"].pc = "done"
  /\ reevaluation
  /\ UNCHANGED <<chainVars, rows, book, seen, lastTick, queue, step, snapshot, faults>>

-----------------------------------------------------------------------------
(* fetchAttestation: once for the whole batch; without a report the batch  *)
(* is over.                                                                *)
fetchAttestation(b) ==
  /\ batch[b].pc = "fetch"
  /\ \/ /\ attested # None
        /\ batch' = [batch EXCEPT ![b].pc = "queued", ![b].price = attested]
        /\ queue' = Append(queue, b)
        /\ UNCHANGED faults
     \/ /\ batch' = [batch EXCEPT ![b] = idleBatch]
        /\ UNCHANGED queue
        /\ fault(attested # None)
  /\ UNCHANGED <<chainVars, rows, book, seen, lastTick, load, step, snapshot>>

running == Head(queue)
item == Head(batch[running].items)

(* The promise queue moves on; the batch's next item goes to its end.      *)
finish ==
  LET rest == Tail(batch[running].items)
  IN  /\ step' = "check"
      /\ IF rest = <<>>
         THEN /\ batch' = [batch EXCEPT ![running] = idleBatch]
              /\ queue' = Tail(queue)
         ELSE /\ batch' = [batch EXCEPT ![running].items = rest]
              /\ queue' = Append(Tail(queue), running)

proceed(to) == step' = to /\ UNCHANGED <<batch, queue>>

At(s) == queue # <<>> /\ step = s

(* The stale check against the book, and the gas ceiling.                  *)
checkBook ==
  /\ At("check")
  /\ IF item \in book THEN proceed("gas") ELSE finish
  /\ UNCHANGED <<chainVars, rows, book, seen, lastTick, load, snapshot, faults>>

gasAllowed(ok) ==
  /\ At("gas")
  /\ IF ok THEN proceed("sim") ELSE finish
  /\ UNCHANGED <<chainVars, rows, book, seen, lastTick, load, snapshot>>
  /\ fault(~ok)

simulate ==
  /\ At("sim")
  /\ IF Accepts(item, batch[running].price) THEN proceed("send") ELSE finish
  /\ UNCHANGED <<chainVars, rows, book, seen, lastTick, load, snapshot, faults>>

(* viem estimates the gas before it signs, which fails where a call would. *)
sendTransaction(ok) ==
  /\ At("send")
  /\ ok => Accepts(item, batch[running].price)
  /\ IF ok
     THEN /\ Len(mempool) < MaxPending
          /\ mempool' = Append(mempool, [item |-> item, price |-> batch[running].price])
          /\ proceed("receipt")
     ELSE finish /\ UNCHANGED mempool
  /\ UNCHANGED <<status, attested, rows, book, seen, lastTick, load, snapshot>>
  /\ fault(~ok /\ Accepts(item, batch[running].price))

(* The receipt comes when the last transaction sent is mined; after the    *)
(* timeout the next item runs.                                             *)
waitForReceipt(timeout) ==
  /\ At("receipt")
  /\ ~timeout => mempool = <<>>
  /\ IF timeout THEN finish ELSE proceed("read")
  /\ UNCHANGED <<chainVars, rows, book, seen, lastTick, load, snapshot>>
  /\ fault(timeout)

(* reconcile: read the item's row and its wallet's positions, apply them,  *)
(* and again until the item is out of the book; then a full load.          *)
refreshed(i) == {i} \cup Positions

reconcileRead ==
  /\ At("read")
  /\ snapshot' = rows \cap refreshed(item)
  /\ proceed("apply")
  /\ UNCHANGED <<chainVars, rows, book, seen, lastTick, load, faults>>

reconcileApply ==
  /\ At("apply")
  /\ book' = (book \ refreshed(item)) \cup snapshot
  /\ snapshot' = {}
  /\ IF item \in snapshot THEN proceed("read") ELSE finish
  /\ UNCHANGED <<chainVars, rows, seen, lastTick, load, faults>>

reconcileGivesUp ==
  /\ At("read")
  /\ load' = [load EXCEPT !["executor"].pc = "start"]
  /\ proceed("load")
  /\ UNCHANGED <<chainVars, rows, book, seen, lastTick, snapshot, faults>>

(* The executor's load is done, or failed and took the batch with it.      *)
reconcileLoaded ==
  /\ At("load")
  /\ load["executor"].pc = "done"
  /\ load' = [load EXCEPT !["executor"] = idleLoad]
  /\ finish
  /\ UNCHANGED <<chainVars, rows, book, seen, lastTick, snapshot, faults>>

reconcileLoadFails ==
  /\ At("load")
  /\ load["executor"].pc = "start"
  /\ load' = [load EXCEPT !["executor"] = idleLoad]
  /\ batch' = [batch EXCEPT ![running] = idleBatch]
  /\ queue' = Tail(queue)
  /\ step' = "check"
  /\ UNCHANGED <<chainVars, rows, book, seen, lastTick, snapshot>>
  /\ fault(TRUE)

-----------------------------------------------------------------------------
(* The chain and the indexer                                               *)

mine ==
  LET tx == Head(mempool)
  IN  /\ mempool # <<>>
      /\ mempool' = Tail(mempool)
      /\ IF Accepts(tx.item, tx.price)
         THEN status' = [status EXCEPT ![tx.item] = "gone"]
         ELSE UNCHANGED status
      /\ UNCHANGED <<attested, rows, book, seen, lastTick, load, batch, queue, step, snapshot, faults>>

create(i) ==
  /\ status[i] = "unborn"
  /\ status' = [status EXCEPT ![i] = "live"]
  /\ UNCHANGED <<attested, mempool, rows, book, seen, lastTick, load, batch, queue,
                 step, snapshot, faults>>

(* A trader cancels or closes, or another keeper executes.                 *)
resolvedByOthers(i) ==
  /\ i \in Live
  /\ status' = [status EXCEPT ![i] = "gone"]
  /\ UNCHANGED <<attested, mempool, rows, book, seen, lastTick, load, batch, queue,
                 step, snapshot, faults>>

attest(price) ==
  /\ attested # price
  /\ attested' = price
  /\ UNCHANGED <<status, mempool, rows, book, seen, lastTick, load, batch, queue,
                 step, snapshot, faults>>

index(i) ==
  /\ (i \in rows) # (i \in Live)
  /\ rows' = IF i \in Live THEN rows \cup {i} ELSE rows \ {i}
  /\ UNCHANGED <<chainVars, book, seen, lastTick, load, batch, queue, step, snapshot, faults>>

-----------------------------------------------------------------------------
Init ==
  /\ status = [i \in Items |-> "unborn"]
  /\ attested = None
  /\ mempool = <<>>
  /\ rows = {}
  /\ book = {}
  /\ seen = None
  /\ lastTick = None
  /\ load = [c \in Callers |-> idleLoad]
  /\ batch = [b \in Batches |-> idleBatch]
  /\ queue = <<>>
  /\ step = "check"
  /\ snapshot = {}
  /\ faults = 0

Loading == \E c \in Callers : loadPositions(c) \/ loadOrders(c) \/ loadReplace(c)

Executing ==
  \/ checkBook
  \/ \E ok \in BOOLEAN : gasAllowed(ok) \/ sendTransaction(ok)
  \/ simulate
  \/ \E timeout \in BOOLEAN : waitForReceipt(timeout)
  \/ reconcileRead \/ reconcileApply \/ reconcileGivesUp \/ reconcileLoaded \/ reconcileLoadFails

Environment ==
  \/ mine
  \/ \E i \in Items : create(i) \/ resolvedByOthers(i) \/ index(i)
  \/ \E price \in Prices \cup {None} : attest(price)

Next ==
  \/ \E price \in Prices : processTick(price)
  \/ Loading \/ syncClockFails \/ reevaluateAll
  \/ \E b \in Batches : fetchAttestation(b)
  \/ Executing
  \/ Environment


(* The event loop runs what is ready; the timer fires; transactions are    *)
(* mined and indexed; a reconciliation ends after 20 reads; a call that    *)
(* does not fail, which it does MaxFaults times, answers.                  *)
Fairness ==
  /\ \A b \in Batches : WF_vars(fetchAttestation(b))
  /\ WF_vars(Executing)
  /\ \A i \in Items : WF_vars(index(i))
  /\ \A c \in Callers : WF_vars(loadPositions(c) \/ loadOrders(c) \/ loadReplace(c))
  /\ SF_vars(reevaluateAll) /\ SF_vars(reconcileGivesUp)
  /\ WF_vars(mine)

Spec == Init /\ [][Next]_vars

FairSpec == Spec /\ Fairness

-----------------------------------------------------------------------------
(* Properties                                                              *)

(* Book.load and reconcile race each other and the indexer: whatever stale *)
(* rows a late answer puts back or leaves out, once the traders pause the  *)
(* book shows the chain's orders and positions, and keeps showing them.    *)
BookConverges == <>[](book = Live)

(* An item that stays executable at the attested price and at the last     *)
(* candidate's is executed, whatever failed on the way.                    *)
Ready(i, price) ==
  /\ i \in Live
  /\ attested = price /\ i \in Wanted[price]
  /\ lastTick # None /\ i \in Wanted[lastTick]

WorkGetsDone == \A i \in Items, price \in Prices : []<>~Ready(i, price)
=============================================================================
