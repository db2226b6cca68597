------------------------------ MODULE Attestor -------------------------------
(***************************************************************************)
(* The attestor process (apps/attestor/src/poller.ts and main.ts) over its *)
(* database (packages/db/src/repos.ts).  A tick starts a cycle; a cycle    *)
(* reads the latest candidates and, GPU by GPU, audits, signs and stores.  *)
(* Each step ends in an await, which may fail, or hang, in which case the  *)
(* time budget abandons the cycle, which goes on as the next one runs.     *)
(* The process may be stopped or crash at any point.                       *)
(*                                                                         *)
(* A candidate's price is in dollars, written as a number of 1/Dollar; a   *)
(* report's is an integer number of 1/PriceScale.  A fraction x of the     *)
(* configuration is the integer x * Percent.  Times are seconds.           *)
(***************************************************************************)
EXTENDS Integers, FiniteSets, Sequences

CONSTANTS
  Dollar, PriceScale, Percent,
  EpochLength, MaxObservationAge,
  None,             \* a missing row, and no cycle
  Gpus,             \* the settlement panels' gpu ids, a sequence
  Templates,        \* what the pricing engine may compute, but for the time
  Config,           \* the attestor's thresholds
  BreakerMaps,      \* providers that may be reported with open breakers
  Panel,            \* the pinned methodology's limits for every panel
  OnchainChoices,   \* postures of the deployed oracle
  Posture,          \* the configured one
  Cycles,           \* bound on cycles running at a time
  MaxFaults, MaxStops, MaxCandidates, MaxTime

ASSUME ReportConstants ==
  /\ Dollar \in Nat \ {0} /\ PriceScale \in Nat \ {0} /\ Percent \in Nat \ {0}
  /\ Dollar % PriceScale = 0
  /\ EpochLength \in Nat \ {0}
  /\ MaxObservationAge \in Nat /\ MaxObservationAge >= EpochLength

ASSUME AttestorConstants ==
  /\ MaxFaults \in Nat /\ MaxStops \in Nat /\ MaxCandidates \in Nat /\ MaxTime \in Nat

(* The columns of a candidate's row.                                       *)
ASSUME TemplateColumns ==
  \A t \in Templates :
    /\ {"gpuId", "computedAt", "price", "contributors"} \subseteq DOMAIN t
    /\ t.gpuId \in {Gpus[n] : n \in DOMAIN Gpus}
    /\ t.price \in Int /\ IsFiniteSet(t.contributors)

-----------------------------------------------------------------------------
(* The pure rules (validate.ts, thresholds.ts, health.ts and the client's  *)
(* report.ts): the audit of a candidate, the thresholds of its panel, the  *)
(* source health it reads, and the report built from it.                   *)
Missing == -1       \* a null column or setting

atLeast(x, y) == IF x > y THEN x ELSE y
atMost(x, y) == IF x < y THEN x ELSE y

-----------------------------------------------------------------------------
(* Mutants                                                                 *)

(* An observation time that is not clamped to the clock.                   *)
unclampedSeconds(computedAt, nowSec) == computedAt

-----------------------------------------------------------------------------
(* The methodology's limits for a panel, tightened by the operator's and   *)
(* never relaxed.                                                          *)
resolvePanelThresholds(config, panel) ==
  [config EXCEPT
     !.minContributors = atLeast(@, panel.minProviders),
     !.maxDispersion = IF @ = Missing THEN panel.maxDispersion ELSE atMost(@, panel.maxDispersion),
     !.maxBandWidthPct = IF @ = Missing THEN panel.maxDispersion
                         ELSE atMost(@, panel.maxDispersion)]

(* A provider is marked when any of its collectors has an open breaker.    *)
fetchBreakerMap(collectors) == {c.provider : c \in {x \in collectors : x.breakerOpen}}

Violations == {"status", "price", "freshness", "methodology", "contributors", "dispersion",
               "band", "jump", "sources"}

(* The violation codes of a candidate c; prev is the last published price  *)
(* or Missing, open the providers with open breakers.                      *)
assessCandidate(c, config, now, prev, open) ==
  {code \in Violations :
     \/ code = "status" /\ c.status \notin {"healthy", "degraded"}
     \/ code = "price" /\ c.price = Missing
     \/ code = "freshness" /\ now - c.computedAt > config.maxFreshness
     \/ code = "methodology" /\ c.methodologyVersion # config.pinnedMethodologyVersion
     \/ code = "contributors" /\ c.providersContributing < config.minContributors
     \/ code = "dispersion" /\ c.dispersion > config.maxDispersion
     \/ /\ code = "band" /\ c.price > 0 /\ c.bandWidth # Missing
        /\ c.bandWidth * Percent > config.maxBandWidthPct * c.price
     \/ /\ code = "jump" /\ prev > 0 /\ c.price # Missing
        /\ (IF c.price > prev THEN c.price - prev ELSE prev - c.price) * Percent
             > config.maxJumpPct * prev
     \/ /\ code = "sources"
        /\ 2 * Cardinality(c.contributors \cap open) > Cardinality(c.contributors)}

-----------------------------------------------------------------------------
epochOf(unixSec) == unixSec \div EpochLength

(* Clamped to the clock: the contract refuses observations in the future.  *)
observationSeconds(computedAt, nowSec) == atMost(computedAt, nowSec)

(* Four decimals, or an exception.                                         *)
scales(price) == price > 0 /\ (price * PriceScale) % Dollar = 0
priceToScaled(price) == (price * PriceScale) \div Dollar

(* Whether buildReport returns: calcHash is well formed.                   *)
buildable(price, observedAt, nowSec) == scales(price) /\ nowSec - observedAt <= MaxObservationAge

(* The report for the epoch being attested into, which need not be the     *)
(* observation's.                                                          *)
buildReport(gpuId, price, observedAt, nowSec) ==
  [gpuId |-> gpuId, price |-> priceToScaled(price),
   observedAt |-> observationSeconds(observedAt, nowSec),
   epoch |-> epochOf(nowSec),
   validFrom |-> epochOf(nowSec) * EpochLength,
   validUntil |-> epochOf(nowSec) * EpochLength + EpochLength]

-----------------------------------------------------------------------------
VARIABLES
  clock,
  candidates,   \* the index_candidates table, in order of insertion
  reports,      \* the reports table, by gpu and epoch
  ledger,       \* the publish_violations table, by candidate id
  process,      \* "up", "stopping" or "down"
  inFlight,     \* the cycle the poller waits for
  cycle,        \* cycles started and not over
  onchain,      \* the deployed oracle's public state
  faults, stops \* calls that hung or failed, and stops, so far

tables == <<candidates, reports, ledger>>
vars == <<clock, candidates, reports, ledger, process, inFlight, cycle, onchain, faults, stops>>

GpuSet == {Gpus[n] : n \in DOMAIN Gpus}
Ids == 1..MaxCandidates
Codes == Violations \cup {"floor"}
Epochs == 0..epochOf(MaxTime)

ASSUME NoneIsNoRow == \A codes \in SUBSET Codes : codes # None

(* getCandidateHistory(gpu, 1): the id of the newest row by computedAt.    *)
latestOf(gpu) ==
  LET own == {i \in DOMAIN candidates : candidates[i].gpuId = gpu}
  IN  IF own = {} THEN None
      ELSE CHOOSE i \in own : \A j \in own : candidates[j].computedAt <= candidates[i].computedAt

(* getLatestOracleReport: the newest row by epoch.                         *)
latestReport(gpu) ==
  LET own == {e \in Epochs : reports[gpu, e] # None}
  IN  IF own = {} THEN None ELSE reports[gpu, CHOOSE e \in own : \A f \in own : f <= e]

idle == [pc |-> "idle"]

(* The rest of a cycle: the next candidate, or the end of it.              *)
onward(c, left) ==
  IF left = <<>>
  THEN /\ cycle' = [cycle EXCEPT ![c] = idle]
       /\ inFlight' = IF inFlight = c THEN None ELSE inFlight
  ELSE /\ cycle' = [cycle EXCEPT ![c] = [pc |-> "check", hung |-> FALSE, now |-> cycle[c].now,
                                         breakers |-> cycle[c].breakers, left |-> left]]
       /\ UNCHANGED inFlight

nextCandidate(c) == onward(c, Tail(cycle[c].left))

proceed(c, to) == cycle' = [cycle EXCEPT ![c] = to] /\ UNCHANGED inFlight

At(c, pc) == cycle[c].pc = pc /\ ~cycle[c].hung

candidateOf(c) == candidates[Head(cycle[c].left)]

-----------------------------------------------------------------------------
(* Mutants                                                                 *)

(* A poller that waits for its cycle however long it takes.                *)
noBudget(c) == FALSE /\ UNCHANGED vars

(* A report written over the epoch's earlier one.                          *)
upsert(gpu, row) == [reports EXCEPT ![<<gpu, row.epoch>>] = row]

-----------------------------------------------------------------------------
(* The process                                                             *)

(* checkOraclePosture: the fields that differ from the deployed oracle.    *)
mismatches == {f \in DOMAIN Posture : onchain[f] # Posture[f]}

(* main: with an RPC configured it refuses to start on any drift.          *)
boot ==
  /\ process = "down"
  /\ mismatches = {}
  /\ process' = "up"
  /\ UNCHANGED <<clock, tables, inFlight, cycle, onchain, faults, stops>>

(* A tick while a cycle is in flight only counts it.                       *)
tick ==
  /\ process = "up" /\ inFlight = None
  /\ \E c \in Cycles : cycle[c] = idle
  /\ LET c == CHOOSE x \in Cycles : cycle[x] = idle
     IN  /\ cycle' = [cycle EXCEPT ![c] = [pc |-> "read", hung |-> FALSE, now |-> clock,
                                            asked |-> 0, left |-> <<>>]]
         /\ inFlight' = c
  /\ UNCHANGED <<clock, tables, process, onchain, faults, stops>>

(* The tick's time budget runs out during a call: the poller is free, and  *)
(* the cycle will go on when the call answers.                             *)
budget(c) ==
  /\ inFlight = c /\ cycle[c].hung
  /\ inFlight' = None
  /\ UNCHANGED <<clock, tables, process, cycle, onchain, faults, stops>>

(* stop: no more ticks; the exit waits for the cycle, within the budget.   *)
stop ==
  /\ process = "up" /\ stops < MaxStops
  /\ process' = "stopping"
  /\ stops' = stops + 1
  /\ UNCHANGED <<clock, tables, inFlight, cycle, onchain, faults>>

exit ==
  /\ process = "stopping"
  /\ process' = "down"
  /\ cycle' = [c \in Cycles |-> idle]
  /\ inFlight' = None
  /\ UNCHANGED <<clock, tables, onchain, faults, stops>>

crash ==
  /\ process = "up" /\ stops < MaxStops
  /\ process' = "down"
  /\ stops' = stops + 1
  /\ cycle' = [c \in Cycles |-> idle]
  /\ inFlight' = None
  /\ UNCHANGED <<clock, tables, onchain, faults>>

(* A call that does not answer within the budget, or answers late.         *)
hang(c) ==
  /\ inFlight = c /\ ~cycle[c].hung /\ faults < MaxFaults
  /\ cycle' = [cycle EXCEPT ![c].hung = TRUE]
  /\ faults' = faults + 1
  /\ UNCHANGED <<clock, tables, process, inFlight, onchain, stops>>

resume(c) ==
  /\ cycle[c] # idle /\ cycle[c].hung
  /\ cycle' = [cycle EXCEPT ![c].hung = FALSE]
  /\ UNCHANGED <<clock, tables, process, inFlight, onchain, faults, stops>>

-----------------------------------------------------------------------------
(* A cycle                                                                 *)

(* latestCandidates: one query for each GPU in turn, each on the rows of   *)
(* its own time.                                                           *)
latestCandidates(c) ==
  LET cy == cycle[c]
      id == latestOf(Gpus[cy.asked + 1])
  IN  /\ At(c, "read") /\ cy.asked < Len(Gpus)
      /\ proceed(c, [pc |-> "read", hung |-> FALSE, now |-> cy.now, asked |-> cy.asked + 1,
                     left |-> IF id = None THEN cy.left ELSE Append(cy.left, id)])
      /\ UNCHANGED <<clock, tables, process, onchain, faults, stops>>

(* With the source health, the candidates and the methodology row, the     *)
(* candidates are taken one by one; without one of them the cycle is over. *)
readInputs(c) ==
  LET left == cycle[c].left
  IN  /\ At(c, "read") /\ cycle[c].asked = Len(Gpus)
      /\ IF left = <<>> THEN onward(c, <<>>)
         ELSE \E open \in BreakerMaps :
                proceed(c, [pc |-> "check", hung |-> FALSE, now |-> cycle[c].now,
                            breakers |-> open, left |-> left])
      /\ UNCHANGED <<clock, tables, process, onchain, faults, stops>>

(* An await that throws: of the inputs', the cycle's end; of a candidate's,*)
(* the next one.                                                           *)
callFails(c) ==
  /\ cycle[c] # idle /\ ~cycle[c].hung /\ faults < MaxFaults
  /\ IF cycle[c].pc = "read" THEN onward(c, <<>>) ELSE nextCandidate(c)
  /\ faults' = faults + 1
  /\ UNCHANGED <<clock, tables, process, onchain, stops>>

(* One report per gpu and epoch: the epoch of the cycle's own clock.       *)
reportForEpoch(c) == reports[candidateOf(c).gpuId, epochOf(cycle[c].now)] # None

(* The stored price is the report's integer, read as dollars.              *)
previousPublishedPrice(gpu) ==
  IF latestReport(gpu) = None THEN Missing ELSE latestReport(gpu).price * Dollar

flagFirst(cy, codes, report) ==
  [pc |-> IF codes = {} THEN "store" ELSE "flag", hung |-> FALSE, now |-> cy.now,
   breakers |-> cy.breakers, left |-> cy.left, codes |-> codes, report |-> report]

refusal(cy, codes) ==
  [pc |-> "refuse", hung |-> FALSE, now |-> cy.now, breakers |-> cy.breakers, left |-> cy.left,
   codes |-> codes]

(* The gate of the epoch, the audit against the latest report, then a      *)
(* refusal or a signature: calls that write nothing, in one step.          *)
(* Violations do not block: only no price and an old observation do.       *)
auditAndSign(c) ==
  LET cd == candidateOf(c)
      now == cycle[c].now
      codes == assessCandidate(cd, resolvePanelThresholds(Config, Panel), now,
                               previousPublishedPrice(cd.gpuId), cycle[c].breakers)
      observedAt == observationSeconds(cd.computedAt, now)
  IN  /\ At(c, "check")
      /\ IF reportForEpoch(c) THEN nextCandidate(c)
         ELSE IF cd.price = Missing THEN proceed(c, refusal(cycle[c], codes))
         ELSE IF now - observedAt > MaxObservationAge
         THEN proceed(c, refusal(cycle[c], codes \cup {"floor"}))
         ELSE IF ~buildable(cd.price, observedAt, now) THEN nextCandidate(c)
         ELSE proceed(c, flagFirst(cycle[c], codes, buildReport(cd.gpuId, cd.price, observedAt, now)))
      /\ UNCHANGED <<clock, tables, process, onchain, faults, stops>>

(* recordPublishViolations: the first row of a candidate stays.            *)
recordViolations(id, codes) ==
  ledger' = IF ledger[id] = None THEN [ledger EXCEPT ![id] = codes] ELSE ledger

refuse(c) ==
  /\ At(c, "refuse")
  /\ recordViolations(Head(cycle[c].left), cycle[c].codes)
  /\ nextCandidate(c)
  /\ UNCHANGED <<clock, candidates, reports, process, onchain, faults, stops>>

flag(c) ==
  /\ At(c, "flag")
  /\ recordViolations(Head(cycle[c].left), cycle[c].codes)
  /\ proceed(c, [cycle[c] EXCEPT !.pc = "store"])
  /\ UNCHANGED <<clock, candidates, reports, process, onchain, faults, stops>>

(* insertOracleReport: on conflict of (gpu, epoch), nothing.               *)
insertOracleReport(gpu, row) ==
  IF reports[gpu, row.epoch] = None THEN [reports EXCEPT ![<<gpu, row.epoch>>] = row] ELSE reports

storeReport(c) ==
  LET r == cycle[c].report
  IN  /\ At(c, "store")
      /\ reports' = insertOracleReport(r.gpuId,
                      [price |-> r.price, observedAt |-> r.observedAt, epoch |-> r.epoch,
                       validFrom |-> r.validFrom, validUntil |-> r.validUntil,
                       candidateId |-> Head(cycle[c].left), attestedAt |-> cycle[c].now])
      /\ nextCandidate(c)
      /\ UNCHANGED <<clock, candidates, ledger, process, onchain, faults, stops>>

-----------------------------------------------------------------------------
(* The pricing engine, the oracle's owner and time                         *)

rowOf(t, now) == [t EXCEPT !.computedAt = now]

compute(t) ==
  /\ Len(candidates) < MaxCandidates
  /\ \A i \in DOMAIN candidates :
       candidates[i].gpuId = t.gpuId => candidates[i].computedAt < clock
  /\ candidates' = Append(candidates, rowOf(t, clock))
  /\ UNCHANGED <<clock, reports, ledger, process, inFlight, cycle, onchain, faults, stops>>

(* Only boot reads the deployed oracle's state, so a change matters just   *)
(* before it.                                                              *)
ownerSets(o) ==
  /\ process = "down"
  /\ onchain' = o
  /\ UNCHANGED <<clock, tables, process, inFlight, cycle, faults, stops>>

passTime ==
  /\ clock < MaxTime
  /\ clock' = clock + 1
  /\ UNCHANGED <<tables, process, inFlight, cycle, onchain, faults, stops>>

Init ==
  /\ clock = 0
  /\ candidates = <<>>
  /\ reports = [k \in GpuSet \X Epochs |-> None]
  /\ ledger = [i \in Ids |-> None]
  /\ process = "down"
  /\ inFlight = None
  /\ cycle = [c \in Cycles |-> idle]
  /\ onchain = Posture
  /\ faults = 0 /\ stops = 0

Work(c) ==
  \/ latestCandidates(c) \/ readInputs(c)
  \/ auditAndSign(c) \/ refuse(c) \/ flag(c) \/ storeReport(c)

Next ==
  \/ boot \/ tick \/ stop \/ exit \/ crash \/ passTime
  \/ \E c \in Cycles : budget(c) \/ hang(c) \/ resume(c) \/ callFails(c) \/ Work(c)
  \/ \E t \in Templates : compute(t)
  \/ \E o \in OnchainChoices : ownerSets(o)

(* The interval timer fires, the budget's timer too, the supervisor        *)
(* restarts the process, and a call that neither hangs nor fails, which    *)
(* it does MaxFaults times, answers.                                       *)
Fairness ==
  /\ WF_vars(boot) /\ WF_vars(exit) /\ WF_vars(tick)
  /\ \A c \in Cycles : WF_vars(budget(c)) /\ WF_vars(Work(c))

Spec == Init /\ [][Next]_vars /\ Fairness

-----------------------------------------------------------------------------
(* Properties                                                              *)

(* insertOracleReport, with an abandoned cycle that wakes up late or a     *)
(* restart between signing and storing: the report served for a GPU and    *)
(* epoch never changes, so no two traders are handed different ones.       *)
ServedReportNeverChanges ==
  [][\A k \in GpuSet \X Epochs : reports[k] # None => reports'[k] = reports[k]]_vars

(* However old the clock reading and the candidate of a slow cycle, a      *)
(* stored report is one GpuOracle accepts at the time it was attested: in  *)
(* its own epoch, observed in the past and within the floor.               *)
StoredReportsConsumable ==
  \A k \in GpuSet \X Epochs :
    reports[k] # None =>
      LET r == reports[k]
      IN  /\ r.epoch = k[2] /\ r.price > 0
          /\ r.validFrom <= r.attestedAt /\ r.attestedAt < r.validUntil
          /\ r.observedAt <= r.attestedAt
          /\ r.attestedAt - r.observedAt <= MaxObservationAge
          /\ r.observedAt <= candidates[r.candidateId].computedAt

(* The violations are stored before the report they annotate: a crash      *)
(* never leaves a flagged report without its row in the audit ledger.      *)
FlaggedReportsExplained ==
  \A k \in GpuSet \X Epochs :
    /\ reports[k] # None
    /\ assessCandidate(candidates[reports[k].candidateId], resolvePanelThresholds(Config, Panel),
                       reports[k].attestedAt, Missing, {}) # {}
    => ledger[reports[k].candidateId] # None

(* What is served can be consumed and explained, whatever was interrupted. *)
StoredReportsSound == StoredReportsConsumable /\ FlaggedReportsExplained

(* A candidate worth attesting now.                                        *)
Attestable(gpu) ==
  /\ latestOf(gpu) # None
  /\ LET cd == candidates[latestOf(gpu)]
     IN  buildable(cd.price, cd.computedAt, clock)

(* tick and its budget: a wedged call, failures, a crash or an earlier     *)
(* GPU's refusals do not starve the feed; while there is something to      *)
(* attest, the current epoch gets its report.                              *)
EpochGetsReport ==
  \A gpu \in GpuSet :
    (<>[](Attestable(gpu) /\ mismatches = {}))
       => <>[](reports[gpu, epochOf(clock)] # None)
=============================================================================
