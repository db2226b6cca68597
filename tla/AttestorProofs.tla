--------------------------- MODULE AttestorProofs ----------------------------
(***************************************************************************)
(* Why what the attestor serves stays sound, for any number of GPUs,       *)
(* cycles, candidates, faults and stops, and any thresholds: the           *)
(* invariant follows each cycle, its clock reading and the rows it took,   *)
(* through whatever the tables became while its calls were pending.        *)
(***************************************************************************)
EXTENDS Attestor, FiniteSetTheorems, SequenceTheorems, TLAPS

-----------------------------------------------------------------------------
(* The inductive invariant.  Its parts are predicates of a candidates      *)
(* table cs and a ledger lg, since a cycle that was abandoned goes on with *)
(* ids it read from an earlier state of them.                              *)

Rows == {rowOf(t, n) : t \in Templates, n \in Nat}

(* The codes a candidate has whatever was published and whatever is open.  *)
Plain(cd, now) == assessCandidate(cd, resolvePanelThresholds(Config, Panel), now, Missing, {})

(* Each row's GPU has a newest row, for latestOf to choose.                *)
Newest(cs) ==
  \A i \in DOMAIN cs :
    \E m \in DOMAIN cs :
      /\ cs[m].gpuId = cs[i].gpuId
      /\ \A j \in DOMAIN cs : cs[j].gpuId = cs[i].gpuId => cs[j].computedAt <= cs[m].computedAt

(* What was signed at now from the candidate cd.                           *)
SignedFrom(r, cd, now) ==
  /\ r.epoch = epochOf(now) /\ r.price > 0
  /\ r.validFrom <= now /\ now < r.validUntil
  /\ r.observedAt <= now /\ now - r.observedAt <= MaxObservationAge
  /\ r.observedAt <= cd.computedAt

Explained(cs, lg, id, now) == Plain(cs[id], now) # {} => lg[id] # None

Reading(cs) ==
  [pc : {"read"}, hung : BOOLEAN, now : Nat, asked : Nat, left : Seq(DOMAIN cs)]

Taking(cs) ==
  [pc : {"check"}, hung : BOOLEAN, now : Nat, breakers : BreakerMaps,
   left : Seq(DOMAIN cs) \ {<<>>}]

Refusing(cs) ==
  [pc : {"refuse"}, hung : BOOLEAN, now : Nat, breakers : BreakerMaps,
   left : Seq(DOMAIN cs) \ {<<>>}, codes : SUBSET Codes]

Signed ==
  [gpuId : GpuSet, price : Int, observedAt : Int, epoch : Int, validFrom : Int, validUntil : Int]

Signing(cs) ==
  [pc : {"flag", "store"}, hung : BOOLEAN, now : Nat, breakers : BreakerMaps,
   left : Seq(DOMAIN cs) \ {<<>>}, codes : SUBSET Codes, report : Signed]

Fits(cy, cs, lg) ==
  \/ cy = idle
  \/ cy \in Reading(cs)
  \/ cy \in Taking(cs)
  \/ cy \in Refusing(cs)
  \/ /\ cy \in Signing(cs)
     /\ SignedFrom(cy.report, cs[Head(cy.left)], cy.now)
     /\ cy.pc = "store" => Explained(cs, lg, Head(cy.left), cy.now)

TablesOK(cs, lg) ==
  /\ cs \in Seq(Rows) /\ Len(cs) <= MaxCandidates
  /\ Newest(cs)
  /\ DOMAIN lg = Ids /\ lg = [i \in Ids |-> lg[i]]

CyclesFit(cy, cs, lg) == cy = [c \in Cycles |-> cy[c]] /\ \A c \in Cycles : Fits(cy[c], cs, lg)

(* A stored report was signed when it says, from the row it names, which   *)
(* was explained first.                                                    *)
RowSound(r, e, cs, lg) ==
  /\ r.epoch = e
  /\ r.candidateId \in DOMAIN cs
  /\ r.attestedAt \in Nat
  /\ SignedFrom(r, cs[r.candidateId], r.attestedAt)
  /\ Explained(cs, lg, r.candidateId, r.attestedAt)

Served(rs, cs, lg) ==
  /\ rs = [k \in GpuSet \X Epochs |-> rs[k]]
  /\ \A k \in GpuSet \X Epochs : rs[k] # None => RowSound(rs[k], k[2], cs, lg)

IInv ==
  /\ clock \in Nat
  /\ TablesOK(candidates, ledger)
  /\ CyclesFit(cycle, candidates, ledger)
  /\ Served(reports, candidates, ledger)

-----------------------------------------------------------------------------
(* The audit and the report                                                *)

(* A row has the columns the audit reads.                                  *)
LEMMA RowColumns ==
  ASSUME NEW r \in Rows
  PROVE  r.gpuId \in GpuSet /\ r.computedAt \in Nat /\ r.price \in Int
         /\ IsFiniteSet(r.contributors)
<1>1. PICK t \in Templates, n \in Nat : r = rowOf(t, n)
  BY DEF Rows
<1>2. {"gpuId", "computedAt", "price", "contributors"} \subseteq DOMAIN t
      /\ t.gpuId \in GpuSet /\ t.price \in Int /\ IsFiniteSet(t.contributors)
  BY TemplateColumns DEF GpuSet
<1> QED BY <1>1, <1>2 DEF rowOf

(* The codes that need neither an earlier price nor the sources' health    *)
(* are among the ones the audit found with them.                           *)
LEMMA PlainIsFound ==
  ASSUME NEW cd, IsFiniteSet(cd.contributors), NEW now, NEW prev, NEW open
  PROVE  Plain(cd, now) \subseteq
           assessCandidate(cd, resolvePanelThresholds(Config, Panel), now, prev, open)
<1> DEFINE cfg == resolvePanelThresholds(Config, Panel)
<1> SUFFICES ASSUME NEW code \in Plain(cd, now)
             PROVE  code \in assessCandidate(cd, cfg, now, prev, open)
  OBVIOUS
<1> HIDE DEF cfg
<1>0. code \in assessCandidate(cd, cfg, now, Missing, {})
  BY DEF Plain, cfg
<1>1. code # "jump"
  BY <1>0 DEF assessCandidate, Violations, Missing
<1>2. Cardinality(cd.contributors) \in Nat
  BY FS_CardinalityType
<1>3. cd.contributors \cap {} = {} /\ Cardinality({}) = 0
  BY FS_EmptySet
<1>4. code # "sources"
  BY <1>0, <1>2, <1>3 DEF assessCandidate, Violations
<1> QED BY <1>0, <1>1, <1>4 DEF assessCandidate, Violations

(* The codes are codes.                                                    *)
LEMMA CodesAreCodes ==
  ASSUME NEW cd, NEW cfg, NEW now, NEW prev, NEW open
  PROVE  /\ assessCandidate(cd, cfg, now, prev, open) \in SUBSET Codes
         /\ assessCandidate(cd, cfg, now, prev, open) \cup {"floor"} \in SUBSET Codes
BY DEF assessCandidate, Codes

(* A time lies in the window of its epoch.                                 *)
LEMMA EpochWindow ==
  ASSUME NEW n \in Nat
  PROVE  /\ epochOf(n) \in Nat
         /\ epochOf(n) * EpochLength \in Nat
         /\ epochOf(n) * EpochLength <= n
         /\ n < epochOf(n) * EpochLength + EpochLength
BY ReportConstants DEF epochOf

(* A price that scales is at least one unit of the report's.               *)
LEMMA ScaledPositive ==
  ASSUME NEW p \in Int, scales(p)
  PROVE  priceToScaled(p) \in Int /\ priceToScaled(p) > 0
<1> DEFINE x == p * PriceScale
<1>1. PriceScale \in Nat \ {0} /\ Dollar \in Nat \ {0} /\ p > 0 /\ x % Dollar = 0
  BY ReportConstants DEF scales
<1>2. x \in Int /\ x > 0
  BY <1>1
<1> HIDE DEF x
<1>3. x \div Dollar \in Int /\ x \div Dollar > 0
  BY <1>1, <1>2
<1> QED BY <1>3 DEF priceToScaled, x

(* What buildReport returns is signed from its candidate.                  *)
LEMMA BuiltReport ==
  ASSUME NEW cd \in Rows, NEW now \in Nat,
         now - observationSeconds(cd.computedAt, now) <= MaxObservationAge, scales(cd.price)
  PROVE  LET r == buildReport(cd.gpuId, cd.price, observationSeconds(cd.computedAt, now), now)
         IN  r \in Signed /\ SignedFrom(r, cd, now)
<1>1. cd.gpuId \in GpuSet /\ cd.computedAt \in Nat /\ cd.price \in Int
  BY RowColumns
<1>2. priceToScaled(cd.price) \in Int /\ priceToScaled(cd.price) > 0
  BY <1>1, ScaledPositive
<1>3. EpochLength \in Nat /\ MaxObservationAge \in Nat
  BY ReportConstants
<1> DEFINE at == observationSeconds(cd.computedAt, now)
           r == buildReport(cd.gpuId, cd.price, at, now)
<1>4. at \in Nat /\ at <= now /\ at <= cd.computedAt /\ observationSeconds(at, now) = at
  BY <1>1 DEF observationSeconds, atMost
<1>5. now - at <= MaxObservationAge
  OBVIOUS
<1> HIDE DEF at
<1>6. r \in Signed
  BY <1>1, <1>2, <1>3, <1>4, EpochWindow DEF buildReport, Signed
<1>7. SignedFrom(r, cd, now)
  BY <1>1, <1>2, <1>3, <1>4, <1>5, EpochWindow DEF buildReport, SignedFrom
<1> QED BY <1>6, <1>7 DEF at

-----------------------------------------------------------------------------
(* Tables only grow                                                        *)

(* A later state of the tables: rows stay, and so do ledger entries.       *)
Later(cs, lg, cs2, lg2) ==
  /\ DOMAIN cs \subseteq DOMAIN cs2
  /\ \A i \in DOMAIN cs : cs2[i] = cs[i] /\ (lg[i] # None => lg2[i] # None)

(* What a cycle holds stays true of later tables.                          *)
LEMMA FitsLater ==
  ASSUME NEW cy, NEW cs, NEW lg, NEW cs2, NEW lg2,
         Fits(cy, cs, lg), Later(cs, lg, cs2, lg2)
  PROVE  Fits(cy, cs2, lg2)
<1>1. Seq(DOMAIN cs) \subseteq Seq(DOMAIN cs2)
  <2> SUFFICES ASSUME NEW s \in Seq(DOMAIN cs)  PROVE  s \in Seq(DOMAIN cs2)
    OBVIOUS
  <2>1. \A n \in 1..Len(s) : s[n] \in DOMAIN cs2
    BY DEF Later
  <2> QED BY <2>1
<1>2. CASE cy = idle
  BY <1>2 DEF Fits
<1>3. CASE cy \in Reading(cs)
  BY <1>1, <1>3 DEF Fits, Reading
<1>4. CASE cy \in Taking(cs)
  BY <1>1, <1>4 DEF Fits, Taking
<1>5. CASE cy \in Refusing(cs)
  BY <1>1, <1>5 DEF Fits, Refusing
<1>6. CASE /\ cy \in Signing(cs)
           /\ SignedFrom(cy.report, cs[Head(cy.left)], cy.now)
           /\ cy.pc = "store" => Explained(cs, lg, Head(cy.left), cy.now)
  <2>1. cy \in Signing(cs2)
    BY <1>1, <1>6 DEF Signing
  <2>2. cy.left \in Seq(DOMAIN cs) /\ cy.left # <<>>
    BY <1>6 DEF Signing
  <2>3. Head(cy.left) \in DOMAIN cs
    BY <2>2
  <2>4. SignedFrom(cy.report, cs2[Head(cy.left)], cy.now)
    BY <1>6, <2>3 DEF Later
  <2>5. cy.pc = "store" => Explained(cs2, lg2, Head(cy.left), cy.now)
    BY <1>6, <2>3 DEF Later, Explained
  <2> QED BY <2>1, <2>4, <2>5 DEF Fits
<1> QED BY <1>2, <1>3, <1>4, <1>5, <1>6 DEF Fits

(* And so does what a stored report says.                                  *)
LEMMA ServedLater ==
  ASSUME NEW rs, NEW cs, NEW lg, NEW cs2, NEW lg2,
         Served(rs, cs, lg), Later(cs, lg, cs2, lg2)
  PROVE  Served(rs, cs2, lg2)
<1> SUFFICES ASSUME NEW k \in GpuSet \X Epochs, rs[k] # None
             PROVE  RowSound(rs[k], k[2], cs2, lg2)
  BY DEF Served
<1>1. RowSound(rs[k], k[2], cs, lg)
  BY DEF Served
<1> QED BY <1>1 DEF RowSound, Later, Explained

(* The table is its own later state.                                       *)
LEMMA LaterSame ==
  ASSUME NEW cs, NEW lg
  PROVE  Later(cs, lg, cs, lg)
BY DEF Later

(* A new candidate.                                                        *)
LEMMA CandidateAdded ==
  ASSUME NEW cs, NEW lg, TablesOK(cs, lg), NEW r \in Rows, Len(cs) < MaxCandidates,
         \A i \in DOMAIN cs : cs[i].gpuId = r.gpuId => cs[i].computedAt < r.computedAt
  PROVE  TablesOK(Append(cs, r), lg) /\ Later(cs, lg, Append(cs, r), lg)
<1> DEFINE cs2 == Append(cs, r)
           new == Len(cs) + 1
<1>1. cs \in Seq(Rows) /\ DOMAIN cs = 1..Len(cs) /\ Len(cs) \in Nat
  BY DEF TablesOK
<1>2. /\ cs2 \in Seq(Rows) /\ Len(cs2) = new /\ DOMAIN cs2 = 1..new
      /\ cs2[new] = r /\ \A i \in DOMAIN cs : cs2[i] = cs[i]
  BY <1>1
<1>3. \A i \in DOMAIN cs2 : i \in DOMAIN cs \/ i = new
  BY <1>1, <1>2
<1>4. DOMAIN cs \subseteq DOMAIN cs2 /\ new \in DOMAIN cs2
  BY <1>1, <1>2
<1>5. MaxCandidates \in Nat /\ new <= MaxCandidates
  BY <1>1, AttestorConstants
<1>6. \A i \in DOMAIN cs2 : cs2[i].computedAt \in Nat
  BY <1>2, RowColumns
<1> HIDE DEF cs2, new
<1>7. Newest(cs2)
  <2> SUFFICES ASSUME NEW i \in DOMAIN cs2
               PROVE  \E m \in DOMAIN cs2 :
                        /\ cs2[m].gpuId = cs2[i].gpuId
                        /\ \A j \in DOMAIN cs2 : cs2[j].gpuId = cs2[i].gpuId
                             => cs2[j].computedAt <= cs2[m].computedAt
    BY DEF Newest
  <2>1. CASE cs2[i].gpuId = r.gpuId
    <3>1. \A j \in DOMAIN cs2 : cs2[j].gpuId = r.gpuId => cs2[j].computedAt <= cs2[new].computedAt
      BY <1>2, <1>3, <1>4, <1>6
    <3> QED BY <2>1, <3>1, <1>2, <1>4
  <2>2. CASE cs2[i].gpuId # r.gpuId
    <3>1. i \in DOMAIN cs /\ cs2[i] = cs[i]
      BY <2>2, <1>2, <1>3
    <3>2. PICK m \in DOMAIN cs :
            /\ cs[m].gpuId = cs[i].gpuId
            /\ \A j \in DOMAIN cs : cs[j].gpuId = cs[i].gpuId => cs[j].computedAt <= cs[m].computedAt
      BY <3>1 DEF TablesOK, Newest
    <3>3. \A j \in DOMAIN cs2 : cs2[j].gpuId = cs2[i].gpuId
             => cs2[j].computedAt <= cs2[m].computedAt
      BY <2>2, <3>1, <3>2, <1>2, <1>3
    <3> QED BY <3>1, <3>2, <3>3, <1>2, <1>4
  <2> QED BY <2>1, <2>2
<1>8. Later(cs, lg, cs2, lg)
  BY <1>2, <1>4 DEF Later
<1>9. TablesOK(cs2, lg)
  BY <1>2, <1>5, <1>7 DEF TablesOK
<1> QED BY <1>8, <1>9 DEF cs2

(* A row of violations written once.                                       *)
LEMMA LedgerWritten ==
  ASSUME NEW cs, NEW lg, TablesOK(cs, lg), NEW id \in DOMAIN cs, NEW codes \in SUBSET Codes,
         NEW lg2, lg2 = IF lg[id] = None THEN [lg EXCEPT ![id] = codes] ELSE lg
  PROVE  TablesOK(cs, lg2) /\ Later(cs, lg, cs, lg2) /\ lg2[id] # None
<1>1. codes # None
  BY NoneIsNoRow
<1>2. cs \in Seq(Rows) /\ Len(cs) \in Nat /\ Len(cs) <= MaxCandidates /\ MaxCandidates \in Nat
  BY AttestorConstants DEF TablesOK
<1>3. DOMAIN cs \subseteq Ids /\ id \in Ids
  BY <1>2 DEF Ids
<1>4. DOMAIN lg = Ids /\ lg = [i \in Ids |-> lg[i]]
  BY DEF TablesOK
<1>5. DOMAIN lg2 = Ids /\ lg2 = [i \in Ids |-> lg2[i]]
  BY <1>4
<1>6. \A i \in Ids : lg[i] # None => lg2[i] # None
  BY <1>1, <1>4
<1>7. lg2[id] # None
  BY <1>1, <1>3, <1>4
<1>8. TablesOK(cs, lg2)
  BY <1>5 DEF TablesOK
<1> QED BY <1>3, <1>6, <1>7, <1>8 DEF Later

-----------------------------------------------------------------------------
(* Steps of a cycle                                                        *)

(* One cycle moves.                                                        *)
LEMMA CycleMoved ==
  ASSUME NEW cy, NEW cs, NEW lg, CyclesFit(cy, cs, lg), NEW c \in Cycles,
         NEW to, Fits(to, cs, lg)
  PROVE  CyclesFit([cy EXCEPT ![c] = to], cs, lg)
<1>1. cy = [x \in Cycles |-> cy[x]] /\ \A x \in Cycles : Fits(cy[x], cs, lg)
  BY DEF CyclesFit
<1> DEFINE cy2 == [cy EXCEPT ![c] = to]
<1>2. /\ cy2 = [x \in Cycles |-> cy2[x]]
      /\ \A x \in Cycles : cy2[x] = IF x = c THEN to ELSE cy[x]
  BY <1>1
<1> HIDE DEF cy2
<1>3. CyclesFit(cy2, cs, lg)
  BY <1>1, <1>2 DEF CyclesFit
<1> QED BY <1>3 DEF cy2

(* A cycle whose call hangs, or answers, holds what it held.               *)
LEMMA HungFits ==
  ASSUME NEW cy, NEW cs, NEW lg, Fits(cy, cs, lg), NEW h \in BOOLEAN
  PROVE  Fits([cy EXCEPT !.hung = h], cs, lg)
<1>1. CASE cy = idle
  BY <1>1 DEF Fits, idle
<1>2. CASE cy \in Reading(cs)
  BY <1>2 DEF Fits, Reading
<1>3. CASE cy \in Taking(cs)
  BY <1>3 DEF Fits, Taking
<1>4. CASE cy \in Refusing(cs)
  BY <1>4 DEF Fits, Refusing
<1>5. CASE /\ cy \in Signing(cs)
           /\ SignedFrom(cy.report, cs[Head(cy.left)], cy.now)
           /\ cy.pc = "store" => Explained(cs, lg, Head(cy.left), cy.now)
  <2> DEFINE to == [cy EXCEPT !.hung = h]
  <2>1. /\ to \in Signing(cs) /\ to.pc = cy.pc /\ to.now = cy.now
        /\ to.left = cy.left /\ to.report = cy.report
    BY <1>5 DEF Signing
  <2> HIDE DEF to
  <2>2. Fits(to, cs, lg)
    BY <1>5, <2>1 DEF Fits
  <2> QED BY <2>2 DEF to
<1> QED BY <1>1, <1>2, <1>3, <1>4, <1>5 DEF Fits

(* A cycle at work on a candidate has one.                                 *)
LEMMA WorkingCycle ==
  ASSUME NEW cy, NEW cs, NEW lg, Fits(cy, cs, lg), cy # idle, cy.pc # "read"
  PROVE  /\ cy.now \in Nat /\ cy.breakers \in BreakerMaps
         /\ cy.left \in Seq(DOMAIN cs) /\ cy.left # <<>>
         /\ Head(cy.left) \in DOMAIN cs /\ Tail(cy.left) \in Seq(DOMAIN cs)
<1>1. /\ cy.now \in Nat /\ cy.breakers \in BreakerMaps
      /\ cy.left \in Seq(DOMAIN cs) /\ cy.left # <<>>
  BY DEF Fits, Reading, Taking, Refusing, Signing
<1>2. ASSUME NEW S, NEW s \in Seq(S), s # <<>>
      PROVE  Head(s) \in S /\ Tail(s) \in Seq(S)
  BY <1>2
<1> QED BY <1>1, <1>2

(* The cycle goes on to its next candidate, or ends.                       *)
LEMMA OnwardFits ==
  ASSUME NEW cs, NEW lg, CyclesFit(cycle, cs, lg), NEW c \in Cycles,
         cycle[c].now \in Nat, NEW left \in Seq(DOMAIN cs),
         left = <<>> \/ cycle[c].breakers \in BreakerMaps, onward(c, left)
  PROVE  CyclesFit(cycle', cs, lg)
<1>1. CASE left = <<>>
  <2>1. cycle' = [cycle EXCEPT ![c] = idle] /\ Fits(idle, cs, lg)
    BY <1>1 DEF onward, Fits
  <2> QED BY <2>1, CycleMoved
<1>2. CASE left # <<>>
  <2> DEFINE to == [pc |-> "check", hung |-> FALSE, now |-> cycle[c].now,
                    breakers |-> cycle[c].breakers, left |-> left]
  <2>1. cycle' = [cycle EXCEPT ![c] = to]
    BY <1>2 DEF onward
  <2>2. Fits(to, cs, lg)
    BY <1>2 DEF Fits, Taking
  <2> HIDE DEF to
  <2> QED BY <2>1, <2>2, CycleMoved
<1> QED BY <1>1, <1>2

LEMMA NextCandidateFits ==
  ASSUME NEW cs, NEW lg, CyclesFit(cycle, cs, lg), NEW c \in Cycles,
         cycle[c] # idle, cycle[c].pc # "read", nextCandidate(c)
  PROVE  CyclesFit(cycle', cs, lg)
<1>1. Fits(cycle[c], cs, lg)
  BY DEF CyclesFit
<1>2. cycle[c].now \in Nat /\ Tail(cycle[c].left) \in Seq(DOMAIN cs)
      /\ cycle[c].breakers \in BreakerMaps
  BY <1>1, WorkingCycle
<1> QED BY <1>2, OnwardFits DEF nextCandidate

LEMMA ProceedFits ==
  ASSUME NEW cs, NEW lg, CyclesFit(cycle, cs, lg), NEW c \in Cycles,
         NEW to, Fits(to, cs, lg), proceed(c, to)
  PROVE  CyclesFit(cycle', cs, lg)
BY CycleMoved DEF proceed

(* A step that leaves the tables alone.                                    *)
LEMMA TablesKept ==
  ASSUME IInv, UNCHANGED tables, clock' \in Nat, CyclesFit(cycle', candidates, ledger)
  PROVE  IInv'
BY DEF IInv, tables

(* The newest row of a GPU is a row.                                       *)
LEMMA LatestIsRow ==
  ASSUME Newest(candidates), NEW g
  PROVE  latestOf(g) = None \/ latestOf(g) \in DOMAIN candidates
<1> DEFINE own == {i \in DOMAIN candidates : candidates[i].gpuId = g}
<1>1. CASE own = {}
  BY <1>1 DEF latestOf
<1>2. CASE own # {}
  <2>1. \E i \in own : \A j \in own : candidates[j].computedAt <= candidates[i].computedAt
    BY <1>2 DEF Newest
  <2>2. latestOf(g) \in own
    BY <1>2, <2>1 DEF latestOf
  <2> QED BY <2>2
<1> QED BY <1>1, <1>2

-----------------------------------------------------------------------------
(* The actions                                                             *)

LEMMA InitHolds == Init => IInv
<1> SUFFICES ASSUME Init PROVE IInv
  OBVIOUS
<1>1. TablesOK(candidates, ledger)
  BY AttestorConstants DEF Init, TablesOK, Newest
<1>2. CyclesFit(cycle, candidates, ledger)
  BY DEF Init, CyclesFit, Fits
<1>3. Served(reports, candidates, ledger)
  BY DEF Init, Served
<1> QED BY <1>1, <1>2, <1>3 DEF Init, IInv

(* The process stops, starts and ticks; calls hang and answer.             *)
LEMMA ProcessSteps ==
  ASSUME IInv, boot \/ tick \/ stop \/ exit \/ crash \/ passTime
               \/ (\E o \in OnchainChoices : ownerSets(o))
               \/ (\E c \in Cycles : budget(c) \/ hang(c) \/ resume(c))
  PROVE  IInv'
<1>1. clock \in Nat /\ CyclesFit(cycle, candidates, ledger)
  BY DEF IInv
<1>2. CASE boot \/ stop \/ passTime \/ (\E o \in OnchainChoices : ownerSets(o))
           \/ (\E c \in Cycles : budget(c))
  <2>1. UNCHANGED tables /\ cycle' = cycle /\ clock' \in Nat
    BY <1>1, <1>2 DEF boot, stop, passTime, ownerSets, budget, tables
  <2> QED BY <1>1, <2>1, TablesKept
<1>3. CASE exit \/ crash
  <2>1. UNCHANGED tables /\ cycle' = [c \in Cycles |-> idle] /\ clock' = clock
    BY <1>3 DEF exit, crash, tables
  <2>2. CyclesFit(cycle', candidates, ledger)
    BY <2>1 DEF CyclesFit, Fits
  <2> QED BY <1>1, <2>1, <2>2, TablesKept
<1>4. CASE tick
  <2> DEFINE c == CHOOSE x \in Cycles : cycle[x] = idle
             to == [pc |-> "read", hung |-> FALSE, now |-> clock, asked |-> 0, left |-> <<>>]
  <2>1. c \in Cycles /\ cycle' = [cycle EXCEPT ![c] = to] /\ UNCHANGED <<tables, clock>>
    BY <1>4 DEF tick
  <2>2. Fits(to, candidates, ledger)
    BY <1>1 DEF Fits, Reading
  <2> HIDE DEF c, to
  <2>3. CyclesFit(cycle', candidates, ledger)
    BY <1>1, <2>1, <2>2, CycleMoved
  <2> QED BY <1>1, <2>1, <2>3, TablesKept
<1>5. CASE \E c \in Cycles : hang(c) \/ resume(c)
  <2>1. PICK c \in Cycles : hang(c) \/ resume(c)
    BY <1>5
  <2>2. UNCHANGED <<tables, clock>>
    BY <2>1 DEF hang, resume
  <2>3. PICK h \in BOOLEAN : cycle' = [cycle EXCEPT ![c].hung = h]
    BY <2>1 DEF hang, resume
  <2>4. Fits(cycle[c], candidates, ledger)
    BY <1>1 DEF CyclesFit
  <2>5. Fits([cycle[c] EXCEPT !.hung = h], candidates, ledger)
    BY <2>4, HungFits
  <2>6. cycle' = [cycle EXCEPT ![c] = [cycle[c] EXCEPT !.hung = h]]
    BY <2>3
  <2>7. CyclesFit(cycle', candidates, ledger)
    BY <1>1, <2>5, <2>6, CycleMoved
  <2> QED BY <1>1, <2>2, <2>7, TablesKept
<1> QED BY <1>2, <1>3, <1>4, <1>5

(* The queries for the latest candidates, and the inputs read with them.   *)
LEMMA ReadSteps ==
  ASSUME IInv, NEW c \in Cycles, latestCandidates(c) \/ readInputs(c)
  PROVE  IInv'
<1> DEFINE cy == cycle[c]
<1>1. clock \in Nat /\ CyclesFit(cycle, candidates, ledger) /\ Newest(candidates)
  BY DEF IInv, TablesOK
<1>2. UNCHANGED <<tables, clock>> /\ At(c, "read")
  BY DEF latestCandidates, readInputs
<1>3. cy \in Reading(candidates)
  BY <1>1, <1>2 DEF CyclesFit, Fits, At, idle, Taking, Refusing, Signing
<1>4. cy.now \in Nat /\ cy.asked \in Nat /\ cy.left \in Seq(DOMAIN candidates)
  BY <1>3 DEF Reading
<1>5. CASE latestCandidates(c)
  <2> DEFINE id == latestOf(Gpus[cy.asked + 1])
             left == IF id = None THEN cy.left ELSE Append(cy.left, id)
             to == [pc |-> "read", hung |-> FALSE, now |-> cy.now, asked |-> cy.asked + 1,
                    left |-> left]
  <2>1. id = None \/ id \in DOMAIN candidates
    BY <1>1, LatestIsRow
  <2>2. proceed(c, to)
    BY <1>5 DEF latestCandidates
  <2> HIDE DEF id
  <2>3. left \in Seq(DOMAIN candidates)
    <3>1. CASE id = None
      BY <1>4, <3>1
    <3>2. CASE id # None
      <4>1. Append(cy.left, id) \in Seq(DOMAIN candidates)
        BY <1>4, <2>1, <3>2, AppendProperties
      <4> QED BY <3>2, <4>1
    <3> QED BY <3>1, <3>2
  <2> HIDE DEF left
  <2>4. to \in Reading(candidates)
    BY <1>4, <2>3 DEF Reading
  <2>5. Fits(to, candidates, ledger)
    BY <2>4 DEF Fits
  <2> HIDE DEF to
  <2>6. CyclesFit(cycle', candidates, ledger)
    BY <1>1, <2>2, <2>5, ProceedFits
  <2> QED BY <1>1, <1>2, <2>6, TablesKept
<1>6. CASE readInputs(c)
  <2>1. CASE cy.left = <<>>
    <3>1. onward(c, <<>>) /\ <<>> \in Seq(DOMAIN candidates)
      BY <1>6, <2>1 DEF readInputs
    <3>2. CyclesFit(cycle', candidates, ledger)
      BY <1>1, <1>4, <3>1, OnwardFits
    <3> QED BY <1>1, <1>2, <3>2, TablesKept
  <2>2. CASE cy.left # <<>>
    <3>1. PICK open \in BreakerMaps :
            proceed(c, [pc |-> "check", hung |-> FALSE, now |-> cy.now,
                        breakers |-> open, left |-> cy.left])
      BY <1>6, <2>2 DEF readInputs
    <3> DEFINE to == [pc |-> "check", hung |-> FALSE, now |-> cy.now,
                      breakers |-> open, left |-> cy.left]
    <3>2. Fits(to, candidates, ledger)
      BY <1>4, <2>2 DEF Fits, Taking
    <3>3. proceed(c, to)
      BY <3>1
    <3> HIDE DEF to
    <3>4. CyclesFit(cycle', candidates, ledger)
      BY <1>1, <3>2, <3>3, ProceedFits
    <3> QED BY <1>1, <1>2, <3>4, TablesKept
  <2> QED BY <2>1, <2>2
<1> QED BY <1>5, <1>6

(* A call that throws.                                                     *)
LEMMA FailSteps ==
  ASSUME IInv, NEW c \in Cycles, callFails(c)
  PROVE  IInv'
<1>1. clock \in Nat /\ CyclesFit(cycle, candidates, ledger)
  BY DEF IInv
<1>2. UNCHANGED <<tables, clock>> /\ cycle[c] # idle
  BY DEF callFails
<1>3. CASE cycle[c].pc = "read"
  <2>1. cycle[c].now \in Nat
    BY <1>1, <1>2 DEF CyclesFit, Fits, Reading, Taking, Refusing, Signing
  <2>2. onward(c, <<>>) /\ <<>> \in Seq(DOMAIN candidates)
    BY <1>3 DEF callFails
  <2>3. CyclesFit(cycle', candidates, ledger)
    BY <1>1, <2>1, <2>2, OnwardFits
  <2> QED BY <1>1, <1>2, <2>3, TablesKept
<1>4. CASE cycle[c].pc # "read"
  <2>1. nextCandidate(c)
    BY <1>4 DEF callFails
  <2>2. CyclesFit(cycle', candidates, ledger)
    BY <1>1, <1>2, <1>4, <2>1, NextCandidateFits
  <2> QED BY <1>1, <1>2, <2>2, TablesKept
<1> QED BY <1>3, <1>4

(* The audit, then a refusal or a signature.                               *)
LEMMA AuditSteps ==
  ASSUME IInv, NEW c \in Cycles, auditAndSign(c)
  PROVE  IInv'
<1> DEFINE cy == cycle[c]
           cd == candidateOf(c)
           observedAt == observationSeconds(cd.computedAt, cy.now)
           codes == assessCandidate(cd, resolvePanelThresholds(Config, Panel), cy.now,
                                    previousPublishedPrice(cd.gpuId), cy.breakers)
           report == buildReport(cd.gpuId, cd.price, observedAt, cy.now)
<1>1. clock \in Nat /\ CyclesFit(cycle, candidates, ledger) /\ candidates \in Seq(Rows)
  BY DEF IInv, TablesOK
<1>2. UNCHANGED <<tables, clock>> /\ cy.pc = "check"
  BY DEF auditAndSign, At
<1>3. Fits(cy, candidates, ledger) /\ cy # idle /\ cy.pc # "read"
  BY <1>1, <1>2 DEF CyclesFit, idle
<1>4. /\ cy.now \in Nat /\ cy.breakers \in BreakerMaps
      /\ cy.left \in Seq(DOMAIN candidates) \ {<<>>}
      /\ Head(cy.left) \in DOMAIN candidates
  BY <1>3, WorkingCycle
<1>5. cd = candidates[Head(cy.left)] /\ cd \in Rows
  BY <1>1, <1>4 DEF candidateOf
<1>6. codes \in SUBSET Codes /\ codes \cup {"floor"} \in SUBSET Codes
  BY CodesAreCodes
<1>7. \/ nextCandidate(c)
      \/ proceed(c, refusal(cy, codes))
      \/ proceed(c, refusal(cy, codes \cup {"floor"}))
      \/ /\ ~(cy.now - observedAt > MaxObservationAge)
         /\ buildable(cd.price, observedAt, cy.now)
         /\ proceed(c, flagFirst(cy, codes, report))
  BY DEF auditAndSign
<1>8. Plain(cd, cy.now) \subseteq codes
  BY <1>5, RowColumns, PlainIsFound
<1> HIDE DEF codes, cd, observedAt, report
<1>9. CASE nextCandidate(c)
  <2>1. CyclesFit(cycle', candidates, ledger)
    BY <1>1, <1>3, <1>9, NextCandidateFits
  <2> QED BY <1>1, <1>2, <2>1, TablesKept
<1>10. ASSUME NEW v \in SUBSET Codes, proceed(c, refusal(cy, v))
       PROVE  IInv'
  <2>1. Fits(refusal(cy, v), candidates, ledger)
    BY <1>4, <1>10 DEF Fits, Refusing, refusal
  <2>2. CyclesFit(cycle', candidates, ledger)
    BY <1>1, <1>10, <2>1, ProceedFits
  <2> QED BY <1>1, <1>2, <2>2, TablesKept
<1>11. CASE /\ buildable(cd.price, observedAt, cy.now)
            /\ proceed(c, flagFirst(cy, codes, report))
  <2> DEFINE to == flagFirst(cy, codes, report)
  <2>1. scales(cd.price) /\ cy.now - observedAt <= MaxObservationAge
    BY <1>11 DEF buildable
  <2>2. report \in Signed /\ SignedFrom(report, cd, cy.now)
    BY <1>4, <1>5, <2>1, BuiltReport DEF report, observedAt
  <2>3. /\ to \in Signing(candidates) /\ to.left = cy.left /\ to.now = cy.now
        /\ to.report = report /\ (to.pc = "store" => codes = {})
    BY <1>4, <1>6, <2>2 DEF flagFirst, Signing
  <2>4. to.pc = "store" => Explained(candidates, ledger, Head(to.left), to.now)
    BY <1>5, <1>8, <2>3 DEF Explained
  <2> HIDE DEF to
  <2>5. Fits(to, candidates, ledger)
    BY <1>5, <2>2, <2>3, <2>4 DEF Fits
  <2>6. CyclesFit(cycle', candidates, ledger)
    BY <1>1, <1>11, <2>5, ProceedFits DEF to
  <2> QED BY <1>1, <1>2, <2>6, TablesKept
<1> QED BY <1>6, <1>7, <1>9, <1>10, <1>11

(* The ledger's row, then the next candidate or the report.                *)
LEMMA LedgerSteps ==
  ASSUME IInv, NEW c \in Cycles, refuse(c) \/ flag(c)
  PROVE  IInv'
<1> DEFINE cy == cycle[c]
           id == Head(cy.left)
<1>1. clock \in Nat /\ TablesOK(candidates, ledger) /\ CyclesFit(cycle, candidates, ledger)
      /\ Served(reports, candidates, ledger)
  BY DEF IInv
<1>2. /\ UNCHANGED <<clock, candidates, reports>> /\ recordViolations(id, cy.codes)
      /\ cy.pc \in {"refuse", "flag"}
  BY DEF refuse, flag, At
<1>3. Fits(cy, candidates, ledger) /\ cy # idle /\ cy.pc # "read"
  BY <1>1, <1>2 DEF CyclesFit, idle
<1>4. id \in DOMAIN candidates
  BY <1>3, WorkingCycle
<1>5. cy.codes \in SUBSET Codes
  BY <1>2, <1>3 DEF Fits, idle, Reading, Taking, Refusing, Signing
<1>6. ledger' = IF ledger[id] = None THEN [ledger EXCEPT ![id] = cy.codes] ELSE ledger
  BY <1>2 DEF recordViolations
<1> HIDE DEF id
<1>7. /\ TablesOK(candidates, ledger') /\ Later(candidates, ledger, candidates, ledger')
      /\ ledger'[id] # None
  BY <1>1, <1>4, <1>5, <1>6, LedgerWritten
<1>8. CyclesFit(cycle, candidates, ledger')
  BY <1>1, <1>7, FitsLater DEF CyclesFit
<1>9. Served(reports, candidates, ledger')
  BY <1>1, <1>7, ServedLater
<1>10. CyclesFit(cycle', candidates, ledger')
  <2>1. CASE refuse(c)
    BY <1>3, <1>8, <2>1, NextCandidateFits DEF refuse
  <2>2. CASE flag(c)
    <3> DEFINE to == [cy EXCEPT !.pc = "store"]
    <3>1. proceed(c, to) /\ cy.pc = "flag"
      BY <2>2 DEF flag, At
    <3>2. cy \in Signing(candidates) /\ SignedFrom(cy.report, candidates[id], cy.now)
      BY <1>3, <3>1 DEF Fits, Reading, Taking, Refusing, id
    <3>3. to \in Signing(candidates) /\ to.left = cy.left /\ to.now = cy.now
          /\ to.report = cy.report
      BY <3>2 DEF Signing
    <3> HIDE DEF to
    <3>4. Fits(to, candidates, ledger')
      BY <1>7, <3>2, <3>3 DEF Fits, Explained, id
    <3> QED BY <1>8, <3>1, <3>4, ProceedFits
  <2> QED BY <2>1, <2>2
<1> QED BY <1>1, <1>2, <1>7, <1>9, <1>10 DEF IInv

(* The insertion of a report.                                              *)
LEMMA StoreSteps ==
  ASSUME IInv, NEW c \in Cycles, storeReport(c)
  PROVE  IInv'
<1> DEFINE cy == cycle[c]
           r == cy.report
           id == Head(cy.left)
           row == [price |-> r.price, observedAt |-> r.observedAt, epoch |-> r.epoch,
                   validFrom |-> r.validFrom, validUntil |-> r.validUntil,
                   candidateId |-> id, attestedAt |-> cy.now]
<1>1. clock \in Nat /\ TablesOK(candidates, ledger) /\ CyclesFit(cycle, candidates, ledger)
      /\ Served(reports, candidates, ledger)
  BY DEF IInv
<1>2. /\ UNCHANGED <<clock, candidates, ledger>> /\ cy.pc = "store" /\ nextCandidate(c)
      /\ reports' = insertOracleReport(r.gpuId, row)
  BY DEF storeReport, At
<1>3. Fits(cy, candidates, ledger) /\ cy # idle /\ cy.pc # "read"
  BY <1>1, <1>2 DEF CyclesFit, idle
<1>4. id \in DOMAIN candidates /\ cy.now \in Nat
  BY <1>3, WorkingCycle
<1>5. SignedFrom(r, candidates[id], cy.now) /\ Explained(candidates, ledger, id, cy.now)
  BY <1>2, <1>3 DEF Fits, idle, Reading, Taking, Refusing, Signing
<1> HIDE DEF id, cy, r
<1>6. RowSound(row, row.epoch, candidates, ledger)
  BY <1>4, <1>5 DEF RowSound, SignedFrom
<1> HIDE DEF row
<1>7. reports = [k \in GpuSet \X Epochs |-> reports[k]]
      /\ \A k \in GpuSet \X Epochs : reports[k] # None
            => RowSound(reports[k], k[2], candidates, ledger)
  BY <1>1 DEF Served
<1>8. \/ reports' = reports
      \/ reports' = [reports EXCEPT ![<<r.gpuId, row.epoch>>] = row]
  BY <1>2 DEF insertOracleReport
<1>9. reports' = [k \in GpuSet \X Epochs |-> reports'[k]]
  BY <1>7, <1>8
<1>10. ASSUME NEW k \in GpuSet \X Epochs, reports'[k] # None
       PROVE  RowSound(reports'[k], k[2], candidates, ledger)
  <2>1. CASE reports'[k] = reports[k]
    BY <1>7, <1>10, <2>1
  <2>2. CASE reports'[k] # reports[k]
    <3>1. k = <<r.gpuId, row.epoch>> /\ reports'[k] = row
      BY <1>7, <1>8, <2>2
    <3> QED BY <1>6, <3>1
  <2> QED BY <2>1, <2>2
<1>11. Served(reports', candidates, ledger)
  BY <1>9, <1>10 DEF Served
<1>12. CyclesFit(cycle', candidates, ledger)
  BY <1>1, <1>2, <1>3, NextCandidateFits DEF cy
<1> QED BY <1>1, <1>2, <1>11, <1>12 DEF IInv

(* The pricing engine's next candidate.                                    *)
LEMMA ComputeSteps ==
  ASSUME IInv, NEW t \in Templates, compute(t)
  PROVE  IInv'
<1> DEFINE r == rowOf(t, clock)
<1>1. clock \in Nat /\ TablesOK(candidates, ledger) /\ CyclesFit(cycle, candidates, ledger)
      /\ Served(reports, candidates, ledger)
  BY DEF IInv
<1>2. r \in Rows
  BY <1>1 DEF Rows
<1>3. r.gpuId = t.gpuId /\ r.computedAt = clock
  BY TemplateColumns DEF rowOf
<1>4. /\ Len(candidates) < MaxCandidates /\ candidates' = Append(candidates, r)
      /\ \A i \in DOMAIN candidates :
           candidates[i].gpuId = t.gpuId => candidates[i].computedAt < clock
      /\ UNCHANGED <<clock, reports, ledger, cycle>>
  BY DEF compute
<1> HIDE DEF r
<1>5. TablesOK(candidates', ledger) /\ Later(candidates, ledger, candidates', ledger)
  BY <1>1, <1>2, <1>3, <1>4, CandidateAdded
<1>6. CyclesFit(cycle, candidates', ledger)
  BY <1>1, <1>5, FitsLater DEF CyclesFit
<1>7. Served(reports, candidates', ledger)
  BY <1>1, <1>5, ServedLater
<1> QED BY <1>1, <1>4, <1>5, <1>6, <1>7 DEF IInv

-----------------------------------------------------------------------------
(* Theorems                                                                *)

LEMMA StepHolds == IInv /\ [Next]_vars => IInv'
<1> SUFFICES ASSUME IInv, [Next]_vars PROVE IInv'
  OBVIOUS
<1>1. CASE UNCHANGED vars
  <2>1. UNCHANGED <<clock, tables, cycle>>
    BY <1>1 DEF vars, tables
  <2> QED BY <2>1, TablesKept DEF IInv
<1>2. CASE boot \/ tick \/ stop \/ exit \/ crash \/ passTime
           \/ (\E o \in OnchainChoices : ownerSets(o))
           \/ (\E c \in Cycles : budget(c) \/ hang(c) \/ resume(c))
  BY <1>2, ProcessSteps
<1>3. ASSUME NEW c \in Cycles, callFails(c) \/ Work(c)  PROVE IInv'
  BY <1>3, FailSteps, ReadSteps, AuditSteps, LedgerSteps, StoreSteps DEF Work
<1>4. ASSUME NEW t \in Templates, compute(t)  PROVE IInv'
  BY <1>4, ComputeSteps
<1> QED BY <1>1, <1>2, <1>3, <1>4 DEF Next

(* Whatever cycle was abandoned, resumed late, failed or cut short by a    *)
(* stop or a crash (AttestorPoller.tickInner), every report the database   *)
(* holds is one GpuOracle accepted when it was attested, and a flagged one *)
(* has its row in the audit ledger.                                        *)
THEOREM StoredReportsAreSound == Spec => []StoredReportsSound
<1>1. IInv => StoredReportsSound
  <2> SUFFICES ASSUME IInv PROVE StoredReportsSound
    OBVIOUS
  <2>1. ASSUME NEW k \in GpuSet \X Epochs, reports[k] # None
        PROVE  RowSound(reports[k], k[2], candidates, ledger)
    BY <2>1 DEF IInv, Served
  <2>2. StoredReportsConsumable
    BY <2>1 DEF StoredReportsConsumable, RowSound, SignedFrom
  <2>3. FlaggedReportsExplained
    BY <2>1 DEF FlaggedReportsExplained, RowSound, Explained, Plain
  <2> QED BY <2>2, <2>3 DEF StoredReportsSound
<1> QED BY <1>1, InitHolds, StepHolds, PTL DEF Spec

(* insertOracleReport's conflict rule is enough: no step of any cycle      *)
(* changes the report a GPU and epoch already have.                        *)
THEOREM ServedReportsStay == Spec => ServedReportNeverChanges
<1> DEFINE Stays == \A k \in GpuSet \X Epochs : reports[k] # None => reports'[k] = reports[k]
<1>1. IInv /\ [Next]_vars => [Stays]_vars
  <2> SUFFICES ASSUME IInv, Next PROVE Stays
    OBVIOUS
  <2>1. CASE UNCHANGED reports
    BY <2>1
  <2>2. ASSUME NEW c \in Cycles, storeReport(c) PROVE Stays
    <3> DEFINE r == cycle[c].report
               row == [price |-> r.price, observedAt |-> r.observedAt, epoch |-> r.epoch,
                       validFrom |-> r.validFrom, validUntil |-> r.validUntil,
                       candidateId |-> Head(cycle[c].left), attestedAt |-> cycle[c].now]
    <3>1. reports' = insertOracleReport(r.gpuId, row)
      BY <2>2 DEF storeReport
    <3> HIDE DEF r, row
    <3>2. reports = [k \in GpuSet \X Epochs |-> reports[k]]
      BY DEF IInv, Served
    <3>3. SUFFICES ASSUME NEW k \in GpuSet \X Epochs, reports[k] # None
                   PROVE  reports'[k] = reports[k]
      OBVIOUS
    <3>4. CASE reports' = reports
      BY <3>4
    <3>5. CASE /\ reports[<<r.gpuId, row.epoch>>] = None
               /\ reports' = [reports EXCEPT ![<<r.gpuId, row.epoch>>] = row]
      <4>1. k # <<r.gpuId, row.epoch>>
        BY <3>3, <3>5
      <4> QED BY <3>2, <3>5, <4>1
    <3> QED BY <3>1, <3>4, <3>5 DEF insertOracleReport
  <2>3. (\E c \in Cycles : storeReport(c)) \/ UNCHANGED reports
    BY DEF Next, Work, boot, tick, stop, exit, crash, passTime, ownerSets, budget, hang, resume,
           callFails, latestCandidates, readInputs, auditAndSign, refuse, flag, compute, tables
  <2> QED BY <2>1, <2>2, <2>3
<1> QED BY <1>1, InitHolds, StepHolds, PTL DEF Spec, ServedReportNeverChanges
==============================================================================
