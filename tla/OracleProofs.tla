---------------------------- MODULE OracleProofs ----------------------------
(* GpuOracle implements EpochPrice while the epoch length is not changed,   *)
(* and a report observed in the current epoch stays acceptable, always.     *)
EXTENDS GpuOracle, TLAPS

(* An epoch contains its own times.                                        *)
LEMMA EpochContains ==
  ASSUME NEW t \in Nat, NEW l \in Nat \ {0}
  PROVE  /\ t \div l \in Nat
         /\ (t \div l) * l <= t
         /\ t < (t \div l) * l + l
OBVIOUS

(* Later times are in the same or a later epoch.                           *)
LEMMA EpochMonotone ==
  ASSUME NEW t \in Nat, NEW u \in Nat, t <= u, NEW l \in Nat \ {0}
  PROVE  t \div l <= u \div l
OBVIOUS

(* What an attestor signs is a report.                                     *)
LEMMA ReportForTyped ==
  ASSUME NEW g \in GpuIds, NEW p \in Prices, NEW o \in Nat, NEW e \in Nat,
         NEW l \in EpochLengths, NEW s \in Signers
  PROVE  ReportFor(g, p, o, e, l, s) \in Report
<1>1. e * l \in Nat /\ e * l + l \in Nat /\ p \in Nat
  BY OracleConstants
<1> QED BY <1>1 DEF ReportFor, Report

-----------------------------------------------------------------------------
(* A consumption keeps the shapes.                                         *)
LEMMA ConsumeTyped ==
  ASSUME TypeOK, NEW r \in Report, consume(r)
  PROVE  TypeOK'
<1>1. r.gpuId \in GpuIds /\ r.price \in Nat
  BY DEF Report
<1>2. consumed' \in [GpuIds -> Report \cup {NoReport}]
  BY <1>1 DEF consume, TypeOK
<1>3. returned' \in (GpuIds \X Nat) \cup {<<>>}
  BY <1>1 DEF consume
<1> QED BY <1>2, <1>3 DEF consume, TypeOK

(* Every step keeps the shapes and maxObservationAge >= epochLength.       *)
LEMMA StepTyped ==
  ASSUME TypeOK, [Next]_vars
  PROVE  TypeOK'
<1>1. ASSUME NEW g \in GpuIds, NEW p \in Prices, NEW o \in 0..MaxTime, NEW e \in 0..MaxTime,
             NEW l \in EpochLengths, NEW s \in Signers, consume(ReportFor(g, p, o, e, l, s))
      PROVE  TypeOK'
  <2>1. ReportFor(g, p, o, e, l, s) \in Report
    BY ReportForTyped, OracleConstants
  <2> QED BY <2>1, <1>1, ConsumeTyped
<1>2. ASSUME NEW s \in Signers, transferSigner(s) PROVE TypeOK'
  BY <1>2 DEF transferSigner, TypeOK
<1>3. ASSUME acceptSigner PROVE TypeOK'
  BY <1>3 DEF acceptSigner, TypeOK
<1>4. ASSUME NEW a \in ObservationAges, setMaxObservationAge(a) PROVE TypeOK'
  BY <1>4, OracleConstants DEF setMaxObservationAge, TypeOK
<1>5. ASSUME NEW dt \in 0..1, EndTransaction(dt) PROVE TypeOK'
  BY <1>5, OracleConstants DEF EndTransaction, ClearTransient, TypeOK
<1>6. ASSUME NEW l \in EpochLengths, setEpochLength(l) PROVE TypeOK'
  BY <1>6, OracleConstants DEF setEpochLength, EpochLengthOk, TypeOK
<1>7. CASE UNCHANGED vars
  BY <1>7 DEF vars, TypeOK
<1> QED BY <1>1, <1>2, <1>3, <1>4, <1>5, <1>6, <1>7 DEF Next, FixedGridNext

(* The initial storage has its shape.                                      *)
LEMMA InitTyped == Init => TypeOK
<1> SUFFICES ASSUME Init PROVE TypeOK
  OBVIOUS
<1>1. consumed \in [GpuIds -> Report \cup {NoReport}]
  BY DEF Init
<1> QED BY <1>1, OracleConstants DEF Init, TypeOK

(* In a well-typed state a report of the current epoch is acceptable: it   *)
(* is younger than the epoch, and the epoch is no longer than the age.     *)
LEMMA TypedAccepts == TypeOK => FreshReportAcceptable
<1> SUFFICES ASSUME TypeOK, NEW g \in GpuIds, NEW p \in Prices \ {0}, NEW o \in 0..now,
                    o >= currentEpoch * epochLength
             PROVE  Acceptable(ReportFor(g, p, o, currentEpoch, epochLength, signer))
  BY DEF FreshReportAcceptable
<1>1. now \in Nat /\ epochLength \in Nat \ {0} /\ maxObservationAge \in Nat
      /\ maxObservationAge >= epochLength
  BY OracleConstants DEF TypeOK
<1> DEFINE e == currentEpoch
           from == e * epochLength
           r == ReportFor(g, p, o, e, epochLength, signer)
<1>2. e \in Nat /\ from <= now /\ now < from + epochLength
  BY <1>1, EpochContains DEF currentEpoch
<1>3. from \in Nat
  BY <1>1, <1>2
<1>4. r.price = p /\ r.epoch = e /\ r.validFrom = from /\ r.validUntil = from + epochLength
      /\ r.observedAt = o /\ r.signedBy = signer
  BY DEF ReportFor
<1> HIDE DEF r, e, from
<1>5. o \in Nat /\ o <= now /\ o + maxObservationAge >= now
  <2>1. o >= from /\ o \in Nat /\ o <= now
    BY <1>1 DEF from, e
  <2> QED BY <1>1, <1>2, <1>3, <2>1
<1>6. r.price # 0 /\ r.observedAt <= now /\ r.observedAt + maxObservationAge >= now
  BY <1>4, <1>5
<1>7. r.epoch = currentEpoch /\ r.validFrom = r.epoch * epochLength
      /\ r.validUntil = r.validFrom + epochLength
  BY <1>4 DEF e, from
<1>8. Acceptable(r)
  BY <1>4, <1>6, <1>7 DEF Acceptable, Structural
<1> QED BY <1>8 DEF r, e

(* A report attested at any point of an epoch stays acceptable until the   *)
(* epoch ends, whatever the owner and the signers do.                      *)
THEOREM FreshReportsAccepted == Spec => []FreshReportAcceptable
<1>1. Init => TypeOK
  BY InitTyped
<1>2. TypeOK /\ [Next]_vars => TypeOK'
  BY StepTyped
<1>3. TypeOK => FreshReportAcceptable
  BY TypedAccepts
<1> QED BY <1>1, <1>2, <1>3, PTL DEF Spec

-----------------------------------------------------------------------------
(* No record is ahead of the clock's epoch: with it an epoch number that   *)
(* has passed never meets its old binding again.                           *)
BoundInPast == \A g \in GpuIds : consumed[g].epoch <= currentEpoch

RefinementInv == TypeOK /\ BoundInPast

(* The epoch of any record is a number.                                    *)
LEMMA RecordEpoch ==
  ASSUME TypeOK, NEW g \in GpuIds
  PROVE  consumed[g].epoch \in Nat
<1>1. consumed[g] \in Report \cup {NoReport}
  BY DEF TypeOK
<1> QED BY <1>1 DEF Report, NoReport

(* The fixed-grid steps keep the inductive invariant.                      *)
LEMMA FixedGridKeeps ==
  ASSUME RefinementInv, [FixedGridNext]_vars
  PROVE  RefinementInv'
<1>1. TypeOK'
  <2>1. [Next]_vars
    BY DEF Next
  <2> QED BY <2>1, StepTyped DEF RefinementInv
<1>2. now \in Nat /\ epochLength \in Nat \ {0} /\ now' \in Nat
  BY <1>1, OracleConstants DEF RefinementInv, TypeOK
<1>3. currentEpoch \in Nat
  BY <1>2, EpochContains DEF currentEpoch
<1>4. ASSUME NEW g \in GpuIds, NEW p \in Prices, NEW o \in 0..MaxTime, NEW e \in 0..MaxTime,
             NEW l \in EpochLengths, NEW s \in Signers, consume(ReportFor(g, p, o, e, l, s))
      PROVE  BoundInPast'
  <2> DEFINE r == ReportFor(g, p, o, e, l, s)
  <2>1. r.gpuId = g /\ r.epoch = currentEpoch
    BY <1>4 DEF consume, Acceptable, Structural, ReportFor
  <2> HIDE DEF r
  <2>2. consumed' = [consumed EXCEPT ![g] = IF @.epoch = r.epoch THEN @ ELSE r]
        /\ UNCHANGED <<now, epochLength>>
    BY <1>4, <2>1 DEF consume, r
  <2>3. currentEpoch' = currentEpoch
    BY <2>2 DEF currentEpoch
  <2> SUFFICES ASSUME NEW h \in GpuIds PROVE consumed'[h].epoch <= currentEpoch
    BY <2>3 DEF BoundInPast
  <2>4. consumed[h].epoch <= currentEpoch
    BY DEF RefinementInv, BoundInPast
  <2>5. consumed'[h] = consumed[h] \/ consumed'[h] = r
    BY <2>2 DEF RefinementInv, TypeOK
  <2> QED BY <2>1, <2>4, <2>5, <1>3
<1>5. ASSUME UNCHANGED <<now, epochLength, consumed>> PROVE BoundInPast'
  BY <1>5 DEF RefinementInv, BoundInPast, currentEpoch
<1>6. ASSUME NEW dt \in 0..1, EndTransaction(dt) PROVE BoundInPast'
  <2>1. now <= now' /\ UNCHANGED <<epochLength, consumed>>
    BY <1>2, <1>6 DEF EndTransaction
  <2>2. currentEpoch <= currentEpoch' /\ currentEpoch' \in Nat
    BY <2>1, <1>2, EpochMonotone, EpochContains DEF currentEpoch
  <2> SUFFICES ASSUME NEW h \in GpuIds PROVE consumed'[h].epoch <= currentEpoch'
    BY DEF BoundInPast
  <2>3. consumed[h].epoch <= currentEpoch /\ consumed[h].epoch \in Nat
    BY RecordEpoch DEF RefinementInv, BoundInPast
  <2> QED BY <1>3, <2>1, <2>2, <2>3
<1>7. BoundInPast'
  BY <1>4, <1>5, <1>6
     DEF FixedGridNext, transferSigner, acceptSigner, setMaxObservationAge, vars
<1> QED BY <1>1, <1>7 DEF RefinementInv

(* The initial storage maps to no binding.                                 *)
LEMMA InitMaps == Init => RefinementInv /\ Promise!Init
<1> SUFFICES ASSUME Init PROVE RefinementInv /\ Promise!Init
  OBVIOUS
<1>1. TypeOK
  BY InitTyped
<1>2. currentEpoch \in Nat
  BY <1>1, EpochContains, OracleConstants DEF currentEpoch, TypeOK
<1>3. \A g \in GpuIds : consumed[g].epoch = 0 /\ consumed[g].price = 0
  BY DEF Init, NoReport
<1>4. BoundInPast
  <2> SUFFICES ASSUME NEW g \in GpuIds PROVE consumed[g].epoch <= currentEpoch
    BY DEF BoundInPast
  <2>1. consumed[g].epoch = 0
    BY <1>3
  <2>2. 0 <= currentEpoch
    BY <1>2
  <2> QED BY <2>1, <2>2
<1>5. Promise!Init
  <2>1. [g \in GpuIds |-> IF consumed[g].epoch = currentEpoch THEN consumed[g].price ELSE 0]
          = [g \in GpuIds |-> 0]
    BY <1>3
  <2>2. returned = <<>>
    BY DEF Init
  <2> QED BY <1>2, <2>1, <2>2 DEF Promise!Init
<1> QED BY <1>1, <1>4, <1>5 DEF RefinementInv

(* Every fixed-grid step is a step of EpochPrice or leaves its state alone.*)
LEMMA StepMaps ==
  ASSUME RefinementInv, RefinementInv', [FixedGridNext]_vars
  PROVE  [Promise!Next]_<<currentEpoch,
                          [g \in GpuIds |-> IF consumed[g].epoch = currentEpoch
                                            THEN consumed[g].price ELSE 0],
                          returned>>
<1> DEFINE bound == [g \in GpuIds |-> IF consumed[g].epoch = currentEpoch
                                      THEN consumed[g].price ELSE 0]
           Goal == [Promise!Next]_<<currentEpoch, bound, returned>>
<1>1. now \in Nat /\ epochLength \in Nat \ {0} /\ now' \in Nat
  BY OracleConstants DEF RefinementInv, TypeOK
<1>2. currentEpoch \in Nat
  BY <1>1, EpochContains DEF currentEpoch
<1>3. ASSUME NEW g \in GpuIds, NEW p \in Prices, NEW o \in 0..MaxTime, NEW e \in 0..MaxTime,
             NEW l \in EpochLengths, NEW s \in Signers, consume(ReportFor(g, p, o, e, l, s))
      PROVE  Goal
  <2> DEFINE r == ReportFor(g, p, o, e, l, s)
  <2>1. r.gpuId = g /\ r.price = p /\ p # 0 /\ r.epoch = currentEpoch
    BY <1>3 DEF consume, Acceptable, Structural, ReportFor
  <2> HIDE DEF r
  <2>2. /\ consumed' = [consumed EXCEPT ![g] = IF @.epoch = r.epoch THEN @ ELSE r]
        /\ consumed[g].epoch = r.epoch => consumed[g] = r
        /\ returned' = <<g, p>>
        /\ UNCHANGED <<now, epochLength>>
    BY <1>3, <2>1 DEF consume, NotEquivocating, r
  <2>3. currentEpoch' = currentEpoch
    BY <2>2 DEF currentEpoch
  <2>4. consumed' = [consumed EXCEPT ![g] = r]
    BY <2>2 DEF RefinementInv, TypeOK
  <2>5. bound[g] \in {0, p}
    BY <2>1, <2>2
  <2>6. \A h \in GpuIds : bound'[h] = IF h = g THEN p ELSE bound[h]
    BY <2>1, <2>3, <2>4 DEF RefinementInv, TypeOK
  <2>7. bound' = [bound EXCEPT ![g] = p]
    BY <2>6
  <2>8. Promise!Use(g, p)
    BY <2>2, <2>3, <2>5, <2>7 DEF Promise!Use
  <2>9. Promise!Next
    BY <2>1, <2>8 DEF Promise!Next
  <2> QED BY <2>9
<1>4. ASSUME UNCHANGED <<now, epochLength, consumed, returned>> PROVE Goal
  BY <1>4 DEF currentEpoch
<1>5. ASSUME NEW dt \in 0..1, EndTransaction(dt) PROVE Goal
  <2>1. now <= now' /\ UNCHANGED <<epochLength, consumed, returned>>
    BY <1>1, <1>5 DEF EndTransaction
  <2>2. currentEpoch <= currentEpoch' /\ currentEpoch' \in Nat
    BY <2>1, <1>1, EpochMonotone, EpochContains DEF currentEpoch
  <2>3. CASE currentEpoch' = currentEpoch
    BY <2>1, <2>3
  <2>4. CASE currentEpoch' > currentEpoch
    <3>1. \A g \in GpuIds : consumed'[g].epoch # currentEpoch'
      <4> SUFFICES ASSUME NEW g \in GpuIds PROVE consumed[g].epoch # currentEpoch'
        BY <2>1
      <4>1. consumed[g].epoch <= currentEpoch /\ consumed[g].epoch \in Nat
        BY RecordEpoch DEF RefinementInv, BoundInPast
      <4> QED BY <1>2, <2>2, <2>4, <4>1
    <3>2. bound' = [g \in GpuIds |-> 0]
      BY <3>1
    <3>3. Promise!Advance
      BY <2>1, <2>2, <2>4, <3>2 DEF Promise!Advance
    <3> QED BY <3>3 DEF Promise!Next
  <2> QED BY <1>2, <2>2, <2>3, <2>4
<1> QED
  BY <1>3, <1>4, <1>5
     DEF FixedGridNext, transferSigner, acceptSigner, setMaxObservationAge, vars

(* One price per GPU and epoch: while the owner leaves the epoch length    *)
(* alone, consume implements EpochPrice.                                   *)
THEOREM OnePricePerEpoch == FixedGridSpec => ImplementsEpochPrice
<1>1. Init => RefinementInv /\ Promise!Init
  BY InitMaps
<1>2. RefinementInv /\ [FixedGridNext]_vars => RefinementInv'
  BY FixedGridKeeps
<1>3. RefinementInv /\ RefinementInv' /\ [FixedGridNext]_vars
        => [Promise!Next]_<<currentEpoch,
                            [g \in GpuIds |-> IF consumed[g].epoch = currentEpoch
                                              THEN consumed[g].price ELSE 0],
                            returned>>
  BY StepMaps
<1> QED BY <1>1, <1>2, <1>3, PTL DEF FixedGridSpec, ImplementsEpochPrice, Promise!Spec

-----------------------------------------------------------------------------
(* What the transient registry holds is of the transaction's own epoch:    *)
(* without it a report of an older epoch could lose its binding while it   *)
(* is still registered.                                                    *)
RegistryInv ==
  /\ RefinementInv
  /\ DedupeIsBound
  /\ \A v \in verified : v.epoch = currentEpoch

(* A consumption registers the report it binds.                            *)
LEMMA ConsumeRegisters ==
  ASSUME RegistryInv, NEW r \in Report, consume(r)
  PROVE  /\ \A v \in verified' : consumed'[v.gpuId] = v
         /\ \A v \in verified' : v.epoch = currentEpoch'
<1>1. r.gpuId \in GpuIds /\ r.epoch = currentEpoch /\ currentEpoch' = currentEpoch
  BY DEF consume, Acceptable, Structural, Report, currentEpoch
<1>2. /\ consumed[r.gpuId].epoch = r.epoch => consumed[r.gpuId] = r
      /\ consumed' = [consumed EXCEPT ![r.gpuId] =
                         IF consumed[r.gpuId].epoch = r.epoch THEN consumed[r.gpuId] ELSE r]
      /\ verified' = verified \cup {r}
  BY DEF consume, NotEquivocating
<1>3. consumed' = [consumed EXCEPT ![r.gpuId] = r] /\ consumed \in [GpuIds -> Report \cup {NoReport}]
  BY <1>1, <1>2 DEF RegistryInv, RefinementInv, TypeOK
<1>4. ASSUME NEW v \in verified' PROVE consumed'[v.gpuId] = v /\ v.epoch = currentEpoch'
  <2>1. CASE v = r
    BY <1>1, <1>3, <2>1
  <2>2. CASE v \in verified
    <3>1. consumed[v.gpuId] = v /\ v.epoch = currentEpoch
      BY <2>2 DEF RegistryInv, DedupeIsBound
    <3>2. CASE v.gpuId = r.gpuId
      <4>1. v = r
        BY <1>1, <1>2, <3>1, <3>2
      <4> QED BY <2>1, <4>1
    <3>3. CASE v.gpuId # r.gpuId
      <4>1. v.gpuId \in GpuIds
        BY <2>2 DEF RegistryInv, RefinementInv, TypeOK, Report
      <4> QED BY <1>1, <1>3, <3>1, <3>3, <4>1
    <3> QED BY <3>2, <3>3
  <2> QED BY <1>2, <1>4, <2>1, <2>2
<1> QED BY <1>4

(* Every fixed-grid step keeps the registry inside the bindings.           *)
LEMMA RegistryKept ==
  ASSUME RegistryInv, [FixedGridNext]_vars
  PROVE  RegistryInv'
<1>1. RefinementInv'
  BY FixedGridKeeps DEF RegistryInv
<1>2. ASSUME NEW g \in GpuIds, NEW p \in Prices, NEW o \in 0..MaxTime, NEW e \in 0..MaxTime,
             NEW l \in EpochLengths, NEW s \in Signers, consume(ReportFor(g, p, o, e, l, s))
      PROVE  RegistryInv'
  <2>1. ReportFor(g, p, o, e, l, s) \in Report
    BY ReportForTyped, OracleConstants
  <2> QED BY <1>1, <1>2, <2>1, ConsumeRegisters DEF RegistryInv, DedupeIsBound
<1>3. ASSUME UNCHANGED <<now, epochLength, consumed, verified>> PROVE RegistryInv'
  BY <1>1, <1>3 DEF RegistryInv, DedupeIsBound, currentEpoch
<1>4. ASSUME NEW dt \in 0..1, EndTransaction(dt) PROVE RegistryInv'
  BY <1>1, <1>4 DEF EndTransaction, ClearTransient, RegistryInv, DedupeIsBound
<1> QED
  BY <1>2, <1>3, <1>4
     DEF FixedGridNext, transferSigner, acceptSigner, setMaxObservationAge, vars

(* While the owner leaves the epoch length alone, the registry that lets a *)
(* report skip the signature check holds bound reports only.               *)
THEOREM RegistryIsBound == FixedGridSpec => []DedupeIsBound
<1>1. Init => RegistryInv
  BY InitMaps DEF Init, RegistryInv, DedupeIsBound
<1>2. RegistryInv /\ [FixedGridNext]_vars => RegistryInv'
  BY RegistryKept
<1>3. RegistryInv => DedupeIsBound
  BY DEF RegistryInv
<1> QED BY <1>1, <1>2, <1>3, PTL DEF FixedGridSpec
=============================================================================
