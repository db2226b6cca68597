----------------------------- MODULE GpuOracle ------------------------------
(***************************************************************************)
(* GpuOracle.sol: signed reports, bound to the first one consumed per GPU   *)
(* and epoch.  A transaction is a run of calls that ends with               *)
(* EndTransaction, because the contract keeps a transient registry of the   *)
(* reports verified in it (hook, then issuance).  The reportHash of a report*)
(* and its signature is the report record itself, with the signer the       *)
(* signature recovers to.  The schema version, and the calcHash no rule     *)
(* reads, are left out; view functions change nothing.                      *)
(***************************************************************************)
EXTENDS Naturals

CONSTANTS
  GpuIds, Signers,
  Prices,             \* prices a report can carry, 0 ("unknown") among them
  EpochLengths,       \* lengths the owner may set, and attestors may assume
  ObservationAges,    \* ages the owner may set
  StartTime,          \* timestamp at deployment: past the first epoch
  MaxTime             \* bound: last block timestamp

ASSUME OracleConstants ==
  /\ Prices \subseteq Nat
  /\ EpochLengths \subseteq Nat /\ EpochLengths # {}
  /\ ObservationAges \subseteq Nat
  /\ MaxTime \in Nat
  /\ StartTime \in 0..MaxTime
  /\ \A l \in EpochLengths : StartTime >= l

VARIABLES
  now,                \* block.timestamp
  epochLength, maxObservationAge,
  signer, pendingSigner,
  consumed,           \* _consumed: the last report bound per GPU
  verified,           \* the transient registry of the running transaction
  returned            \* gpuId and price the latest consume returned

vars == <<now, epochLength, maxObservationAge, signer, pendingSigner, consumed,
          verified, returned>>

None == "none"

Report == [gpuId: GpuIds, price: Nat, observedAt: Nat, epoch: Nat,
           validFrom: Nat, validUntil: Nat, signedBy: Signers]

(* What an attestor that assumes epochs of `length' seconds may sign.      *)
ReportFor(g, price, observedAt, epoch, length, s) ==
  [gpuId |-> g, price |-> price, observedAt |-> observedAt, epoch |-> epoch,
   validFrom |-> epoch * length, validUntil |-> epoch * length + length,
   signedBy |-> s]

(* The storage of a GPU no report was consumed for: epoch 0 and hash 0.    *)
NoReport == [epoch |-> 0, price |-> 0]

currentEpoch == now \div epochLength

-----------------------------------------------------------------------------
(* Mutants                                                                 *)

(* The registry survives its transaction.                                  *)
keepVerified == UNCHANGED verified

(* An observation may be too old before its epoch ends.                    *)
anyAge(seconds) ==
  /\ seconds > 0
  /\ maxObservationAge' = seconds
  /\ UNCHANGED <<now, epochLength, signer, pendingSigner, consumed, verified,
                 returned>>

-----------------------------------------------------------------------------
(* _verify                                                                 *)
Structural(r) ==
  /\ r.price # 0
  /\ r.epoch = currentEpoch
  /\ r.validFrom = r.epoch * epochLength
  /\ r.validUntil = r.validFrom + epochLength
  /\ r.observedAt <= now
  /\ r.observedAt + maxObservationAge >= now

Acceptable(r) == Structural(r) /\ (r \in verified \/ r.signedBy = signer)

(* Within the bound epoch only the identical report is executable.         *)
NotEquivocating(r) ==
  consumed[r.gpuId].epoch = r.epoch => consumed[r.gpuId] = r

(* Mutant: a binding that lasts for its transaction only.                  *)
boundPerTransaction(r) ==
  /\ Acceptable(r)
  /\ \A v \in verified : v.gpuId = r.gpuId => v = r
  /\ consumed' = [consumed EXCEPT ![r.gpuId] = r]
  /\ verified' = verified \cup {r}
  /\ returned' = <<r.gpuId, r.price>>
  /\ UNCHANGED <<now, epochLength, maxObservationAge, signer, pendingSigner>>

consume(r) ==
  /\ Acceptable(r)
  /\ NotEquivocating(r)
  /\ consumed' = [consumed EXCEPT ![r.gpuId] = IF @.epoch = r.epoch THEN @ ELSE r]
  /\ verified' = verified \cup {r}
  /\ returned' = <<r.gpuId, r.price>>
  /\ UNCHANGED <<now, epochLength, maxObservationAge, signer, pendingSigner>>

transferSigner(next) ==
  /\ pendingSigner' = next
  /\ UNCHANGED <<now, epochLength, maxObservationAge, signer, consumed, verified,
                 returned>>

acceptSigner ==
  /\ pendingSigner # None
  /\ signer' = pendingSigner
  /\ pendingSigner' = None
  /\ UNCHANGED <<now, epochLength, maxObservationAge, consumed, verified,
                 returned>>

EpochLengthOk(seconds) == seconds # 0 /\ maxObservationAge >= seconds

setEpochLength(seconds) ==
  /\ EpochLengthOk(seconds)
  /\ epochLength' = seconds
  /\ UNCHANGED <<now, maxObservationAge, signer, pendingSigner, consumed, verified,
                 returned>>

setMaxObservationAge(seconds) ==
  /\ seconds >= epochLength
  /\ maxObservationAge' = seconds
  /\ UNCHANGED <<now, epochLength, signer, pendingSigner, consumed, verified,
                 returned>>

ClearTransient == verified' = {}

(* The transaction ends and the next one is mined `dt' seconds later.      *)
EndTransaction(dt) ==
  /\ now + dt <= MaxTime
  /\ now' = now + dt
  /\ ClearTransient
  /\ UNCHANGED <<epochLength, maxObservationAge, signer, pendingSigner, consumed, returned>>

-----------------------------------------------------------------------------
Init ==
  /\ now = StartTime
  /\ epochLength \in EpochLengths \ {0}
  /\ maxObservationAge \in {a \in ObservationAges : a >= epochLength}
  /\ signer \in Signers
  /\ pendingSigner = None
  /\ consumed = [g \in GpuIds |-> NoReport]
  /\ verified = {}
  /\ returned = <<>>

(* Everything but the owner's epochLength.                                 *)
FixedGridNext ==
  \/ \E g \in GpuIds, p \in Prices, o \in 0..MaxTime, e \in 0..MaxTime,
       length \in EpochLengths, s \in Signers :
       consume(ReportFor(g, p, o, e, length, s))
  \/ \E s \in Signers : transferSigner(s)
  \/ acceptSigner
  \/ \E a \in ObservationAges : setMaxObservationAge(a)
  \/ \E dt \in 0..1 : EndTransaction(dt)

Next == FixedGridNext \/ \E l \in EpochLengths : setEpochLength(l)

FixedGridSpec == Init /\ [][FixedGridNext]_vars

(* The owner only ever shortens the epochs (after a lengthening the numbers *)
(* of past epochs come back), in a transaction of its own.                  *)
ShorteningNext ==
  \/ FixedGridNext
  \/ verified = {} /\ \E l \in EpochLengths : l <= epochLength /\ setEpochLength(l)

ShorteningSpec == Init /\ [][ShorteningNext]_vars

Spec == Init /\ [][Next]_vars

-----------------------------------------------------------------------------
(* Properties                                                              *)

(* Shapes; maxObservationAge never drops below the epoch length.           *)
TypeOK ==
  /\ now \in 0..MaxTime
  /\ epochLength \in Nat \ {0}
  /\ maxObservationAge \in Nat /\ maxObservationAge >= epochLength
  /\ signer \in Signers
  /\ pendingSigner \in Signers \cup {None}
  /\ consumed \in [GpuIds -> Report \cup {NoReport}]
  /\ verified \subseteq Report
  /\ returned \in (GpuIds \X Nat) \cup {<<>>}

(* IGpuOracle's reason for maxObservationAge >= epochLength: "a report     *)
(* attested at any point of an epoch stays acceptable until the epoch      *)
(* ends", through every owner change and signer rotation.                  *)
FreshReportAcceptable ==
  \A g \in GpuIds, p \in Prices \ {0}, o \in 0..now :
    o >= currentEpoch * epochLength =>
      Acceptable(ReportFor(g, p, o, currentEpoch, epochLength, signer))

(* The transient registry skips the signature check only for a report that *)
(* is the bound one of its GPU: it can never let a retired signer's second *)
(* report through.                                                         *)
DedupeIsBound == \A r \in verified : consumed[r.gpuId] = r

(* Consumers see one price per GPU and epoch, across rotations, repeated   *)
(* consumption and equivocating signers: the contract implements the       *)
(* promise EpochPrice states.                                              *)
Promise == INSTANCE EpochPrice WITH
  epoch <- currentEpoch,
  bound <- [g \in GpuIds |->
              IF consumed[g].epoch = currentEpoch THEN consumed[g].price ELSE 0]

ImplementsEpochPrice == Promise!Spec
=============================================================================
