----------------------------- MODULE EpochPrice -----------------------------
(* What the oracle promises its consumers: within one epoch a GPU has one   *)
(* price, whoever consumes it and however often, and an epoch never comes   *)
(* back.  PerpEngine is written against this promise.                       *)
EXTENDS Naturals

CONSTANTS GpuIds, Prices

VARIABLES
  epoch,
  bound,       \* bound[g] = 0: no price consumed in this epoch
  returned     \* what the latest consumer was told

Init ==
  /\ epoch \in Nat
  /\ bound = [g \in GpuIds |-> 0]
  /\ returned = <<>>

Use(g, price) ==
  /\ bound[g] \in {0, price}
  /\ bound' = [bound EXCEPT ![g] = price]
  /\ returned' = <<g, price>>
  /\ UNCHANGED epoch

Advance ==
  /\ epoch' \in Nat /\ epoch' > epoch
  /\ bound' = [g \in GpuIds |-> 0]
  /\ UNCHANGED returned

Next == (\E g \in GpuIds, p \in Prices \ {0} : Use(g, p)) \/ Advance

Spec == Init /\ [][Next]_<<epoch, bound, returned>>
=============================================================================
