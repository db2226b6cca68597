------------------------------ MODULE Session -------------------------------
(* What the session promises the stores that follow it: a wallet is bound   *)
(* exactly while the session is connected.  It may end, and be bound again, *)
(* at any time.                                                             *)
CONSTANTS Wallets, None

VARIABLES status, address

Idle == status = "idle" /\ address = None

Connecting ==
  /\ status = "idle"
  /\ status' = "connecting" /\ address' = None

Bind(w) == status' = "connected" /\ address' = w

End == status' = "idle" /\ address' = None

SessionNext == Connecting \/ End \/ \E w \in Wallets : Bind(w)

Spec == Idle /\ [][SessionNext]_<<status, address>>
=============================================================================
