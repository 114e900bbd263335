-------------------------- MODULE MCRecoveryWindow --------------------------
(***************************************************************************)
(* An instance of RecoveryWindow for TLC: a write that may not be          *)
(* repeated, an isolated capture, which may be repeated like a read or an  *)
(* idempotent write and also fails inside, and a direct call.              *)
(***************************************************************************)
EXTENDS RecoveryWindow, TLC

Mixed == 1 :> "unconfirmed" @@ 2 :> "isolated" @@ 3 :> "direct"
=============================================================================
