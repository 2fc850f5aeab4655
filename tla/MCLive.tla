------------------------------- MODULE MCLive -------------------------------
(* Model-checking instance of LivePosition. *)
EXTENDS LivePosition

(* [reconcile]: as config/testnet.toml has it, and everything applied. *)
MCReconcileModes == {[cancels |-> b, repairs |-> b] : b \in BOOLEAN}
=============================================================================
