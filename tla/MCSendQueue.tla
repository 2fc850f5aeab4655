---------------------------- MODULE MCSendQueue ----------------------------
(* Model-checking instance of SendQueue. *)
EXTENDS SendQueue
=============================================================================
