--------------------------- MODULE MCSupervision ---------------------------
(* Model-checking instance of Supervision. *)
EXTENDS Supervision
=============================================================================
