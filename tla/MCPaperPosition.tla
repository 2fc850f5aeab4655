--------------------------- MODULE MCPaperPosition ---------------------------
(* Model-checking instance of PaperPosition. *)
EXTENDS PaperPosition

(* The position is paid funding: its break-even moves below the entry, and *)
(* a stop wanted there meets the one that is placed.                       *)
Received == {-5}
=============================================================================
