---------------------------- MODULE MCEntryGate ----------------------------
(* Model-checking instance of EntryGate: entries and symbols are model     *)
(* values.                                                                 *)
EXTENDS EntryGate
=============================================================================
