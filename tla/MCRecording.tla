---------------------------- MODULE MCRecording ----------------------------
(* Model-checking instance of RecordingSystem. *)
EXTENDS RecordingSystem
=============================================================================
