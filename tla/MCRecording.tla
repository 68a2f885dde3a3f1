------------------------------- MODULE MCRecording -------------------------------
(* Recording and replay at a size TLC exhausts. *)
EXTENDS Recording
=============================================================================
