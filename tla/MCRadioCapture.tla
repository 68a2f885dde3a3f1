---------------------------- MODULE MCRadioCapture ----------------------------
(* A radio acquisition at a size TLC exhausts. *)
EXTENDS RadioCapture
=============================================================================
