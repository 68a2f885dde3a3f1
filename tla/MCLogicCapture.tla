------------------------------ MODULE MCLogicCapture ------------------------------
(* The logic acquisition at a size TLC exhausts. *)
EXTENDS LogicCapture
=============================================================================
