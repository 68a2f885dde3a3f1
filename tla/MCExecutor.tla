------------------------------ MODULE MCExecutor ------------------------------
(* The executor of main.cpp at a size TLC exhausts: a pool and its workers. *)
EXTENDS Executor
=============================================================================
