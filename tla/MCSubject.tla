------------------------------- MODULE MCSubject -------------------------------
(* A subject with two publishers, QtControl and one other observer. *)
EXTENDS Subject
=============================================================================
