---------------------------- MODULE MCTraceCapture ----------------------------
(* A capture of two buffers at a size TLC exhausts. *)
EXTENDS TraceCapture

MCRadioLevels == [s \in 0..2 |-> IF s = 1 THEN {1} ELSE {3}]
MCFrameRanges == {[start |-> 2, end |-> 4]}
=============================================================================
