----------------------------- MODULE CaptureSession -----------------------------
(***************************************************************************)
(* What an acquisition promises to whoever reads the decoded frames: while *)
(* a session is open the samples of one stream are decoded, a stream that  *)
(* was started for this session, in order and without a gap.               *)
(***************************************************************************)
EXTENDS SignalBuffer

VARIABLES
  open,  (* a session is being decoded                                      *)
  since, (* streams up to this one belong to earlier sessions               *)
  last   (* the samples decoded last in this session, or NoSamples          *)

Init == open = FALSE /\ since = 0 /\ last = NoSamples

Begin ==
  /\ open' = TRUE
  /\ since' \in Nat /\ since' >= since
  /\ last' = NoSamples

(* the first samples may be any of the stream, the others follow *)
Decode ==
  /\ open
  /\ last'.stream > since
  /\ last # NoSamples => last' = [last EXCEPT !.offset = @ + 1]
  /\ UNCHANGED <<open, since>>

End == open /\ open' = FALSE /\ UNCHANGED <<since, last>>

Next == Begin \/ Decode \/ End

Spec == Init /\ [][Next]_<<open, since, last>>
=============================================================================
