------------------------------ MODULE SignalBuffer ------------------------------
(***************************************************************************)
(* hw::SignalBuffer, the value every signal stream carries, as far as its  *)
(* order matters: the samples are the stream they belong to and their      *)
(* offset in it, counted in buffers.  A default constructed buffer is not  *)
(* valid and marks the end of a stream; the model remembers why it was     *)
(* published.                                                              *)
(***************************************************************************)
EXTENDS Naturals

Samples == [stream : Nat, offset : Nat]

NoSamples == [stream |-> 0, offset |-> 0]

Buffer == [kind : {"data", "flush", "detach"}, samples : Samples]

Data(stream, offset) ==
  [kind |-> "data", samples |-> [stream |-> stream, offset |-> offset]]

EndOfStream(reason) == [kind |-> reason, samples |-> NoSamples]

IsValid(buffer) == buffer.kind = "data"
=============================================================================
