---------------------------- MODULE LogicDecoderTask ----------------------------
(***************************************************************************)
(* The worker that decodes logic.signal.raw, as far as QtControl uses it   *)
(* during an acquisition: started, fed by its callback on the thread of    *)
(* the publisher (DeliverRaw and EnqueueRaw in LogicCapture), and ended by *)
(* the end of the stream.  It stays enabled.                               *)
(***************************************************************************)
EXTENDS SignalBuffer, Sequences

VARIABLES
  cpc,                 (* where the task is inside loop()                   *)
  logicDecoderStatus,
  logicSignalQueue,
  decoderCommands,     (* commandQueue: Start commands                      *)
  decoded              (* history: the last buffer decoded since the start  *)

decoderTaskVars == <<cpc, logicDecoderStatus, logicSignalQueue, decoderCommands, decoded>>

DecoderTaskTypeOK ==
  /\ cpc \in {"command", "starting", "decode"}
  /\ logicDecoderStatus \in {"Idle", "Streaming"}
  /\ logicSignalQueue \in Seq(Buffer)
  /\ decoderCommands \in Seq({"Start"})
  /\ decoded \in Samples

DecoderTaskInit ==
  /\ cpc = "command"
  /\ logicDecoderStatus = "Idle"
  /\ logicSignalQueue = <<>>
  /\ decoderCommands = <<>>
  /\ decoded = NoSamples

(* startDecoder: drop what is queued, initialize, resolve (the composition   *)
(* starts the receiver there) ...                                            *)
StartDecoder ==
  /\ cpc = "command" /\ decoderCommands # <<>>
  /\ decoderCommands' = Tail(decoderCommands)
  /\ logicSignalQueue' = <<>>
  /\ decoded' = NoSamples
  /\ cpc' = "starting"
  /\ UNCHANGED logicDecoderStatus

(* ... and only then Streaming *)
DecoderStreaming ==
  /\ cpc = "starting"
  /\ logicDecoderStatus' = "Streaming"
  /\ cpc' = "decode"
  /\ UNCHANGED <<logicSignalQueue, decoderCommands, decoded>>

(* signalDecode, after a command or in a pass without one *)
Decoding ==
  \/ cpc = "decode"
  \/ cpc = "command" /\ decoderCommands = <<>> /\ logicDecoderStatus = "Streaming"

DecodeBuffer ==
  /\ Decoding /\ logicSignalQueue # <<>> /\ IsValid(Head(logicSignalQueue))
  /\ decoded' = Head(logicSignalQueue).samples
  /\ logicSignalQueue' = Tail(logicSignalQueue)
  /\ cpc' = "command"
  /\ UNCHANGED <<logicDecoderStatus, decoderCommands>>

(* changed: the decoder goes on with whatever comes *)
FinishDecodingStays ==
  /\ Decoding /\ logicSignalQueue # <<>> /\ ~IsValid(Head(logicSignalQueue))
  /\ logicSignalQueue' = Tail(logicSignalQueue)
  /\ cpc' = "command"
  /\ UNCHANGED <<logicDecoderStatus, decoderCommands, decoded>>

(* "decoder EOF buffer received, finish!" *)
FinishDecoding ==
  /\ Decoding /\ logicSignalQueue # <<>> /\ ~IsValid(Head(logicSignalQueue))
  /\ logicSignalQueue' = Tail(logicSignalQueue)
  /\ logicDecoderStatus' = "Idle"
  /\ cpc' = "command"
  /\ UNCHANGED <<decoderCommands, decoded>>

NothingToDecode ==
  /\ cpc = "decode" /\ logicSignalQueue = <<>>
  /\ cpc' = "command"
  /\ UNCHANGED <<logicDecoderStatus, logicSignalQueue, decoderCommands, decoded>>

DecoderTaskStep ==
  \/ DecoderStreaming \/ DecodeBuffer \/ FinishDecoding \/ NothingToDecode
=============================================================================
