---------------------------- MODULE RadioDecoderTask ----------------------------
(***************************************************************************)
(* The worker that decodes radio.signal.raw.  A pass of loop() takes one   *)
(* command and then, while streaming, one buffer of radioSignalQueue.  The *)
(* queue is filled by the callback the task has subscribed, which runs on  *)
(* the thread of the publisher and reads radioDecoderStatus without a lock *)
(* (DeliverRaw in RadioCapture).                                           *)
(***************************************************************************)
EXTENDS SignalBuffer, QtControl

VARIABLES
  cpc,                 (* where the task is inside loop()                   *)
  radioDecoderEnabled,
  radioDecoderStatus,
  radioSignalQueue,
  decoded              (* history: the last buffer decoded since the start  *)

decoderTaskVars == <<cpc, radioDecoderEnabled, radioDecoderStatus,
                     radioSignalQueue, decoded>>

DecoderTaskTypeOK ==
  /\ cpc \in {"command", "starting", "decode"}
  /\ radioDecoderEnabled \in BOOLEAN
  /\ radioDecoderStatus \in {"Idle", "Streaming"}
  /\ radioSignalQueue \in Seq(Buffer)
  /\ decoded \in Samples

DecoderTaskInit ==
  /\ cpc = "command"
  /\ radioDecoderEnabled = TRUE
  /\ radioDecoderStatus = "Idle"
  /\ radioSignalQueue = <<>>
  /\ decoded = NoSamples

-----------------------------------------------------------------------------
(* updateDecoderStatus *)
UpdateDecoderStatus(status, enabled) ==
  /\ radioDecoderStatus' = status
  /\ RadioDecoderStatusChange(IF ~enabled THEN "disabled"
                              ELSE IF status = "Streaming" THEN "decoding" ELSE "idle")

HandlingDecoder(code) ==
  /\ cpc = "command"
  /\ decoderCommands # <<>>
  /\ Head(decoderCommands).code = code
  /\ decoderCommands' = Tail(decoderCommands)

(* "decoder is disabled": reject, which nobody listens to *)
RejectStart ==
  /\ HandlingDecoder("Start")
  /\ ~radioDecoderEnabled
  /\ cpc' = "decode"
  /\ UNCHANGED <<radioDecoderEnabled, radioDecoderStatus, radioSignalQueue, decoded,
                 deviceCommands, events, storageClears, ctl>>

(* startDecoder: drop what is queued, initialize, resolve ... *)
StartDecoder ==
  /\ HandlingDecoder("Start")
  /\ radioDecoderEnabled
  /\ radioSignalQueue' = <<>>
  /\ decoded' = NoSamples
  /\ DecoderStarted
  /\ cpc' = "starting"
  /\ UNCHANGED <<radioDecoderEnabled, radioDecoderStatus, events, storageClears, ctl>>

(* ... and only then, with the device perhaps already started, Streaming *)
DecoderStreaming ==
  /\ cpc = "starting"
  /\ UpdateDecoderStatus("Streaming", radioDecoderEnabled)
  /\ cpc' = "decode"
  /\ UNCHANGED <<radioDecoderEnabled, radioSignalQueue, decoded, deviceCommands,
                 decoderCommands, storageClears>>

(* configDecoder: a decoder disabled while it streams drops its queue *)
ConfigDecoder ==
  /\ HandlingDecoder("Configure")
  /\ LET enabled == Apply(Head(decoderCommands).enabled, radioDecoderEnabled)
         halt    == ~enabled /\ radioDecoderStatus = "Streaming"
     IN /\ radioDecoderEnabled' = enabled
        /\ radioSignalQueue' = IF halt THEN <<>> ELSE radioSignalQueue
        /\ UpdateDecoderStatus(IF halt THEN "Idle" ELSE radioDecoderStatus, enabled)
  /\ cpc' = "decode"
  /\ UNCHANGED <<decoded, deviceCommands, storageClears>>

NoDecoderCommand ==
  /\ cpc = "command"
  /\ decoderCommands = <<>>
  /\ radioDecoderStatus = "Streaming"
  /\ cpc' = "decode"
  /\ UNCHANGED <<radioDecoderEnabled, radioDecoderStatus, radioSignalQueue, decoded,
                 ctlVars>>

-----------------------------------------------------------------------------
(* signalDecode *)

Decoding == cpc = "decode" /\ radioDecoderEnabled /\ radioDecoderStatus = "Streaming"

DecodeBuffer ==
  /\ Decoding
  /\ radioSignalQueue # <<>> /\ IsValid(Head(radioSignalQueue))
  /\ decoded' = Head(radioSignalQueue).samples
  /\ radioSignalQueue' = Tail(radioSignalQueue)
  /\ cpc' = "command"
  /\ UNCHANGED <<radioDecoderEnabled, radioDecoderStatus, ctlVars>>

(* changed: the end is not reported *)
FinishSilently ==
  /\ Decoding
  /\ radioSignalQueue # <<>> /\ ~IsValid(Head(radioSignalQueue))
  /\ radioSignalQueue' = Tail(radioSignalQueue)
  /\ radioDecoderStatus' = "Idle"
  /\ cpc' = "command"
  /\ UNCHANGED <<radioDecoderEnabled, decoded, ctlVars>>

(* "decoder EOF buffer received, finish!" *)
FinishDecoding ==
  /\ Decoding
  /\ radioSignalQueue # <<>> /\ ~IsValid(Head(radioSignalQueue))
  /\ radioSignalQueue' = Tail(radioSignalQueue)
  /\ UpdateDecoderStatus("Idle", TRUE)
  /\ cpc' = "command"
  /\ UNCHANGED <<radioDecoderEnabled, decoded, deviceCommands, decoderCommands,
                 storageClears>>

NothingToDecode ==
  /\ cpc = "decode"
  /\ ~(radioDecoderEnabled /\ radioDecoderStatus = "Streaming") \/ radioSignalQueue = <<>>
  /\ cpc' = "command"
  /\ UNCHANGED <<radioDecoderEnabled, radioDecoderStatus, radioSignalQueue, decoded,
                 ctlVars>>

DecoderTaskStep ==
  \/ RejectStart \/ StartDecoder \/ DecoderStreaming \/ ConfigDecoder
  \/ NoDecoderCommand \/ DecodeBuffer \/ FinishDecoding \/ NothingToDecode
=============================================================================
