------------------------------ MODULE LogicCapture ------------------------------
(***************************************************************************)
(* A logic acquisition: the user at the window, the receiver task with the *)
(* driver and the event thread of the USB device, and the decoder task.    *)
(* QtControl and the window are reduced to the flags and the status they   *)
(* show; a request reaches its queue at once (RadioCapture has the posted  *)
(* events between them).                                                   *)
(***************************************************************************)
EXTENDS LogicDeviceTask, LogicDecoderTask, FiniteSets

CONSTANTS
  MaxStarts,    (* bound: acquisitions                                      *)
  MaxEvents,    (* bound: pauses, uses of the switch and removals together  *)
  Waits,        (* a stream starts when the transfers of the last are back  *)
  StopsPaused   (* the user also stops what is paused                       *)

ASSUME LogicCaptureAssumption ==
  /\ MaxStarts \in Nat /\ MaxEvents \in Nat
  /\ Waits \in BOOLEAN /\ StopsPaused \in BOOLEAN

VARIABLES
  starts, events,
  since                      (* history: the last stream when the session   *)
                             (* was started                                 *)

userVars == <<starts, events>>
vars == <<driverVars, deviceTaskVars, decoderTaskVars, userVars, since>>

TypeOK ==
  /\ DriverTypeOK /\ DeviceTaskTypeOK /\ DecoderTaskTypeOK
  /\ starts \in 0..MaxStarts /\ events \in 0..MaxEvents
  /\ since \in Nat

Init ==
  /\ DriverInit /\ DeviceTaskInit /\ DecoderTaskInit
  /\ starts = 0 /\ events = 0
  /\ since = 0

-----------------------------------------------------------------------------
(* next() of logic.signal.raw: the callback of the decoder *)

RawOnly == UNCHANGED <<driverVars, logicReceiverEnabled, logicReceiverStatus, raw,
                       deviceCommands, control, cpc, logicDecoderStatus, decoderCommands,
                       decoded, userVars, since>>

DeliverRaw ==
  /\ lpc = "publish"
  /\ lpc' = IF logicDecoderStatus = "Streaming" THEN "enqueue" ELSE "published"
  /\ UNCHANGED logicSignalQueue /\ RawOnly

EnqueueRaw ==
  /\ lpc = "enqueue"
  /\ logicSignalQueue' = Append(logicSignalQueue, raw)
  /\ lpc' = "published"
  /\ RawOnly

DeviceThread ==
  \/ DeviceTaskStep /\ UNCHANGED <<decoderTaskVars, userVars, since>>
  \/ DeliverRaw
  \/ EnqueueRaw

-----------------------------------------------------------------------------
(* The start command of the decoder resolves: taskLogicDeviceStart *)

DecoderStarted ==
  /\ StartDecoder
  /\ deviceCommands' = Append(deviceCommands, [code |-> "Start"])
  /\ since' = driver.stream
  /\ UNCHANGED <<driverVars, lpc, logicReceiverEnabled, logicReceiverStatus, raw, control,
                 userVars>>

DecoderThread ==
  \/ DecoderStarted
  \/ DecoderTaskStep /\ UNCHANGED <<driverVars, deviceTaskVars, userVars, since>>

-----------------------------------------------------------------------------
(* The user, who waits until what was asked for is under way *)

Busy == control.shown \in {"streaming", "paused"} \/ logicDecoderStatus = "Streaming"

Underway ==
  \/ deviceCommands # <<>> \/ decoderCommands # <<>> \/ cpc = "starting"
  \/ lpc \in {"acquire", "acquired", "stopping", "pausing", "report", "close", "closing"}
  \/ logicReceiverStatus = "Flush"
  \/ \E i \in DOMAIN logicSignalQueue : ~IsValid(logicSignalQueue[i])

TransfersBack ==
  /\ bus = <<>> /\ usb.pc = "wait" /\ signalQueue = <<>>
  /\ lpc \notin {"publish", "enqueue", "published"}

UserOnly == UNCHANGED <<driverVars, lpc, logicReceiverEnabled, logicReceiverStatus, raw,
                        control, cpc, logicDecoderStatus, logicSignalQueue, decoded, since>>

Ask(command) ==
  /\ ~Underway
  /\ deviceCommands' = IF control.named THEN Append(deviceCommands, command)
                                        ELSE deviceCommands
  /\ UNCHANGED decoderCommands /\ UserOnly

(* toggleStart, and startDecoders once the traces are cleared *)
Start ==
  /\ ~Busy /\ ~Underway
  /\ Waits => TransfersBack
  /\ control.named /\ control.shown \notin {"absent", "disabled"}
  /\ starts < MaxStarts
  /\ starts' = starts + 1
  /\ decoderCommands' = Append(decoderCommands, "Start")
  /\ UNCHANGED <<deviceCommands, events>> /\ UserOnly

(* toggleStop and doStopDecode *)
Stop ==
  /\ Busy
  /\ StopsPaused \/ control.shown # "paused"
  /\ Ask([code |-> "Stop"])
  /\ UNCHANGED <<starts, events>>

(* togglePause, doPauseDecode and doResumeDecode *)
Pause ==
  /\ control.shown = "streaming"
  /\ events < MaxEvents
  /\ Ask([code |-> "Pause"])
  /\ events' = events + 1
  /\ UNCHANGED starts

Resume ==
  /\ control.shown = "paused"
  /\ Waits => TransfersBack
  /\ Ask([code |-> "Resume"])
  /\ UNCHANGED <<starts, events>>

(* toggleFeature: the acquisition switch *)
Switch ==
  /\ ~Busy /\ control.shown # "absent"
  /\ events < MaxEvents
  /\ Ask([code |-> "Configure", enabled |-> control.shown = "disabled"])
  /\ events' = events + 1
  /\ UNCHANGED starts

User == Start \/ Stop \/ Pause \/ Resume \/ Switch

Usb ==
  /\ EventThread
  /\ UNCHANGED <<deviceTaskVars, decoderTaskVars, userVars, since>>

Environment ==
  /\ \/ Unplug /\ events < MaxEvents /\ events' = events + 1
     \/ Plug /\ UNCHANGED events
  /\ UNCHANGED <<deviceTaskVars, decoderTaskVars, starts, since>>

Next == DeviceThread \/ DecoderThread \/ User \/ Usb \/ Environment

Spec == Init /\ [][Next]_vars

Due == Pass("refresh") /\ UNCHANGED <<decoderTaskVars, userVars, since>>
Refreshed == RefreshStep /\ UNCHANGED <<decoderTaskVars, userVars, since>>

(***************************************************************************)
(* Every thread is scheduled, a transfer in flight comes back, and a task  *)
(* that keeps passing through loop() refreshes again and again: a second   *)
(* goes by.  Nothing is assumed of the user or of who unplugs the device.  *)
(***************************************************************************)
FairSpec ==
  /\ Spec
  /\ WF_vars(DeviceThread) /\ WF_vars(DecoderThread) /\ WF_vars(Usb)
  /\ SF_vars(Due) /\ SF_vars(Refreshed)

-----------------------------------------------------------------------------
(* Properties *)

(* The samples of a stream without those a resume has thrown away.           *)
Position(samples) ==
  [samples EXCEPT !.offset =
     @ - Cardinality({d \in dropped : d.stream = samples.stream /\ d.offset < @})]

(* The logic decoder keeps the promise the radio decoder keeps: between a    *)
(* start and the end of the stream it decodes one stream, started after the  *)
(* decoder was, in order.  The only gap it meets is the buffer the driver    *)
(* had begun when it was paused, which resume() drops.                       *)
Session == INSTANCE CaptureSession
  WITH open <- logicDecoderStatus = "Streaming" \/ cpc = "starting",
       last <- IF decoded = NoSamples THEN NoSamples ELSE Position(decoded)

ImplementsSession == Session!Spec

(* The error usbProcessHeader starts from does not outlast its callback: as  *)
(* long as the analyser runs and is there, its header comes back in the      *)
(* transfer made for it, and not in one of a stream that was paused or       *)
(* cancelled before, nor does a transfer of an old stream fail the new one.  *)
(* What others make of the error meanwhile is RunningStaysConnected's.       *)
HeaderErrorPasses ==
  fpga.state = "runs" /\ driver.attached /\ usb.pc = "wait" => driver.status # "ERROR"

(* refresh, "device {} disconnected": an analyser that has been told to run  *)
(* and is there is not taken for a disconnected one, not even while the      *)
(* callback of its header runs.                                              *)
RunningStaysConnected ==
  raw.kind = "detach" /\ lpc \in {"publish", "enqueue", "published", "close"}
    => fpga.state # "runs"

(* When nothing is on its way and no stream runs, the window shows the state *)
(* of the analyser: the status updateDeviceStatus reads may be the error     *)
(* usbProcessHeader starts from, but what it then shows does not last.       *)
Quiet ==
  /\ deviceCommands = <<>> /\ decoderCommands = <<>> /\ lpc = "command"
  /\ usb.pc = "wait"
  /\ logicReceiverStatus # "Flush"
  /\ IF driver.open THEN IsReady ELSE ~plugged

WindowTellsTruth ==
  Quiet /\ ~IsStreaming =>
    /\ control.named = driver.open
    /\ control.shown = "disabled" <=> ~logicReceiverEnabled
    /\ logicReceiverEnabled =>
         /\ control.shown = "absent" <=> ~driver.open
         /\ control.shown = "paused" <=> driver.open /\ IsPaused
         /\ control.shown # "streaming"

(* The transfers of a stream that was stopped, paused or has failed come     *)
(* back, all of them, and so Usb::close returns.                             *)
TransfersReturn ==
  /\ ~IsStreaming ~> (bus = <<>> \/ IsStreaming)
  /\ lpc = "closing" ~> lpc # "closing"

(* A stop the receiver has carried out ends the session and shows: the       *)
(* decoder gets an end of stream and the window is free for a new start,     *)
(* whatever the cancelled transfers bring.                                   *)
StopEndsSession == logicReceiverStatus = "Flush" ~> ~Busy

(* An analyser that is removed ends the session while it is paused, or while *)
(* it streams and a transfer is left to fail: an idle task finds it gone.    *)
RemovalEndsSession ==
  (~driver.attached /\ logicDecoderStatus = "Streaming" /\ lpc = "command"
     /\ (IsPaused \/ (IsStreaming /\ bus # <<>>)))
    ~> logicDecoderStatus = "Idle"

(* DSLogicDevice::stop, "cancel pending transfers for device {}": when a     *)
(* stream has been stopped, every transfer in flight has been cancelled.     *)
StopCancelsAll ==
  driver.status = "STOP" => \A i \in DOMAIN bus : bus[i].cancelled
=============================================================================
