------------------------------ MODULE RadioCapture ------------------------------
(***************************************************************************)
(* A radio acquisition: the window, QtControl, the device task with its    *)
(* driver, and the decoder task, each on its own thread, around the        *)
(* command queues, the posted events and the stream radio.signal.raw.      *)
(***************************************************************************)
EXTENDS RadioDeviceTask, RadioDecoderTask, QtWindow

VARIABLE since  (* history: the last stream when the session was started *)

vars == <<driverVars, deviceTaskVars, decoderTaskVars, ctlVars, windowVars, since>>

TypeOK ==
  /\ DriverTypeOK
  /\ DeviceTaskTypeOK
  /\ DecoderTaskTypeOK
  /\ CtlTypeOK
  /\ WindowTypeOK
  /\ since \in Nat

Init ==
  /\ DriverInit
  /\ DeviceTaskInit
  /\ DecoderTaskInit
  /\ CtlInit
  /\ WindowInit
  /\ since = 0

-----------------------------------------------------------------------------
(* signalRawStream->next: the decoder's callback, on the device's thread,    *)
(* reads the decoder's status and then adds to the decoder's queue           *)

DeliverRaw ==
  /\ dpc = "publish"
  /\ dpc' = IF radioDecoderStatus = "Streaming" THEN "enqueue" ELSE "published"
  /\ UNCHANGED <<radioReceiverEnabled, radioReceiverStatus, receiverGainAuto, raw,
                 driverVars, decoderTaskVars, ctlVars, windowVars, since>>

(* changed: the decoder takes the newest buffer first *)
EnqueueFirst ==
  /\ dpc = "enqueue"
  /\ radioSignalQueue' = <<raw>> \o radioSignalQueue
  /\ dpc' = "published"
  /\ UNCHANGED <<radioReceiverEnabled, radioReceiverStatus, receiverGainAuto, raw,
                 cpc, radioDecoderEnabled, radioDecoderStatus, decoded,
                 driverVars, ctlVars, windowVars, since>>

EnqueueRaw ==
  /\ dpc = "enqueue"
  /\ radioSignalQueue' = Append(radioSignalQueue, raw)
  /\ dpc' = "published"
  /\ UNCHANGED <<radioReceiverEnabled, radioReceiverStatus, receiverGainAuto, raw,
                 cpc, radioDecoderEnabled, radioDecoderStatus, decoded,
                 driverVars, ctlVars, windowVars, since>>

(* the steps of each thread *)
DeviceThread ==
  \/ DeviceTaskStep /\ UNCHANGED <<decoderTaskVars, windowVars, since>>
  \/ DeliverRaw
  \/ EnqueueRaw

DecoderThread ==
  /\ DecoderTaskStep
  /\ since' = IF cpc = "command" /\ cpc' = "starting" THEN device.stream ELSE since
  /\ UNCHANGED <<driverVars, deviceTaskVars, windowVars>>

StorageThread ==
  StartDecoders /\ UNCHANGED <<driverVars, deviceTaskVars, decoderTaskVars, windowVars, since>>

GuiThread ==
  GuiStep /\ UNCHANGED <<driverVars, deviceTaskVars, decoderTaskVars, since>>

User ==
  /\ UserStep
  /\ UNCHANGED <<driverVars, deviceTaskVars, decoderTaskVars, since>>

Usb ==
  /\ Transfer \/ Unplug \/ Plug
  /\ UNCHANGED <<deviceTaskVars, decoderTaskVars, ctlVars, windowVars, since>>

Next == DeviceThread \/ DecoderThread \/ StorageThread \/ GuiThread \/ User \/ Usb

Spec == Init /\ [][Next]_vars

RefreshStep == Refresh /\ UNCHANGED <<decoderTaskVars, windowVars, since>>

(***************************************************************************)
(* Every thread is scheduled, and a device task that keeps passing through *)
(* loop() refreshes again and again: a second goes by.  Nothing is assumed *)
(* of the user, the acquisition timer or the receiver.                     *)
(***************************************************************************)
FairSpec ==
  /\ Spec
  /\ WF_vars(DeviceThread) /\ WF_vars(DecoderThread)
  /\ WF_vars(StorageThread) /\ WF_vars(GuiThread)
  /\ SF_vars(RefreshStep)

-----------------------------------------------------------------------------
(* Properties *)

(* The decoder implements a session: between a start and the end of the      *)
(* stream it decodes one stream, started after the decoder was, in order     *)
(* and without a gap, whatever is left in the queues of an earlier one.      *)
Session == INSTANCE CaptureSession
  WITH open <- radioDecoderStatus = "Streaming" \/ cpc = "starting",
       last <- decoded

ImplementsSession == Session!Spec

(* When the end of a flushed stream is next, everything the receiver has     *)
(* delivered of that stream since the decoder listens has been decoded.      *)
NoTailLost ==
  radioSignalQueue # <<>> /\ Head(radioSignalQueue).kind = "flush" /\ decoded # NoSamples
    => /\ decoded.stream = device.stream
       /\ decoded.offset = device.received - 1
       /\ signalQueue = <<>>

(* Nothing is on its way between the threads. *)
Quiet ==
  /\ events = <<>> /\ deviceCommands = <<>> /\ decoderCommands = <<>>
  /\ storageClears = 0
  /\ dpc = "command" /\ cpc # "starting"
  /\ signalQueue = <<>> /\ radioSignalQueue = <<>>
  /\ radioReceiverStatus # "Flush"
  /\ IF device.open THEN IsReady ELSE ~plugged

(* When nothing is on its way, the window shows the real state of both       *)
(* tasks, QtControl's flags agree with them, and the buttons fit.            *)
WindowTellsTruth ==
  Quiet =>
    /\ radioDeviceStatus = StatusOf(radioReceiverEnabled, device, radioReceiverStatus)
    /\ radioDecoderShown # "decoding" <=> radioDecoderStatus = "Idle"
    /\ radioDecoderShown = "disabled" <=> ~radioDecoderEnabled
    /\ ctl.deviceEnabled = radioReceiverEnabled
    /\ ctl.decoderEnabled = radioDecoderEnabled
    /\ ctl.named = device.open
    /\ device.streaming \/ device.paused => actionStop

(* When nothing is on its way and no stream runs, the decoder is idle: every *)
(* session the decoder opens gets its stream, and the end of it.             *)
NoOrphanSession ==
  Quiet /\ ~device.streaming /\ ~device.paused => radioDecoderStatus = "Idle"

(* Every request of a patient user shows, or the receiver is gone. *)
Answered == asked # "nothing" ~> asked = "nothing"

(* A receiver removed while it streams or pauses ends the session, as long   *)
(* as the device task has not reported the removal before the decoder had    *)
(* taken up its status.                                                      *)
RemovalEndsSession ==
  (/\ device.open /\ ~device.attached /\ device.callback
   /\ radioDecoderStatus = "Streaming" /\ dpc = "command")
    ~> radioDecoderStatus = "Idle"

(* doStopDecode, "stop all tasks to finish decoding": a stop ends the        *)
(* decoding.                                                                 *)
StopFinishesDecoding == asked = "stop" ~> radioDecoderStatus = "Idle"

(* A stopped stream is flushed. *)
FlushEnds == radioReceiverStatus = "Flush" ~> radioReceiverStatus # "Flush"

(* The worker of the receiver does not end by itself. *)
DeviceTaskLives == dpc # "dead"
=============================================================================
