---------------------------- MODULE RadioDeviceTask ----------------------------
(***************************************************************************)
(* The worker that owns the receiver.  A pass of loop() takes one command, *)
(* refreshes the device when a second has gone by without streaming, and   *)
(* publishes one buffer of signalQueue on radio.signal.raw.  Publication   *)
(* runs the callback of the decoder task on this thread (DeliverRaw in     *)
(* RadioCapture): raw is the value being delivered.                        *)
(***************************************************************************)
EXTENDS AirspyDevice, QtControl

CONSTANT StoredGainAuto  (* the stored configuration selects automatic gain *)

ASSUME DeviceTaskAssumption == StoredGainAuto \in BOOLEAN

VARIABLES
  dpc,                   (* where the task is inside loop()                 *)
  radioReceiverEnabled,
  radioReceiverStatus,
  receiverGainAuto,
  raw                    (* what it is publishing on radio.signal.raw       *)

deviceTaskVars == <<dpc, radioReceiverEnabled, radioReceiverStatus,
                    receiverGainAuto, raw>>

DevicePc == {"command", "refresh", "queue", "publish", "enqueue", "published", "dead"}
ReceiverStatus == {"Absent", "Idle", "Streaming", "Paused", "Flush"}

DeviceTaskTypeOK ==
  /\ dpc \in DevicePc
  /\ radioReceiverEnabled \in BOOLEAN
  /\ radioReceiverStatus \in ReceiverStatus
  /\ receiverGainAuto \in BOOLEAN
  /\ raw \in Buffer

DeviceTaskInit ==
  /\ dpc = "command"
  /\ radioReceiverEnabled = TRUE
  /\ radioReceiverStatus = "Idle"
  /\ receiverGainAuto = StoredGainAuto
  /\ raw = EndOfStream("flush")

-----------------------------------------------------------------------------
(* the status word of updateDeviceStatus *)
StatusOf(enabled, d, status) ==
  CASE ~enabled               -> "disabled"
    [] enabled /\ ~d.open     -> "absent"
    [] enabled /\ d.open /\ d.paused -> "paused"
    [] enabled /\ d.open /\ ~d.paused /\ d.streaming -> "streaming"
    [] OTHER -> IF status = "Flush" THEN "flush" ELSE "idle"

(* updateDeviceStatus: note the status, publish it; remaining commands *)
UpdateDeviceStatus(status, d, enabled, remaining) ==
  /\ radioReceiverStatus' = status
  /\ RadioDeviceStatusChange(StatusOf(enabled, d, status), d.open, d.streamTime,
                             remaining)

(* Commands *)

Handling(code) ==
  /\ dpc = "command"
  /\ deviceCommands # <<>>
  /\ Head(deviceCommands).code = code

Streams == {"Start", "Stop", "Pause", "Resume"}

(* "device is disabled": reject, which nobody listens to *)
RejectCommand ==
  /\ \E code \in Streams : Handling(code)
  /\ ~radioReceiverEnabled
  /\ deviceCommands' = Tail(deviceCommands)
  /\ UNCHANGED <<deviceTaskVars, driverVars, decoderCommands, events, storageClears, ctl>>

(* enabled, but without a device: no reply and no change *)
IgnoreCommand ==
  /\ \E code \in Streams : Handling(code)
  /\ radioReceiverEnabled /\ ~device.open
  /\ deviceCommands' = Tail(deviceCommands)
  /\ dpc' = "refresh"
  /\ UNCHANGED <<radioReceiverEnabled, radioReceiverStatus, receiverGainAuto, raw,
                 driverVars, decoderCommands, events, storageClears, ctl>>

(* startDevice, stopDevice, pauseDevice, resumeDevice with a device *)
StreamCommand(code, after, status) ==
  /\ Handling(code)
  /\ radioReceiverEnabled /\ device.open
  /\ device' = after
  /\ UpdateDeviceStatus(status, after, TRUE, Tail(deviceCommands))
  /\ dpc' = "refresh"
  /\ UNCHANGED <<radioReceiverEnabled, receiverGainAuto, raw, plugged, unplugs,
                 signalQueue, storageClears>>

(* changed: a stopped stream is idle at once *)
StopWithoutFlush == StreamCommand("Stop", StopRx(device), "Idle")

StartDevice == StreamCommand("Start", StartRx(device), "Streaming")
StopDevice == StreamCommand("Stop", StopRx(device), "Flush")
PauseDevice == StreamCommand("Pause", PauseRx(device), "Paused")
ResumeDevice == StreamCommand("Resume", ResumeRx(device), "Streaming")

(* configDevice: a device disabled while it streams is stopped and left to   *)
(* flush; either way the status is published                                 *)
ConfigDevice ==
  /\ Handling("Configure")
  /\ LET enabled == Apply(Head(deviceCommands).enabled, radioReceiverEnabled)
         halt    == device.open /\ ~enabled /\ device.streaming
         after   == IF halt THEN StopRx(device) ELSE device
     IN /\ radioReceiverEnabled' = enabled
        /\ device' = after
        /\ UpdateDeviceStatus(IF halt THEN "Flush" ELSE radioReceiverStatus, after,
                              enabled, Tail(deviceCommands))
        /\ dpc' = IF enabled THEN "refresh" ELSE "command"
  /\ UNCHANGED <<receiverGainAuto, raw, plugged, unplugs, signalQueue, storageClears>>

(* no command: go on, or wait when disabled *)
NoCommand ==
  /\ dpc = "command"
  /\ deviceCommands = <<>>
  /\ radioReceiverEnabled
  /\ dpc' = "refresh"
  /\ UNCHANGED <<radioReceiverEnabled, radioReceiverStatus, receiverGainAuto, raw,
                 driverVars, ctlVars>>

-----------------------------------------------------------------------------
(* refresh(), at most once a second and never while streaming *)

RefreshDue ==
  /\ dpc = "refresh"
  /\ ~(device.open /\ device.streaming)
  /\ Len(events) < MaxEvents

(* changed: the new receiver is not reported *)
AttachSilently ==
  /\ RefreshDue
  /\ ~device.open /\ plugged
  /\ device' = Opened(device.stream)
  /\ radioReceiverStatus' = "Idle"
  /\ dpc' = "queue"
  /\ UNCHANGED <<radioReceiverEnabled, receiverGainAuto, raw, plugged, unplugs,
                 signalQueue, ctlVars>>

(* a receiver is found: open, setup, report it as idle *)
Attach ==
  /\ RefreshDue
  /\ ~device.open /\ plugged
  /\ device' = Opened(device.stream)
  /\ UpdateDeviceStatus("Idle", device', TRUE, deviceCommands)
  /\ dpc' = "queue"
  /\ UNCHANGED <<radioReceiverEnabled, receiverGainAuto, raw, plugged, unplugs,
                 signalQueue, storageClears>>

(* changed: the end of the stream is not published *)
DetachSilently ==
  /\ RefreshDue
  /\ device.open /\ ~IsReady
  /\ raw' = EndOfStream("detach")
  /\ dpc' = "published"
  /\ UNCHANGED <<radioReceiverEnabled, radioReceiverStatus, receiverGainAuto,
                 driverVars, ctlVars>>

(* the receiver is gone: publish the end of the stream, then Detached *)
Detach ==
  /\ RefreshDue
  /\ device.open /\ ~IsReady
  /\ raw' = EndOfStream("detach")
  /\ dpc' = "publish"
  /\ UNCHANGED <<radioReceiverEnabled, radioReceiverStatus, receiverGainAuto,
                 driverVars, ctlVars>>

Detached ==
  /\ dpc = "published" /\ raw.kind = "detach"
  /\ device' = Closed(device)
  /\ UpdateDeviceStatus("Absent", device', radioReceiverEnabled, deviceCommands)
  /\ dpc' = "queue"
  /\ UNCHANGED <<radioReceiverEnabled, receiverGainAuto, raw, plugged, unplugs,
                 signalQueue, storageClears>>

(* nothing has changed: report the status again *)
ReportStatus ==
  /\ RefreshDue
  /\ IF device.open THEN IsReady ELSE ~plugged
  /\ UpdateDeviceStatus(radioReceiverStatus, device, TRUE, deviceCommands)
  /\ dpc' = "queue"
  /\ UNCHANGED <<radioReceiverEnabled, receiverGainAuto, raw, driverVars, storageClears>>

Refresh == Attach \/ Detach \/ ReportStatus

(* the second has not gone by, or the device streams *)
NoRefresh ==
  /\ dpc = "refresh"
  /\ dpc' = "queue"
  /\ UNCHANGED <<radioReceiverEnabled, radioReceiverStatus, receiverGainAuto, raw,
                 driverVars, ctlVars>>

-----------------------------------------------------------------------------
(* processQueue(50) *)

(* changed: the newest buffer goes first *)
PublishNewest ==
  /\ dpc = "queue" /\ signalQueue # <<>>
  /\ raw' = signalQueue[Len(signalQueue)]
  /\ signalQueue' = SubSeq(signalQueue, 1, Len(signalQueue) - 1)
  /\ dpc' = "publish"
  /\ UNCHANGED <<radioReceiverEnabled, radioReceiverStatus, receiverGainAuto,
                 plugged, unplugs, device, ctlVars>>

PublishBuffer ==
  /\ dpc = "queue" /\ signalQueue # <<>>
  /\ raw' = Head(signalQueue)
  /\ signalQueue' = Tail(signalQueue)
  /\ dpc' = "publish"
  /\ UNCHANGED <<radioReceiverEnabled, radioReceiverStatus, receiverGainAuto,
                 plugged, unplugs, device, ctlVars>>

(* automatic gain reads an int out of a variant the drivers fill with an     *)
(* unsigned int: the exception leaves loop() and ends the worker             *)
AdjustGain ==
  /\ dpc = "published" /\ IsValid(raw)
  /\ dpc' = IF receiverGainAuto /\ raw.samples.offset > 0 THEN "dead" ELSE "command"
  /\ UNCHANGED <<radioReceiverEnabled, radioReceiverStatus, receiverGainAuto, raw,
                 driverVars, ctlVars>>

(* changed: the end overtakes what is queued *)
PublishEndEarly ==
  /\ dpc = "queue"
  /\ radioReceiverStatus = "Flush"
  /\ raw' = EndOfStream("flush")
  /\ dpc' = "publish"
  /\ UNCHANGED <<radioReceiverEnabled, radioReceiverStatus, receiverGainAuto,
                 driverVars, ctlVars>>

(* the queue stayed empty: in Flush this is the end of the stream *)
PublishEnd ==
  /\ dpc = "queue" /\ signalQueue = <<>>
  /\ radioReceiverStatus = "Flush"
  /\ raw' = EndOfStream("flush")
  /\ dpc' = "publish"
  /\ UNCHANGED <<radioReceiverEnabled, radioReceiverStatus, receiverGainAuto,
                 driverVars, ctlVars>>

(* changed: the status is not reset *)
FlushedAgain ==
  /\ dpc = "published" /\ raw.kind = "flush"
  /\ UpdateDeviceStatus("Flush", device, TRUE, deviceCommands)
  /\ dpc' = "command"
  /\ UNCHANGED <<radioReceiverEnabled, receiverGainAuto, raw, driverVars, storageClears>>

Flushed ==
  /\ dpc = "published" /\ raw.kind = "flush"
  /\ UpdateDeviceStatus("Idle", device, TRUE, deviceCommands)
  /\ dpc' = "command"
  /\ UNCHANGED <<radioReceiverEnabled, receiverGainAuto, raw, driverVars, storageClears>>

NothingQueued ==
  /\ dpc = "queue" /\ signalQueue = <<>>
  /\ radioReceiverStatus # "Flush"
  /\ dpc' = "command"
  /\ UNCHANGED <<radioReceiverEnabled, radioReceiverStatus, receiverGainAuto, raw,
                 driverVars, ctlVars>>

-----------------------------------------------------------------------------
DeviceTaskStep ==
  \/ RejectCommand \/ IgnoreCommand
  \/ StartDevice \/ StopDevice \/ PauseDevice \/ ResumeDevice \/ ConfigDevice
  \/ NoCommand \/ Refresh \/ NoRefresh
  \/ PublishBuffer \/ AdjustGain \/ PublishEnd \/ Flushed \/ NothingQueued \/ Detached
=============================================================================
