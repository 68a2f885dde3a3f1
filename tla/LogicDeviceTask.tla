----------------------------- MODULE LogicDeviceTask -----------------------------
(***************************************************************************)
(* The worker that owns the logic analyser.  A pass of loop() takes one    *)
(* command, once a second refreshes a device that does not stream, and     *)
(* publishes one buffer of signalQueue.  The status it publishes passes    *)
(* through QtControl, which configures a device it did not know and shows  *)
(* the status of one it does.                                              *)
(***************************************************************************)
EXTENDS DSLogicDevice

VARIABLES
  lpc,                  (* where the task is inside loop()                  *)
  logicReceiverEnabled,
  logicReceiverStatus,
  raw,                  (* the buffer being published to logic.signal.raw   *)
  deviceCommands,       (* commandQueue                                     *)
  control               (* QtControl and the window: the status they show   *)

deviceTaskVars == <<lpc, logicReceiverEnabled, logicReceiverStatus, raw,
                    deviceCommands, control>>

ReceiverStatus == {"Absent", "Idle", "Streaming", "Paused", "Flush"}
Words == {"absent", "disabled", "idle", "streaming", "paused", "flush"}

(* Configure carries what becomes of the enabled flag, the others nothing *)
Command == [code : {"Start", "Stop", "Pause", "Resume"}]
           \cup [code : {"Configure"}, enabled : BOOLEAN]

DevicePc == {"command", "acquire", "acquired", "stopping", "pausing", "report",
             "refresh", "queue", "publish", "enqueue", "published", "close", "closing"}

DeviceTaskTypeOK ==
  /\ lpc \in DevicePc
  /\ logicReceiverEnabled \in BOOLEAN
  /\ logicReceiverStatus \in ReceiverStatus
  /\ raw \in Buffer
  /\ deviceCommands \in Seq(Command)
  /\ control \in [named : BOOLEAN, shown : Words]

DeviceTaskInit ==
  /\ lpc = "command"
  /\ logicReceiverEnabled = TRUE
  /\ logicReceiverStatus = "Idle"
  /\ raw = EndOfStream("flush")
  /\ deviceCommands = <<>>
  /\ control = [named |-> TRUE, shown |-> "idle"]

-----------------------------------------------------------------------------
(* The status, and what QtControl does with it *)

(* changed: a paused device counts as one that streams *)
WordOfIgnoringPause(enabled, d, status) ==
  IF ~enabled THEN "disabled"
  ELSE IF ~d.open THEN "absent"
  ELSE IF d.status \in {"START", "DATA", "PAUSE"} THEN "streaming"
  ELSE IF status = "Flush" THEN "flush" ELSE "idle"

(* updateDeviceStatus: the word for the status *)
WordOf(enabled, d, status) ==
  IF ~enabled THEN "disabled"
  ELSE IF ~d.open THEN "absent"
  ELSE IF d.status = "PAUSE" THEN "paused"
  ELSE IF d.status \in {"START", "DATA"} THEN "streaming"
  ELSE IF status = "Flush" THEN "flush" ELSE "idle"

(* logicDeviceStatusChange: another name leads to logicDeviceInitialize,     *)
(* which enables the device                                                  *)
LogicDeviceStatusChange(word, open) ==
  IF control.named # open
  THEN /\ control' = [control EXCEPT !.named = open]
       /\ deviceCommands' = Append(deviceCommands, [code |-> "Configure", enabled |-> TRUE])
  ELSE /\ control' = [control EXCEPT !.shown = word]
       /\ UNCHANGED deviceCommands

(* d: the driver object as the step leaves it *)
UpdateDeviceStatus(status, d) ==
  /\ logicReceiverStatus' = status
  /\ LogicDeviceStatusChange(WordOf(logicReceiverEnabled, d, status), d.open)

-----------------------------------------------------------------------------
(* Commands *)

Handling(code) ==
  /\ lpc = "command"
  /\ deviceCommands # <<>> /\ Head(deviceCommands).code = code
  /\ deviceCommands' = Tail(deviceCommands)

(* a disabled receiver rejects a command, without a device it is dropped *)
DropCommand ==
  /\ \E code \in {"Start", "Stop", "Pause", "Resume"} : Handling(code)
  /\ ~logicReceiverEnabled \/ ~driver.open
  /\ lpc' = "refresh"
  /\ UNCHANGED <<logicReceiverEnabled, logicReceiverStatus, raw, control, driverVars>>

Accepted(code) ==
  /\ Handling(code)
  /\ logicReceiverEnabled /\ driver.open
  /\ UNCHANGED <<logicReceiverEnabled, raw, control>>

(* the outcome of start() is not looked at *)
StartDevice ==
  /\ Accepted("Start")
  /\ Begin(TRUE)
  /\ IF driver.attached
     THEN lpc' = "acquire" /\ UNCHANGED logicReceiverStatus
     ELSE lpc' = "report" /\ logicReceiverStatus' = "Streaming"
  /\ UNCHANGED <<plugged, usb, signalQueue>>

StartAcquisition ==
  /\ lpc = "acquire"
  /\ Acquire
  /\ IF driver.attached
     THEN lpc' = "acquired" /\ UNCHANGED logicReceiverStatus
     ELSE lpc' = "report" /\ logicReceiverStatus' = "Streaming"
  /\ UNCHANGED <<plugged, bus, usb, signalQueue, dropped, logicReceiverEnabled, raw,
                 deviceCommands, control>>

(* end of start() and resume(), of stop() and of pause() *)
CallReturns ==
  /\ \/ lpc = "acquired" /\ SetStatus("START") /\ logicReceiverStatus' = "Streaming"
     \/ lpc = "stopping" /\ SetStatus("STOP") /\ logicReceiverStatus' = "Flush"
     \/ lpc = "pausing" /\ SetStatus("PAUSE") /\ logicReceiverStatus' = "Paused"
  /\ lpc' = "report"
  /\ UNCHANGED <<plugged, fpga, bus, usb, signalQueue, dropped, logicReceiverEnabled, raw,
                 deviceCommands, control>>

(* changed: the transfers are left in flight *)
StopDeviceQuietly ==
  /\ Accepted("Stop")
  /\ IF IsPaused
     THEN lpc' = "report" /\ logicReceiverStatus' = "Flush" /\ UNCHANGED <<fpga, bus>>
     ELSE /\ lpc' = "stopping"
          /\ UNCHANGED <<fpga, bus, logicReceiverStatus>>
  /\ UNCHANGED <<plugged, driver, usb, signalQueue, dropped>>

(* "if device is not started, just return": stop() looks for a paused one *)
StopDevice ==
  /\ Accepted("Stop")
  /\ IF IsPaused
     THEN lpc' = "report" /\ logicReceiverStatus' = "Flush" /\ UNCHANGED <<fpga, bus>>
     ELSE lpc' = "stopping" /\ Halt /\ UNCHANGED logicReceiverStatus
  /\ UNCHANGED <<plugged, driver, usb, signalQueue, dropped>>

(* only a stream that has data can be paused, the task takes it for paused *)
PauseDevice ==
  /\ Accepted("Pause")
  /\ IF driver.status = "DATA"
     THEN lpc' = "pausing" /\ Halt /\ UNCHANGED logicReceiverStatus
     ELSE lpc' = "report" /\ logicReceiverStatus' = "Paused" /\ UNCHANGED <<fpga, bus>>
  /\ UNCHANGED <<plugged, driver, usb, signalQueue, dropped>>

ResumeDevice ==
  /\ Accepted("Resume")
  /\ IF IsPaused
     THEN Begin(FALSE)
     ELSE UNCHANGED <<driver, fpga, bus, dropped>>
  /\ IF IsPaused /\ driver.attached
     THEN lpc' = "acquire" /\ UNCHANGED logicReceiverStatus
     ELSE lpc' = "report" /\ logicReceiverStatus' = "Streaming"
  /\ UNCHANGED <<plugged, usb, signalQueue>>

(* a device that streams is stopped when it is disabled *)
ConfigDevice ==
  /\ Handling("Configure")
  /\ LET enabled == Head(deviceCommands).enabled IN
     /\ logicReceiverEnabled' = enabled
     /\ IF ~enabled /\ driver.open /\ IsStreaming
        THEN lpc' = "stopping" /\ Halt
        ELSE lpc' = "report" /\ UNCHANGED <<fpga, bus>>
  /\ UNCHANGED <<plugged, driver, usb, signalQueue, dropped, logicReceiverStatus, raw, control>>

Report ==
  /\ lpc = "report"
  /\ UpdateDeviceStatus(logicReceiverStatus, driver)
  /\ lpc' = "refresh"
  /\ UNCHANGED <<driverVars, logicReceiverEnabled, raw>>

(* a pass without a command goes on to the refresh when a second has passed *)
Pass(next) ==
  /\ lpc = "command" /\ deviceCommands = <<>>
  /\ logicReceiverEnabled
  /\ lpc' = next
  /\ UNCHANGED <<driverVars, logicReceiverEnabled, logicReceiverStatus, raw,
                 deviceCommands, control>>

-----------------------------------------------------------------------------
(* refresh *)

Refreshing ==
  /\ lpc = "refresh" /\ logicReceiverEnabled
  /\ UNCHANGED <<plugged, fpga, bus, usb, signalQueue, dropped, logicReceiverEnabled>>

Attach ==
  /\ Refreshing
  /\ ~driver.open /\ plugged
  /\ driver' = Opened(driver.stream)
  /\ UpdateDeviceStatus("Idle", Opened(driver.stream))
  /\ lpc' = "queue"
  /\ UNCHANGED raw

(* "send null buffer for EOF": the analyser is gone, or in error *)
Detach ==
  /\ Refreshing
  /\ driver.open /\ ~IsStreaming /\ ~IsReady
  /\ raw' = EndOfStream("detach")
  /\ lpc' = "publish"
  /\ UNCHANGED <<driver, logicReceiverStatus, deviceCommands, control>>

ReportStatus ==
  /\ Refreshing
  /\ IF driver.open THEN ~IsStreaming /\ IsReady ELSE ~plugged
  /\ UpdateDeviceStatus(logicReceiverStatus, driver)
  /\ lpc' = "queue"
  /\ UNCHANGED <<driver, raw>>

(* the last refresh is less than a second ago, the device streams, or the    *)
(* receiver is disabled and waits                                            *)
NoRefresh ==
  /\ lpc = "refresh"
  /\ lpc' = IF logicReceiverEnabled THEN "queue" ELSE "command"
  /\ UNCHANGED <<driverVars, logicReceiverEnabled, logicReceiverStatus, raw,
                 deviceCommands, control>>

(* close, from the destructor: stop() ... *)
Close ==
  /\ lpc = "close"
  /\ IF IsPaused THEN UNCHANGED <<driver, fpga, bus>> ELSE Halt /\ SetStatus("STOP")
  /\ lpc' = "closing"
  /\ UNCHANGED <<plugged, usb, signalQueue, dropped, logicReceiverEnabled,
                 logicReceiverStatus, raw, deviceCommands, control>>

(* ... and Usb::close: the event thread ends when every transfer is back *)
Closed ==
  /\ lpc = "closing"
  /\ bus = <<>> /\ usb.pc = "wait"
  /\ driver' = [driver EXCEPT !.open = FALSE]
  /\ UpdateDeviceStatus("Absent", [driver EXCEPT !.open = FALSE])
  /\ lpc' = "queue"
  /\ UNCHANGED <<plugged, fpga, bus, usb, signalQueue, dropped, logicReceiverEnabled, raw>>

-----------------------------------------------------------------------------
(* processQueue *)

PublishBuffer ==
  /\ lpc = "queue"
  /\ signalQueue # <<>>
  /\ raw' = Head(signalQueue)
  /\ signalQueue' = Tail(signalQueue)
  /\ lpc' = "publish"
  /\ UNCHANGED <<plugged, driver, fpga, bus, usb, dropped, logicReceiverEnabled,
                 logicReceiverStatus, deviceCommands, control>>

(* "send null buffer for EOF": nothing has come for 50 ms, which is longer   *)
(* than a callback runs and a cancelled transfer takes to come back          *)
PublishEnd ==
  /\ lpc = "queue"
  /\ signalQueue = <<>> /\ usb.pc = "wait" /\ \A i \in DOMAIN bus : ~bus[i].cancelled
  /\ logicReceiverStatus = "Flush"
  /\ raw' = EndOfStream("flush")
  /\ lpc' = "publish"
  /\ UNCHANGED <<driverVars, logicReceiverEnabled, logicReceiverStatus,
                 deviceCommands, control>>

NothingQueued ==
  /\ lpc = "queue"
  /\ signalQueue = <<>>
  /\ logicReceiverStatus # "Flush"
  /\ lpc' = "command"
  /\ UNCHANGED <<driverVars, logicReceiverEnabled, logicReceiverStatus, raw,
                 deviceCommands, control>>

(* after next(): the flush is finished, or the device is closed *)
Published ==
  /\ lpc = "published"
  /\ \/ raw.kind = "data" /\ lpc' = "command"
        /\ UNCHANGED <<logicReceiverStatus, deviceCommands, control>>
     \/ raw.kind = "flush" /\ lpc' = "command" /\ UpdateDeviceStatus("Idle", driver)
     \/ raw.kind = "detach" /\ lpc' = "close"
        /\ UNCHANGED <<logicReceiverStatus, deviceCommands, control>>
  /\ UNCHANGED <<driverVars, logicReceiverEnabled, raw>>

RefreshStep == Attach \/ Detach \/ ReportStatus

DeviceTaskStep ==
  \/ DropCommand \/ StartDevice \/ StartAcquisition \/ CallReturns \/ StopDevice
  \/ PauseDevice \/ ResumeDevice \/ ConfigDevice \/ Report
  \/ Pass("refresh") \/ Pass("queue") \/ RefreshStep \/ NoRefresh \/ Close \/ Closed
  \/ PublishBuffer \/ PublishEnd \/ NothingQueued \/ Published
=============================================================================
