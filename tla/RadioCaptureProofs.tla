--------------------------- MODULE RadioCaptureProofs ---------------------------
(***************************************************************************)
(* The radio acquisition, for any number of acquisitions, switches, posted *)
(* events and buffers.  A request travels from the window through the      *)
(* posted events, the storage task and the command queues to the task that *)
(* carries it out, and shows in the window again as a status.  A patient   *)
(* user has one request under way at most, so that where it is (AtGui,     *)
(* AtStorage, AtDecoder, AtDevice, Nowhere) says how far the acquisition   *)
(* has come (Stages), and what the window has still to read of the status  *)
(* of a task is in the order in which a request lets it change (Stories).  *)
(***************************************************************************)
EXTENDS RadioCapture, SequenceTheorems, TLAPS

USE AirspyAssumption, ControlAssumption, DeviceTaskAssumption, WindowAssumption

-----------------------------------------------------------------------------
(* A request under way *)

(* a sequence of noise, and one that holds a single item of another kind     *)
Without(s, noise) == \A i \in 1..Len(s) : s[i] \in noise
With(s, item, noise) ==
  \E m \in 1..Len(s) : s[m] = item /\ \A i \in 1..Len(s) : i # m => s[i] \in noise

(* what the tasks post, and what QtControl forwards to the decoder, unasked  *)
Reports == [kind : {"device"}, value : DeviceStatus] \cup [kind : {"decoder"}, value : DecoderStatus]
Forwards == {Configure("keep")}

(* what the window posts for a request *)
Posted(request) ==
  CASE request = "start"      -> [kind |-> "control", value |-> "Start"]
    [] request = "stop"       -> [kind |-> "control", value |-> "Stop"]
    [] request = "pause"      -> [kind |-> "control", value |-> "Pause"]
    [] request = "resume"     -> [kind |-> "control", value |-> "Resume"]
    [] request = "deviceOn"   -> [kind |-> "deviceConfig", value |-> "on"]
    [] request = "deviceOff"  -> [kind |-> "deviceConfig", value |-> "off"]
    [] request = "decoderOn"  -> [kind |-> "decoderConfig", value |-> "on"]
    [] request = "decoderOff" -> [kind |-> "decoderConfig", value |-> "off"]
    [] OTHER                  -> [kind |-> "nothing", value |-> "nothing"]

(* the command it becomes *)
Ordered(request) ==
  CASE request \in {"deviceOn", "decoderOn"}   -> Configure("on")
    [] request \in {"deviceOff", "decoderOff"} -> Configure("off")
    [] request = "start"                       -> Request("Start")
    [] request = "stop"                        -> Request("Stop")
    [] request = "pause"                       -> Request("Pause")
    [] OTHER                                   -> Request("Resume")

(* where the request is *)
AtGui ==
  /\ With(events, Posted(asked), Reports) /\ storageClears = 0
  /\ Without(decoderCommands, Forwards) /\ deviceCommands = <<>>
AtStorage ==
  /\ Without(events, Reports) /\ storageClears = 1
  /\ Without(decoderCommands, Forwards) /\ deviceCommands = <<>>
AtDecoder ==
  /\ Without(events, Reports) /\ storageClears = 0
  /\ With(decoderCommands, Ordered(asked), Forwards) /\ deviceCommands = <<>>
AtDevice ==
  /\ Without(events, Reports) /\ storageClears = 0
  /\ Without(decoderCommands, Forwards) /\ deviceCommands = <<Ordered(asked)>>
Nowhere ==
  /\ Without(events, Reports) /\ storageClears = 0
  /\ Without(decoderCommands, Forwards) /\ deviceCommands = <<>>

-----------------------------------------------------------------------------
(* The stages of an acquisition *)

(* the receiver stays, QtControl knows what is switched on, and no session is *)
(* older than the last stream                                                *)
Fixed ==
  /\ plugged /\ device.open /\ device.attached /\ ctl.named
  /\ ctl.deviceEnabled = radioReceiverEnabled
  /\ ctl.decoderEnabled = radioDecoderEnabled
  /\ dpc # "command" => radioReceiverEnabled
  /\ since <= device.stream

Publishing == dpc \in {"publish", "enqueue", "published"}
Halted == ~device.callback /\ ~device.streaming /\ ~device.paused

(* the device task, from before a stream to after it *)
Resting ==
  /\ Halted /\ radioReceiverStatus = "Idle" /\ signalQueue = <<>>
  /\ dpc \in {"command", "refresh", "queue"}
Live ==
  /\ device.callback /\ device.streaming = ~device.paused /\ radioReceiverEnabled
  /\ radioReceiverStatus = IF device.paused THEN "Paused" ELSE "Streaming"
  /\ Publishing => raw.kind = "data"
Flushing ==
  /\ Halted /\ radioReceiverStatus = "Flush" /\ radioReceiverEnabled
  /\ Publishing => raw.kind = "data" \/ (raw = EndOfStream("flush") /\ signalQueue = <<>>)

(* the decoder task, without a session, on its way to one, and in one *)
Shut ==
  /\ radioDecoderStatus = "Idle" /\ radioSignalQueue = <<>>
  /\ cpc # "starting" /\ dpc # "enqueue"
Opening ==
  /\ radioDecoderStatus = "Idle" /\ radioSignalQueue = <<>>
  /\ cpc = "starting" /\ dpc # "enqueue" /\ radioDecoderEnabled /\ decoded = NoSamples
Open == radioDecoderStatus = "Streaming" /\ cpc # "starting" /\ radioDecoderEnabled

(* how many buffers of the stream the decoder task has been handed *)
InHand == IF dpc \in {"publish", "enqueue"} /\ raw.kind = "data" THEN 1 ELSE 0
Handed == device.received - Len(signalQueue) - InHand

(* the buffers before the decoder task are the last of the stream, ... *)
Upstream ==
  /\ \A i \in 1..Len(signalQueue) :
       signalQueue[i] = Data(device.stream, device.received - Len(signalQueue) + i - 1)
  /\ InHand = 1 => raw = Data(device.stream, Handed)

(* ... and the n in its queue are those before them *)
Downstream(n) ==
  /\ \A i \in 1..n : radioSignalQueue[i] = Data(device.stream, Handed - n + i - 1)
  /\ decoded # NoSamples => decoded = [stream |-> device.stream, offset |-> Handed - n - 1]

(* the decoder task has decoded nothing, is in the middle, or is at the end  *)
Fresh == Open /\ radioSignalQueue = <<>> /\ decoded = NoSamples
Listening == Open /\ Downstream(Len(radioSignalQueue))
Finishing ==
  /\ Open /\ radioSignalQueue # <<>>
  /\ radioSignalQueue[Len(radioSignalQueue)] = EndOfStream("flush")
  /\ Downstream(Len(radioSignalQueue) - 1)

Off == Resting /\ Shut

(* the receiver is about to be started *)
Awaiting ==
  /\ Resting /\ radioReceiverEnabled
  /\ IF radioDecoderEnabled
     THEN (Opening \/ Fresh) /\ since = device.stream
     ELSE Shut

On ==
  /\ Live /\ Upstream
  /\ IF radioDecoderEnabled
     THEN (Opening \/ Listening) /\ since < device.stream
     ELSE Shut

Running == On /\ cpc # "starting"

(* the end of the stream has been handed to the decoder task *)
EndSent == Resting \/ (Flushing /\ dpc = "published" /\ raw.kind = "flush")

Ending ==
  /\ Resting \/ (Flushing /\ Upstream)
  /\ IF radioDecoderEnabled
     THEN /\ IF EndSent THEN Shut \/ Finishing ELSE Listening
          /\ since < device.stream
     ELSE Shut

Starts ==
  /\ asked = "start"
  /\ \/ /\ Off /\ radioReceiverEnabled
        /\ AtGui \/ AtStorage \/ (AtDecoder /\ radioDecoderEnabled)
     \/ Awaiting /\ AtDevice
     \/ On /\ Nowhere
Stops ==
  /\ asked = "stop"
  /\ \/ Running /\ (AtGui \/ AtDevice)
     \/ Ending /\ Nowhere
Pauses ==
  /\ asked \in {"pause", "resume"} /\ Running
  /\ Nowhere \/ ((AtGui \/ AtDevice) /\ device.paused = (asked = "resume"))
Configures ==
  /\ asked \in {"deviceOn", "deviceOff"} /\ Off
  /\ Nowhere \/ ((AtGui \/ AtDevice) /\ radioReceiverEnabled = (asked = "deviceOff"))
ConfiguresDecoder ==
  /\ asked \in {"decoderOn", "decoderOff"} /\ Off
  /\ Nowhere \/ ((AtGui \/ AtDecoder) /\ radioDecoderEnabled = (asked = "decoderOff"))
Waits == asked = "nothing" /\ Nowhere /\ (Off \/ Running)

Stages == Waits \/ Starts \/ Stops \/ Pauses \/ Configures \/ ConfiguresDecoder

-----------------------------------------------------------------------------
(* What the window has yet to read *)

(* the status of the two tasks, in the words of the window *)
DeviceWord == StatusOf(radioReceiverEnabled, device, radioReceiverStatus)
DecoderWord ==
  IF ~radioDecoderEnabled THEN "disabled"
  ELSE IF radioDecoderStatus = "Streaming" THEN "decoding" ELSE "idle"

(* v is w, or comes before w while the request is under way *)
Leads(kind, request, v, w) ==
  \/ v = w
  \/ /\ kind = "device"
     /\ \/ request = "start" /\ v = "idle" /\ w = "streaming"
        \/ request = "stop" /\ v \in {"streaming", "paused"} /\ w \in {"flush", "idle"}
        \/ request = "stop" /\ v = "flush" /\ w = "idle"
        \/ request = "pause" /\ v = "streaming" /\ w = "paused"
        \/ request = "resume" /\ v = "paused" /\ w = "streaming"
        \/ request = "deviceOn" /\ v = "disabled" /\ w = "idle"
        \/ request = "deviceOff" /\ v = "idle" /\ w = "disabled"
  \/ /\ kind = "decoder"
     /\ \/ request = "start" /\ v = "idle" /\ w = "decoding"
        \/ request = "stop" /\ v = "decoding" /\ w = "idle"
        \/ request = "decoderOn" /\ v = "disabled" /\ w = "idle"
        \/ request = "decoderOff" /\ v = "idle" /\ w = "disabled"

(* from what is shown to the status there is, which is told unless it shows  *)
Story(ev, kind, request, shown, word) ==
  /\ Leads(kind, request, shown, word)
  /\ \A i \in 1..Len(ev) : ev[i].kind = kind =>
       /\ Leads(kind, request, shown, ev[i].value)
       /\ Leads(kind, request, ev[i].value, word)
  /\ \A i, j \in 1..Len(ev) : i < j /\ ev[i].kind = kind /\ ev[j].kind = kind =>
       Leads(kind, request, ev[i].value, ev[j].value)
  /\ shown = word \/ \E i \in 1..Len(ev) : ev[i].kind = kind /\ ev[i].value = word

DeviceStory == Story(events, "device", asked, radioDeviceStatus, DeviceWord)
DecoderStory == Story(events, "decoder", asked, radioDecoderShown, DecoderWord)
Stories == DeviceStory /\ DecoderStory

(* the buttons and the timer *)
Buttons ==
  /\ actionListen => FeaturesEnabled /\ Acquiring(radioDeviceStatus) /\ asked # "start"
  /\ actionStop => ~FeaturesEnabled
  /\ asked # "stop" /\ ~FeaturesEnabled => actionStop
  /\ acquireTimer => asked # "stop" /\ (asked = "start" \/ device.callback)
  /\ pauseChecked <=> asked = "pause" \/ (asked = "nothing" /\ device.paused)

Inv == TypeOK /\ Fixed /\ Stages /\ Stories /\ Buttons

-----------------------------------------------------------------------------
(* Types *)

(* Words, events and commands are what the queues hold. *)
LEMMA WordsTyped ==
  /\ \A enabled, d, status : StatusOf(enabled, d, status) \in DeviceStatus
  /\ \A word \in DeviceStatus : [kind |-> "device", value |-> word] \in Event
  /\ \A word \in DecoderStatus : [kind |-> "decoder", value |-> word] \in Event
  /\ \A code \in Codes : Request(code) \in Command
  /\ \A flag \in Enabled : Configure(flag) \in Command
  /\ \A b : Flag(b) \in Enabled
  <1>1. \A enabled, d, status : StatusOf(enabled, d, status) \in DeviceStatus
    BY DEF StatusOf, DeviceStatus
  <1>2. /\ \A word \in DeviceStatus : [kind |-> "device", value |-> word] \in Event
        /\ \A word \in DecoderStatus : [kind |-> "decoder", value |-> word] \in Event
    BY DEF Event
  <1>3. /\ \A code \in Codes : Request(code) \in Command
        /\ \A flag \in Enabled : Configure(flag) \in Command
        /\ \A b : Flag(b) \in Enabled
    BY DEF Request, Configure, Flag, Enabled, Command, Codes
  <1> QED
    BY <1>1, <1>2, <1>3

(* The methods of the driver return a driver. *)
LEMMA MethodsTyped ==
  ASSUME NEW d \in Driver
  PROVE  /\ StartRx(d) \in Driver
         /\ StopRx(d) \in Driver
         /\ PauseRx(d) \in Driver
         /\ ResumeRx(d) \in Driver
         /\ Closed(d) \in Driver
         /\ Opened(d.stream) \in Driver
         /\ [d EXCEPT !.received = @ + 1] \in Driver
         /\ [d EXCEPT !.attached = FALSE, !.streaming = FALSE] \in Driver
         /\ d.open \in BOOLEAN /\ d.streamTime \in Nat /\ d.stream \in Nat
  <1>0. /\ d.open \in BOOLEAN /\ d.attached \in BOOLEAN /\ d.streaming \in BOOLEAN
        /\ d.callback \in BOOLEAN /\ d.paused \in BOOLEAN
        /\ d.stream \in Nat /\ d.received \in Nat /\ d.streamTime \in Nat
    BY DEF Driver
  <1>1. StartRx(d) \in Driver
    <2>1. PICK streaming \in BOOLEAN, callback \in BOOLEAN, stream \in Nat, time \in Nat :
            StartRx(d) = [d EXCEPT !.streaming = streaming, !.callback = callback, !.paused = FALSE,
                                   !.received = 0, !.stream = stream, !.streamTime = time]
      <3>1. d.stream + 1 \in Nat
        BY <1>0
      <3>2. CASE d.attached /\ ~d.streaming
        <4>1. StartRx(d) = [d EXCEPT !.streaming = TRUE, !.callback = TRUE, !.paused = FALSE,
                                     !.received = 0, !.stream = d.stream + 1, !.streamTime = d.stream + 1]
          BY <3>2 DEF StartRx
        <4> QED
          BY <3>1, <4>1
      <3>3. CASE ~(d.attached /\ ~d.streaming)
        <4>1. StartRx(d) = [d EXCEPT !.streaming = d.streaming, !.callback = FALSE, !.paused = FALSE,
                                     !.received = 0, !.stream = d.stream, !.streamTime = d.stream + 1]
          BY <1>0, <3>3 DEF StartRx
        <4> QED
          BY <1>0, <3>1, <4>1
      <3> QED
        BY <3>2, <3>3
    <2> DEFINE flags == [d EXCEPT !.streaming = streaming, !.callback = callback, !.paused = FALSE]
    <2>2. flags \in Driver
      BY DEF Driver
    <2>3. StartRx(d) = [flags EXCEPT !.received = 0, !.stream = stream, !.streamTime = time]
      BY <2>1
    <2> HIDE DEF flags
    <2>4. /\ flags.open \in BOOLEAN /\ flags.attached \in BOOLEAN /\ flags.streaming \in BOOLEAN
          /\ flags.callback \in BOOLEAN /\ flags.paused \in BOOLEAN
      BY <2>2 DEF Driver
    <2>5. StartRx(d) = [open |-> flags.open, attached |-> flags.attached, streaming |-> flags.streaming,
                        callback |-> flags.callback, paused |-> flags.paused, stream |-> stream,
                        received |-> 0, streamTime |-> time]
      BY <2>2, <2>3 DEF Driver
    <2> QED
      BY <2>4, <2>5 DEF Driver
  <1>2. StopRx(d) \in Driver
    BY DEF StopRx, Driver
  <1>3. PauseRx(d) \in Driver /\ ResumeRx(d) \in Driver
    BY DEF PauseRx, ResumeRx, Driver
  <1>4. Closed(d) \in Driver
    BY <1>2 DEF Closed, Driver
  <1>5. Opened(d.stream) \in Driver
    BY DEF Opened, Driver
  <1>6. /\ [d EXCEPT !.received = @ + 1] \in Driver
        /\ [d EXCEPT !.attached = FALSE, !.streaming = FALSE] \in Driver
    <2>1. d.received + 1 \in Nat
      BY <1>0
    <2>2. \A n \in Nat : [d EXCEPT !.received = n] \in Driver
      BY DEF Driver
    <2>3. [d EXCEPT !.attached = FALSE, !.streaming = FALSE] \in Driver
      BY DEF Driver
    <2> QED
      BY <2>1, <2>2, <2>3
  <1> QED
    BY <1>0, <1>1, <1>2, <1>3, <1>4, <1>5, <1>6

(* A sequence with one more element, or without its first. *)
LEMMA QueuesTyped ==
  ASSUME NEW S, NEW s \in Seq(S)
  PROVE  /\ \A e \in S : Append(s, e) \in Seq(S)
         /\ s # <<>> => Head(s) \in S /\ Tail(s) \in Seq(S)
         /\ <<>> \in Seq(S)
  BY HeadTailProperties

(* A status of the device that is noted and published is typed. *)
LEMMA ReportTyped ==
  ASSUME CtlTypeOK, NEW word \in DeviceStatus, NEW named \in BOOLEAN, NEW time \in Nat,
         NEW remaining \in Seq(Command), UNCHANGED storageClears,
         RadioDeviceStatusChange(word, named, time, remaining)
  PROVE  CtlTypeOK'
  <1> USE DEF CtlTypeOK
  <1>1. ctl' \in Ctl
    BY DEF RadioDeviceStatusChange, Ctl
  <1>2. /\ \A flag : Configure(Flag(flag)) \in Command
        /\ Configure("keep") \in Command
        /\ [kind |-> "device", value |-> word] \in Event
    BY WordsTyped DEF Enabled
  <1>3. deviceCommands' \in Seq(Command)
    <2>1. \A flag : Append(remaining, Configure(Flag(flag))) \in Seq(Command)
      BY <1>2
    <2> QED
      BY <2>1 DEF RadioDeviceStatusChange
  <1>4. decoderCommands' \in Seq(Command) /\ events' \in Seq(Event)
    <2>1. /\ Append(decoderCommands, Configure("keep")) \in Seq(Command)
          /\ Append(events, [kind |-> "device", value |-> word]) \in Seq(Event)
      BY <1>2
    <2> QED
      BY <2>1 DEF RadioDeviceStatusChange
  <1> QED
    BY <1>1, <1>3, <1>4

(* ... and so is one of the decoder. *)
LEMMA DecoderReportTyped ==
  ASSUME CtlTypeOK, NEW word \in DecoderStatus, RadioDecoderStatusChange(word),
         deviceCommands' = deviceCommands, decoderCommands' \in Seq(Command),
         UNCHANGED storageClears
  PROVE  CtlTypeOK'
  <1> USE DEF CtlTypeOK
  <1>1. ctl' \in Ctl
    BY DEF RadioDecoderStatusChange, Ctl
  <1>2. events' \in Seq(Event)
    BY WordsTyped, QueuesTyped DEF RadioDecoderStatusChange
  <1> QED
    BY <1>1, <1>2

(* The device task, its driver and what they publish: *)
LEMMA DeviceTyped ==
  ASSUME TypeOK, DeviceTaskStep
  PROVE  DriverTypeOK' /\ DeviceTaskTypeOK' /\ CtlTypeOK'
  <1>0. /\ plugged \in BOOLEAN /\ unplugs \in Nat /\ device \in Driver /\ signalQueue \in Seq(Buffer)
        /\ dpc \in DevicePc /\ radioReceiverEnabled \in BOOLEAN
        /\ radioReceiverStatus \in ReceiverStatus /\ receiverGainAuto \in BOOLEAN /\ raw \in Buffer
        /\ CtlTypeOK /\ deviceCommands \in Seq(Command)
    BY DEF TypeOK, DriverTypeOK, DeviceTaskTypeOK, CtlTypeOK
  <1>1. ASSUME NEW status \in ReceiverStatus, NEW d \in Driver, NEW enabled \in BOOLEAN,
               NEW remaining \in Seq(Command), UNCHANGED storageClears,
               UpdateDeviceStatus(status, d, enabled, remaining)
        PROVE  radioReceiverStatus' \in ReceiverStatus /\ CtlTypeOK'
    <2>1. /\ StatusOf(enabled, d, status) \in DeviceStatus
          /\ d.open \in BOOLEAN /\ d.streamTime \in Nat
      BY WordsTyped, MethodsTyped
    <2> QED
      BY <1>0, <1>1, <2>1, ReportTyped DEF UpdateDeviceStatus
  <1>2. deviceCommands # <<>> => Tail(deviceCommands) \in Seq(Command) /\ Head(deviceCommands) \in Command
    BY <1>0, QueuesTyped
  <1>3. {"command", "refresh", "queue", "publish", "published", "dead"} \subseteq DevicePc
    BY DEF DevicePc
  <1>4. {"Absent", "Idle", "Streaming", "Paused", "Flush"} \subseteq ReceiverStatus
    BY DEF ReceiverStatus
  <1>5. /\ StartRx(device) \in Driver /\ StopRx(device) \in Driver /\ PauseRx(device) \in Driver
        /\ ResumeRx(device) \in Driver /\ Closed(device) \in Driver /\ Opened(device.stream) \in Driver
    BY <1>0, MethodsTyped
  <1>6. \A reason \in {"flush", "detach"} : EndOfStream(reason) \in Buffer
    BY DEF EndOfStream, Buffer, NoSamples, Samples
  <1>7. CASE RejectCommand \/ IgnoreCommand
    <2>1. deviceCommands' \in Seq(Command)
      BY <1>2, <1>7 DEF RejectCommand, IgnoreCommand, Handling
    <2>2. UNCHANGED <<driverVars, radioReceiverEnabled, radioReceiverStatus, receiverGainAuto, raw,
                      decoderCommands, events, storageClears, ctl>>
      BY <1>7 DEF RejectCommand, IgnoreCommand, deviceTaskVars
    <2>3. dpc' \in DevicePc
      BY <1>0, <1>3, <1>7 DEF RejectCommand, IgnoreCommand, deviceTaskVars
    <2> QED
      BY <1>0, <2>1, <2>2, <2>3 DEF DriverTypeOK, DeviceTaskTypeOK, CtlTypeOK, driverVars
  <1>8. ASSUME NEW code, NEW after \in Driver, NEW status \in ReceiverStatus,
               StreamCommand(code, after, status)
        PROVE  DriverTypeOK' /\ DeviceTaskTypeOK' /\ CtlTypeOK'
    <2>1. radioReceiverStatus' \in ReceiverStatus /\ CtlTypeOK'
      BY <1>1, <1>2, <1>8 DEF StreamCommand, Handling
    <2> QED
      BY <1>0, <1>3, <1>8, <2>1 DEF StreamCommand, DriverTypeOK, DeviceTaskTypeOK
  <1>9. CASE StartDevice \/ StopDevice \/ PauseDevice \/ ResumeDevice
    BY <1>4, <1>5, <1>8, <1>9 DEF StartDevice, StopDevice, PauseDevice, ResumeDevice
  <1>10. CASE ConfigDevice
    <2> DEFINE enabled == Apply(Head(deviceCommands).enabled, radioReceiverEnabled)
               halt    == device.open /\ ~enabled /\ device.streaming
               after   == IF halt THEN StopRx(device) ELSE device
               status  == IF halt THEN "Flush" ELSE radioReceiverStatus
    <2>1. enabled \in BOOLEAN
      BY <1>0 DEF Apply
    <2>2. after \in Driver /\ status \in ReceiverStatus
      BY <1>0, <1>4, <1>5
    <2>3. /\ UpdateDeviceStatus(status, after, enabled, Tail(deviceCommands))
          /\ device' = after /\ radioReceiverEnabled' = enabled
          /\ dpc' = IF enabled THEN "refresh" ELSE "command"
          /\ UNCHANGED <<receiverGainAuto, raw, plugged, unplugs, signalQueue, storageClears>>
      BY <1>10 DEF ConfigDevice
    <2>4. deviceCommands # <<>>
      BY <1>10 DEF ConfigDevice, Handling
    <2> HIDE DEF enabled, after, status
    <2>5. radioReceiverStatus' \in ReceiverStatus /\ CtlTypeOK'
      BY <1>1, <1>2, <2>1, <2>2, <2>3, <2>4
    <2> QED
      BY <1>0, <1>3, <2>1, <2>2, <2>3, <2>5 DEF DriverTypeOK, DeviceTaskTypeOK
  <1>11. CASE NoCommand \/ NoRefresh \/ AdjustGain \/ NothingQueued \/ Detach \/ PublishEnd
    <2>1. dpc' \in DevicePc /\ raw' \in Buffer
      BY <1>0, <1>3, <1>6, <1>11 DEF NoCommand, NoRefresh, AdjustGain, NothingQueued, Detach, PublishEnd
    <2>2. UNCHANGED <<driverVars, radioReceiverEnabled, radioReceiverStatus, receiverGainAuto, ctlVars>>
      BY <1>11 DEF NoCommand, NoRefresh, AdjustGain, NothingQueued, Detach, PublishEnd
    <2> QED
      BY <1>0, <2>1, <2>2 DEF DriverTypeOK, DeviceTaskTypeOK, CtlTypeOK, driverVars, ctlVars
  <1>12. CASE PublishBuffer
    <2>1. dpc' \in DevicePc /\ raw' \in Buffer /\ signalQueue' \in Seq(Buffer)
      BY <1>0, <1>3, <1>12, QueuesTyped DEF PublishBuffer
    <2> QED
      BY <1>0, <1>12, <2>1 DEF PublishBuffer, DriverTypeOK, DeviceTaskTypeOK, CtlTypeOK, ctlVars
  <1>13. ASSUME NEW status \in ReceiverStatus, NEW d \in Driver, NEW enabled \in BOOLEAN,
                UpdateDeviceStatus(status, d, enabled, deviceCommands),
                device' = d, dpc' \in DevicePc,
                UNCHANGED <<radioReceiverEnabled, receiverGainAuto, raw, plugged, unplugs,
                            signalQueue, storageClears>>
         PROVE  DriverTypeOK' /\ DeviceTaskTypeOK' /\ CtlTypeOK'
    <2>1. radioReceiverStatus' \in ReceiverStatus /\ CtlTypeOK'
      BY <1>0, <1>1, <1>13
    <2> QED
      BY <1>0, <1>13, <2>1 DEF DriverTypeOK, DeviceTaskTypeOK
  <1>14. CASE Attach
    BY <1>3, <1>4, <1>5, <1>13, <1>14 DEF Attach
  <1>15. CASE Detached
    BY <1>0, <1>3, <1>4, <1>5, <1>13, <1>15 DEF Detached
  <1>16. CASE ReportStatus \/ Flushed
    <2>1. UNCHANGED <<device, radioReceiverEnabled, receiverGainAuto, raw, plugged, unplugs,
                      signalQueue, storageClears>>
      BY <1>16 DEF ReportStatus, Flushed, driverVars
    <2>2. /\ \/ UpdateDeviceStatus(radioReceiverStatus, device, TRUE, deviceCommands)
             \/ UpdateDeviceStatus("Idle", device, TRUE, deviceCommands)
          /\ dpc' \in DevicePc
      BY <1>3, <1>16 DEF ReportStatus, Flushed
    <2> QED
      BY <1>0, <1>4, <1>13, <2>1, <2>2
  <1> QED
    BY <1>7, <1>9, <1>10, <1>11, <1>12, <1>14, <1>15, <1>16 DEF DeviceTaskStep, Refresh

(* What an event carries. *)
LEMMA EventsTyped ==
  ASSUME NEW e \in Event
  PROVE  /\ e.kind = "device" => e.value \in DeviceStatus
         /\ e.kind = "decoder" => e.value \in DecoderStatus
         /\ e.kind \in {"deviceConfig", "decoderConfig"} => e.value \in Enabled
  BY DEF Event

(* ... the decoder task, ... *)
LEMMA DecoderTyped ==
  ASSUME TypeOK, DecoderTaskStep
  PROVE  DecoderTaskTypeOK' /\ CtlTypeOK'
  <1>0. /\ cpc \in {"command", "starting", "decode"} /\ radioDecoderEnabled \in BOOLEAN
        /\ radioDecoderStatus \in {"Idle", "Streaming"} /\ radioSignalQueue \in Seq(Buffer)
        /\ decoded \in Samples /\ CtlTypeOK
        /\ deviceCommands \in Seq(Command) /\ decoderCommands \in Seq(Command)
    BY DEF TypeOK, DecoderTaskTypeOK, CtlTypeOK
  <1>1. decoderCommands # <<>> => /\ Tail(decoderCommands) \in Seq(Command)
                                  /\ Head(decoderCommands) \in Command
    BY <1>0, QueuesTyped
  <1>2. radioSignalQueue # <<>> => /\ Tail(radioSignalQueue) \in Seq(Buffer)
                                   /\ Head(radioSignalQueue).samples \in Samples
    <2>1. radioSignalQueue # <<>> => /\ Tail(radioSignalQueue) \in Seq(Buffer)
                                     /\ Head(radioSignalQueue) \in Buffer
      BY <1>0, QueuesTyped
    <2> QED
      BY <2>1 DEF Buffer
  <1>3. NoSamples \in Samples
    BY DEF NoSamples, Samples
  <1>4. CASE RejectStart
    BY <1>0, <1>1, <1>4 DEF RejectStart, HandlingDecoder, DecoderTaskTypeOK, CtlTypeOK
  <1>5. CASE StartDecoder
    <2>1. deviceCommands' \in Seq(Command) /\ decoderCommands' \in Seq(Command)
      <3>1. Request("Start") \in Command
        BY WordsTyped DEF Codes
      <3> QED
        BY <1>0, <1>1, <1>5, <3>1, QueuesTyped DEF StartDecoder, HandlingDecoder, DecoderStarted
    <2> QED
      BY <1>0, <1>3, <1>5, <2>1 DEF StartDecoder, DecoderTaskTypeOK, CtlTypeOK
  <1>6. CASE DecoderStreaming
    <2>1. PICK word \in DecoderStatus : RadioDecoderStatusChange(word)
      BY <1>6 DEF DecoderStreaming, UpdateDecoderStatus, DecoderStatus
    <2>2. CtlTypeOK'
      BY <1>0, <1>6, <2>1, DecoderReportTyped DEF DecoderStreaming
    <2> QED
      BY <1>0, <1>6, <2>2 DEF DecoderStreaming, UpdateDecoderStatus, DecoderTaskTypeOK
  <1>7. CASE ConfigDecoder
    <2> DEFINE enabled == Apply(Head(decoderCommands).enabled, radioDecoderEnabled)
               halt    == ~enabled /\ radioDecoderStatus = "Streaming"
               status  == IF halt THEN "Idle" ELSE radioDecoderStatus
    <2>1. enabled \in BOOLEAN /\ status \in {"Idle", "Streaming"}
      BY <1>0 DEF Apply
    <2>2. /\ radioDecoderEnabled' = enabled
          /\ radioSignalQueue' = IF halt THEN <<>> ELSE radioSignalQueue
          /\ UpdateDecoderStatus(status, enabled)
          /\ cpc' = "decode" /\ UNCHANGED <<decoded, deviceCommands, storageClears>>
          /\ decoderCommands # <<>> /\ decoderCommands' = Tail(decoderCommands)
      BY <1>7 DEF ConfigDecoder, HandlingDecoder
    <2> HIDE DEF enabled, halt, status
    <2>3. PICK word \in DecoderStatus : RadioDecoderStatusChange(word)
      BY <2>2 DEF UpdateDecoderStatus, DecoderStatus
    <2>4. CtlTypeOK'
      BY <1>0, <1>1, <2>2, <2>3, DecoderReportTyped
    <2>5. radioSignalQueue' \in Seq(Buffer)
      BY <1>0, <2>2, QueuesTyped
    <2> QED
      BY <1>0, <2>1, <2>2, <2>4, <2>5 DEF UpdateDecoderStatus, DecoderTaskTypeOK
  <1>8. CASE NoDecoderCommand \/ NothingToDecode
    BY <1>0, <1>8 DEF NoDecoderCommand, NothingToDecode, DecoderTaskTypeOK, CtlTypeOK, ctlVars
  <1>9. CASE DecodeBuffer
    BY <1>0, <1>2, <1>9 DEF DecodeBuffer, DecoderTaskTypeOK, CtlTypeOK, ctlVars
  <1>10. CASE FinishDecoding
    <2>1. PICK word \in DecoderStatus : RadioDecoderStatusChange(word)
      BY <1>10 DEF FinishDecoding, UpdateDecoderStatus, DecoderStatus
    <2>2. CtlTypeOK'
      BY <1>0, <1>10, <2>1, DecoderReportTyped DEF FinishDecoding
    <2> QED
      BY <1>0, <1>2, <1>10, <2>2 DEF FinishDecoding, UpdateDecoderStatus, DecoderTaskTypeOK
  <1> QED
    BY <1>4, <1>5, <1>6, <1>7, <1>8, <1>9, <1>10 DEF DecoderTaskStep

(* The buttons are on or off. *)
LEMMA ButtonsTyped ==
  ASSUME NEW dev, NEW dec, UpdateActions(dev, dec)
  PROVE  actionListen' \in BOOLEAN /\ actionStop' \in BOOLEAN /\ pauseChecked' \in BOOLEAN
  <1>1. /\ actionListen' = (~Busy(dev, dec) /\ Acquiring(dev))
        /\ actionStop' = Busy(dev, dec)
        /\ pauseChecked' = (pauseChecked /\ Busy(dev, dec))
    BY DEF UpdateActions
  <1>2. Busy(dev, dec) \in BOOLEAN
    BY DEF Busy
  <1> QED
    BY <1>1, <1>2

(* ... the window, ... *)
LEMMA GuiTyped ==
  ASSUME TypeOK, GuiStep
  PROVE  CtlTypeOK' /\ WindowTypeOK'
  <1>0. /\ CtlTypeOK /\ WindowTypeOK /\ events \in Seq(Event) /\ deviceCommands \in Seq(Command)
        /\ decoderCommands \in Seq(Command) /\ storageClears \in Nat /\ ctl \in Ctl
        /\ actionListen \in BOOLEAN /\ actionStop \in BOOLEAN /\ pauseChecked \in BOOLEAN
        /\ asked \in Requests \cup {"nothing"}
        /\ radioDeviceStatus \in DeviceStatus /\ radioDecoderShown \in DecoderStatus
    BY DEF TypeOK, CtlTypeOK, WindowTypeOK
  <1>1. events # <<>> => Tail(events) \in Seq(Event) /\ Head(events) \in Event
    BY <1>0, QueuesTyped
  <1>2. CASE StatusEvent
    <2>1. CtlTypeOK'
      BY <1>0, <1>1, <1>2 DEF StatusEvent, CtlTypeOK
    <2>2. ASSUME NEW dev \in DeviceStatus, NEW dec \in DecoderStatus, Show(dev, dec),
                 UNCHANGED <<acquireTimer, starts, switches>>
          PROVE  WindowTypeOK'
      <3>1. /\ actionListen' \in BOOLEAN /\ actionStop' \in BOOLEAN /\ pauseChecked' \in BOOLEAN
        BY <1>0, <2>2, ButtonsTyped DEF Show
      <3>2. asked' \in Requests \cup {"nothing"}
        BY <1>0, <2>2 DEF Show
      <3> QED
        BY <1>0, <2>2, <3>1, <3>2 DEF Show, WindowTypeOK
    <2>3. PICK dev, dec : Show(dev, dec) /\ UNCHANGED <<acquireTimer, starts, switches>>
                          /\ \/ Head(events).kind = "device" /\ dev = Head(events).value
                                /\ dec = radioDecoderShown
                             \/ Head(events).kind = "decoder" /\ dec = Head(events).value
                                /\ dev = radioDeviceStatus
      BY <1>2 DEF StatusEvent
    <2>4. dev \in DeviceStatus /\ dec \in DecoderStatus
      BY <1>0, <1>1, <1>2, <2>3, EventsTyped DEF StatusEvent
    <2> QED
      BY <2>1, <2>2, <2>3, <2>4
  <1>3. CASE ControlEvent
    <2>1. UNCHANGED windowVars /\ events # <<>> /\ DecoderControlEvent(Head(events), Tail(events))
      BY <1>3 DEF ControlEvent
    <2>2. Head(events) \in Event /\ Tail(events) \in Seq(Event)
      BY <1>1, <2>1
    <2>3. WindowTypeOK'
      BY <1>0, <2>1 DEF windowVars, WindowTypeOK
    <2>4. ASSUME NEW code \in Codes, ToDevice(code, Tail(events)) PROVE CtlTypeOK'
      BY <1>0, <2>2, <2>4, WordsTyped, QueuesTyped DEF ToDevice, CtlTypeOK
    <2>5. ASSUME DoStartDecode(Tail(events)) PROVE CtlTypeOK'
      BY <1>0, <2>2, <2>5 DEF DoStartDecode, CtlTypeOK
    <2>6. ASSUME NEW flag \in Enabled, DoRadioDeviceConfig(flag, Tail(events)) PROVE CtlTypeOK'
      <3>1. ctl' \in Ctl
        BY <1>0, <2>6 DEF DoRadioDeviceConfig, Ctl, Apply
      <3>2. deviceCommands' \in Seq(Command)
        BY <1>0, <2>6, WordsTyped, QueuesTyped DEF DoRadioDeviceConfig
      <3> QED
        BY <1>0, <2>2, <2>6, <3>1, <3>2 DEF DoRadioDeviceConfig, CtlTypeOK
    <2>7. ASSUME NEW flag \in Enabled, DoRadioDecoderConfig(flag, Tail(events)) PROVE CtlTypeOK'
      <3>1. decoderCommands' \in Seq(Command)
        BY <1>0, <2>7, WordsTyped, QueuesTyped DEF DoRadioDecoderConfig
      <3> QED
        BY <1>0, <2>2, <2>7, <3>1 DEF DoRadioDecoderConfig, CtlTypeOK
    <2>8. CtlTypeOK'
      BY <2>1, <2>2, <2>4, <2>5, <2>6, <2>7, EventsTyped
         DEF DecoderControlEvent, DoStopDecode, DoPauseDecode, DoResumeDecode, Codes
    <2> QED
      BY <2>3, <2>8
  <1> QED
    BY <1>2, <1>3 DEF GuiStep

(* ... the user in front of it, ... *)
LEMMA UserTyped ==
  ASSUME TypeOK, UserStep
  PROVE  CtlTypeOK' /\ WindowTypeOK'
  <1>0. /\ CtlTypeOK /\ WindowTypeOK /\ events \in Seq(Event)
        /\ radioDeviceStatus \in DeviceStatus /\ radioDecoderShown \in DecoderStatus
        /\ actionListen \in BOOLEAN /\ actionStop \in BOOLEAN /\ pauseChecked \in BOOLEAN
        /\ (~pauseChecked) \in BOOLEAN /\ acquireTimer \in BOOLEAN
        /\ starts \in Nat /\ starts + 1 \in Nat /\ switches \in Nat /\ switches + 1 \in Nat
    BY DEF TypeOK, CtlTypeOK, WindowTypeOK
  <1>1. ASSUME NEW kind, NEW value, [kind |-> kind, value |-> value] \in Event, Post(kind, value)
        PROVE  CtlTypeOK'
    BY <1>0, <1>1, QueuesTyped DEF Post, CtlTypeOK
  <1>2. /\ \A code \in {"Start", "Stop", "Pause", "Resume"} : [kind |-> "control", value |-> code] \in Event
        /\ \A b : /\ [kind |-> "deviceConfig", value |-> Flag(b)] \in Event
                  /\ [kind |-> "decoderConfig", value |-> Flag(b)] \in Event
    BY WordsTyped DEF Event
  <1>3. CtlTypeOK'
    BY <1>1, <1>2 DEF UserStep, ToggleStart, ToggleStop, TogglePause, ToggleAcquire, ToggleDecoder
  <1>4. asked' \in Requests
    BY DEF UserStep, ToggleStart, ToggleStop, TogglePause, ToggleAcquire, ToggleDecoder, Requests
  <1>5. actionListen' \in BOOLEAN /\ actionStop' \in BOOLEAN /\ pauseChecked' \in BOOLEAN
    BY <1>0, ButtonsTyped
       DEF UserStep, ToggleStart, ToggleStop, TogglePause, ToggleAcquire, ToggleDecoder
  <1>6. /\ acquireTimer' \in BOOLEAN /\ starts' \in Nat /\ switches' \in Nat
        /\ UNCHANGED <<radioDeviceStatus, radioDecoderShown>>
    BY <1>0 DEF UserStep, ToggleStart, ToggleStop, TogglePause, ToggleAcquire, ToggleDecoder
  <1> QED
    BY <1>0, <1>3, <1>4, <1>5, <1>6 DEF WindowTypeOK

(* The step of each thread, and of the bus, keeps the types. *)
LEMMA StepTyped == TypeOK /\ [Next]_vars => TypeOK'
  <1> SUFFICES ASSUME TypeOK, [Next]_vars PROVE TypeOK'
    OBVIOUS
  <1>0. /\ DriverTypeOK /\ DeviceTaskTypeOK /\ DecoderTaskTypeOK /\ CtlTypeOK /\ WindowTypeOK
        /\ since \in Nat /\ raw \in Buffer /\ device \in Driver /\ signalQueue \in Seq(Buffer)
        /\ radioSignalQueue \in Seq(Buffer)
    BY DEF TypeOK, DriverTypeOK, DeviceTaskTypeOK, DecoderTaskTypeOK
  <1>1. UNCHANGED driverVars => DriverTypeOK'
    BY <1>0 DEF driverVars, DriverTypeOK
  <1>2. UNCHANGED deviceTaskVars => DeviceTaskTypeOK'
    BY <1>0 DEF deviceTaskVars, DeviceTaskTypeOK
  <1>3. UNCHANGED decoderTaskVars => DecoderTaskTypeOK'
    BY <1>0 DEF decoderTaskVars, DecoderTaskTypeOK
  <1>4. UNCHANGED ctlVars => CtlTypeOK'
    BY <1>0 DEF ctlVars, CtlTypeOK
  <1>5. UNCHANGED windowVars => WindowTypeOK'
    BY <1>0 DEF windowVars, WindowTypeOK
  <1>6. UNCHANGED since => since' \in Nat
    BY <1>0
  <1> HIDE DEF TypeOK
  <1>7. CASE DeviceTaskStep /\ UNCHANGED <<decoderTaskVars, windowVars, since>>
    BY <1>3, <1>5, <1>6, <1>7, DeviceTyped DEF TypeOK
  <1>8. CASE DeliverRaw \/ EnqueueRaw
    <2>1. /\ UNCHANGED <<radioReceiverEnabled, radioReceiverStatus, receiverGainAuto, raw>>
          /\ UNCHANGED <<driverVars, ctlVars, windowVars, since>>
          /\ dpc' \in DevicePc
      BY <1>8 DEF DeliverRaw, EnqueueRaw, DevicePc
    <2>2. DeviceTaskTypeOK'
      BY <1>0, <2>1 DEF DeviceTaskTypeOK
    <2>3. DecoderTaskTypeOK'
      <3>1. radioSignalQueue' \in Seq(Buffer)
        BY <1>0, <1>8, QueuesTyped DEF DeliverRaw, EnqueueRaw, decoderTaskVars
      <3> QED
        BY <1>0, <1>8, <3>1 DEF DeliverRaw, EnqueueRaw, DecoderTaskTypeOK, decoderTaskVars
    <2> QED
      BY <1>1, <1>4, <1>5, <1>6, <2>1, <2>2, <2>3 DEF TypeOK
  <1>9. CASE DecoderThread
    <2>1. since' \in Nat
      BY <1>0, <1>9, MethodsTyped DEF DecoderThread
    <2> QED
      BY <1>1, <1>2, <1>5, <1>9, <2>1, DecoderTyped DEF DecoderThread, TypeOK
  <1>10. CASE StorageThread
    <2>1. CtlTypeOK'
      <3>1. Request("Start") \in Command
        BY WordsTyped DEF Codes
      <3>2. deviceCommands' \in Seq(Command) /\ decoderCommands' \in Seq(Command)
        BY <1>0, <1>10, <3>1, QueuesTyped DEF StorageThread, StartDecoders, CtlTypeOK
      <3> QED
        BY <1>0, <1>10, <3>2 DEF StorageThread, StartDecoders, CtlTypeOK
    <2> QED
      BY <1>1, <1>2, <1>3, <1>5, <1>6, <1>10, <2>1 DEF StorageThread, TypeOK
  <1>11. CASE GuiThread
    BY <1>1, <1>2, <1>3, <1>6, <1>11, GuiTyped DEF GuiThread, TypeOK
  <1>12. CASE User
    BY <1>1, <1>2, <1>3, <1>6, <1>12, UserTyped DEF User, TypeOK
  <1>13. CASE Usb
    <2>1. device' \in Driver
      BY <1>0, <1>13, MethodsTyped DEF Usb, Transfer, Unplug, Plug
    <2>2. signalQueue' \in Seq(Buffer)
      <3>1. device.stream \in Nat /\ device.received \in Nat
        BY <1>0 DEF Driver
      <3>2. Data(device.stream, device.received) \in Buffer
        BY <3>1 DEF Data, Buffer, Samples
      <3>3. Append(signalQueue, Data(device.stream, device.received)) \in Seq(Buffer)
        BY <1>0, <3>2
      <3> QED
        BY <1>0, <1>13, <3>3 DEF Usb, Transfer, Unplug, Plug
    <2>3. plugged' \in BOOLEAN /\ unplugs' \in Nat
      <3>1. plugged \in BOOLEAN /\ unplugs \in Nat /\ unplugs + 1 \in Nat
        BY <1>0 DEF DriverTypeOK
      <3> QED
        BY <1>13, <3>1 DEF Usb, Transfer, Unplug, Plug
    <2> QED
      BY <1>2, <1>3, <1>4, <1>5, <1>6, <1>13, <2>1, <2>2, <2>3 DEF Usb, TypeOK, DriverTypeOK
  <1>14. CASE UNCHANGED vars
    BY <1>1, <1>2, <1>3, <1>4, <1>5, <1>6, <1>14 DEF vars, TypeOK
  <1> QED
    BY <1>7, <1>8, <1>9, <1>10, <1>11, <1>12, <1>13, <1>14 DEF Next, DeviceThread

LEMMA InitTyped == Init => TypeOK
  <1> SUFFICES ASSUME Init PROVE TypeOK
    OBVIOUS
  <1>1. DriverTypeOK
    BY DEF Init, DriverInit, DriverTypeOK, Opened, Driver
  <1>2. DeviceTaskTypeOK
    BY DEF Init, DeviceTaskInit, DeviceTaskTypeOK, DevicePc, ReceiverStatus, EndOfStream, Buffer,
           NoSamples, Samples
  <1>3. DecoderTaskTypeOK
    BY DEF Init, DecoderTaskInit, DecoderTaskTypeOK, NoSamples, Samples
  <1>4. CtlTypeOK
    BY DEF Init, CtlInit, CtlTypeOK, Ctl
  <1>5. WindowTypeOK
    BY DEF Init, WindowInit, WindowTypeOK, DeviceStatus, DecoderStatus
  <1> QED
    BY <1>1, <1>2, <1>3, <1>4, <1>5 DEF Init, TypeOK

(***************************************************************************)
(* The types hold: RadioDeviceTask, RadioDecoderTask, QtControl and the    *)
(* window exchange only what the other side handles, whatever the user     *)
(* does and however often the receiver is removed.                         *)
(***************************************************************************)
THEOREM TypeCorrect == Spec => []TypeOK
  BY InitTyped, StepTyped, PTL DEF Spec

-----------------------------------------------------------------------------
(* Queues *)

(* What is where in a sequence that grows or that loses its first element. *)
LEMMA Places ==
  ASSUME NEW S, NEW s \in Seq(S)
  PROVE  /\ Len(s) \in Nat
         /\ \A e \in S : /\ Len(Append(s, e)) = Len(s) + 1
                         /\ \A i \in 1..Len(s) : Append(s, e)[i] = s[i]
                         /\ Append(s, e)[Len(s) + 1] = e
         /\ s # <<>> => /\ Head(s) = s[1] /\ Len(s) > 0 /\ Len(Tail(s)) = Len(s) - 1
                        /\ \A i \in 1..Len(s) - 1 : Tail(s)[i] = s[i + 1]
         /\ s = <<>> <=> Len(s) = 0
  <1>1. s # <<>> => /\ Head(s) = s[1] /\ Len(s) > 0 /\ Len(Tail(s)) = Len(s) - 1
                    /\ \A i \in 1..Len(s) - 1 : Tail(s)[i] = s[i + 1]
    BY HeadTailProperties
  <1>2. \A e \in S : /\ Len(Append(s, e)) = Len(s) + 1
                     /\ \A i \in 1..Len(s) : Append(s, e)[i] = s[i]
                     /\ Append(s, e)[Len(s) + 1] = e
    OBVIOUS
  <1>3. Len(s) \in Nat /\ (s = <<>> <=> Len(s) = 0)
    BY EmptySeq
  <1> QED
    BY <1>1, <1>2, <1>3

(* Noise added to noise is noise, ... *)
LEMMA WithoutGrows ==
  ASSUME NEW S, NEW s \in Seq(S), NEW noise, NEW e \in S, e \in noise
  PROVE  /\ Without(s, noise) => Without(Append(s, e), noise)
         /\ \A item : With(s, item, noise) => With(Append(s, e), item, noise)
  <1>1. /\ Len(s) \in Nat /\ Len(Append(s, e)) = Len(s) + 1
        /\ \A i \in 1..Len(s) : Append(s, e)[i] = s[i]
        /\ Append(s, e)[Len(s) + 1] = e
    BY Places
  <1>2. \A i \in 1..Len(Append(s, e)) : i \in 1..Len(s) \/ i = Len(s) + 1
    BY <1>1
  <1>3. Without(s, noise) => Without(Append(s, e), noise)
    BY <1>1, <1>2 DEF Without
  <1>4. ASSUME NEW item, With(s, item, noise) PROVE With(Append(s, e), item, noise)
    <2>1. PICK m \in 1..Len(s) : s[m] = item /\ \A i \in 1..Len(s) : i # m => s[i] \in noise
      BY <1>4 DEF With
    <2>2. m \in 1..Len(Append(s, e)) /\ Append(s, e)[m] = item
      BY <1>1, <2>1
    <2> QED
      BY <1>1, <1>2, <2>1, <2>2 DEF With
  <1> QED
    BY <1>3, <1>4

(* ... an item added to noise is the single one, ... *)
LEMMA WithJoins ==
  ASSUME NEW S, NEW s \in Seq(S), NEW noise, NEW item \in S, Without(s, noise)
  PROVE  With(Append(s, item), item, noise)
  <1>1. /\ Len(s) \in Nat /\ Len(Append(s, item)) = Len(s) + 1
        /\ \A i \in 1..Len(s) : Append(s, item)[i] = s[i]
        /\ Append(s, item)[Len(s) + 1] = item
    BY Places
  <1>2. \A i \in 1..Len(Append(s, item)) : i # Len(s) + 1 => i \in 1..Len(s)
    BY <1>1
  <1>3. Len(s) + 1 \in 1..Len(Append(s, item))
    BY <1>1
  <1> QED
    BY <1>1, <1>2, <1>3 DEF Without, With

(* ... and it stays the single one until it is taken. *)
LEMMA Taken ==
  ASSUME NEW S, NEW s \in Seq(S), NEW noise, s # <<>>
  PROVE  /\ Without(s, noise) => Head(s) \in noise /\ Without(Tail(s), noise)
         /\ \A item : With(s, item, noise) =>
              \/ Head(s) \in noise /\ With(Tail(s), item, noise)
              \/ Head(s) = item /\ Without(Tail(s), noise)
  <1>1. /\ Head(s) = s[1] /\ Len(s) > 0 /\ Len(s) \in Nat /\ Len(Tail(s)) = Len(s) - 1
        /\ \A i \in 1..Len(s) - 1 : Tail(s)[i] = s[i + 1]
    BY Places
  <1>2. \A i \in 1..Len(Tail(s)) : i + 1 \in 1..Len(s) /\ Tail(s)[i] = s[i + 1] /\ i + 1 # 1
    BY <1>1
  <1>3. 1 \in 1..Len(s)
    BY <1>1
  <1>4. Without(s, noise) => Head(s) \in noise /\ Without(Tail(s), noise)
    BY <1>1, <1>2, <1>3 DEF Without
  <1>5. ASSUME NEW item, With(s, item, noise)
        PROVE  \/ Head(s) \in noise /\ With(Tail(s), item, noise)
               \/ Head(s) = item /\ Without(Tail(s), noise)
    <2>1. PICK m \in 1..Len(s) : s[m] = item /\ \A i \in 1..Len(s) : i # m => s[i] \in noise
      BY <1>5 DEF With
    <2>2. CASE m = 1
      BY <1>1, <1>2, <2>1, <2>2 DEF Without
    <2>3. CASE m # 1
      <3>1. m - 1 \in 1..Len(Tail(s)) /\ Tail(s)[m - 1] = item
        BY <1>1, <2>1, <2>3
      <3>2. \A i \in 1..Len(Tail(s)) : i # m - 1 => Tail(s)[i] \in noise
        BY <1>1, <1>2, <2>1
      <3>3. Head(s) \in noise
        BY <1>1, <1>3, <2>1, <2>3
      <3> QED
        BY <3>1, <3>2, <3>3 DEF With
    <2> QED
      BY <2>2, <2>3
  <1> QED
    BY <1>4, <1>5

(* The order in which the words of a task may follow one another is one. *)
LEMMA LeadsOrders ==
  ASSUME NEW kind, NEW request, NEW u, NEW v, NEW w
  PROVE  /\ Leads(kind, request, v, v)
         /\ Leads(kind, request, u, v) /\ Leads(kind, request, v, w) => Leads(kind, request, u, w)
         /\ Leads(kind, request, u, v) /\ Leads(kind, request, v, u) => u = v
         /\ Leads(kind, "nothing", u, v) => u = v
  BY DEF Leads

(* Another event does not change what is told of a task, ... *)
LEMMA StoryGoesOn ==
  ASSUME NEW ev \in Seq(Event), NEW e \in Event, NEW kind, NEW request, NEW shown, NEW word,
         e.kind # kind, Story(ev, kind, request, shown, word)
  PROVE  Story(Append(ev, e), kind, request, shown, word)
  <1>1. /\ Len(ev) \in Nat /\ Len(Append(ev, e)) = Len(ev) + 1
        /\ \A i \in 1..Len(ev) : Append(ev, e)[i] = ev[i]
        /\ Append(ev, e)[Len(ev) + 1] = e
    BY Places
  <1>2. \A i \in 1..Len(Append(ev, e)) : Append(ev, e)[i].kind = kind => i \in 1..Len(ev)
    BY <1>1
  <1>3. 1..Len(ev) \subseteq 1..Len(Append(ev, e))
    BY <1>1
  <1> QED
    BY <1>1, <1>2, <1>3 DEF Story

(* ... a status that may follow the last one continues it, ... *)
LEMMA StoryTells ==
  ASSUME NEW ev \in Seq(Event), NEW kind, NEW request, NEW shown, NEW word, NEW next,
         [kind |-> kind, value |-> next] \in Event,
         Leads(kind, request, word, next), Story(ev, kind, request, shown, word)
  PROVE  Story(Append(ev, [kind |-> kind, value |-> next]), kind, request, shown, next)
  <1> DEFINE e == [kind |-> kind, value |-> next]
             longer == Append(ev, e)
  <1>1. /\ Len(ev) \in Nat /\ Len(longer) = Len(ev) + 1
        /\ \A i \in 1..Len(ev) : longer[i] = ev[i]
        /\ longer[Len(ev) + 1] = e
    BY Places
  <1>2. e.kind = kind /\ e.value = next
    OBVIOUS
  <1> HIDE DEF e, longer
  <1>3. \A i \in 1..Len(longer) : i \in 1..Len(ev) \/ (i = Len(ev) + 1 /\ longer[i] = e)
    BY <1>1
  <1>4. Leads(kind, request, shown, next)
    BY LeadsOrders DEF Story
  <1>5. \A i \in 1..Len(longer) : longer[i].kind = kind =>
          /\ Leads(kind, request, shown, longer[i].value)
          /\ Leads(kind, request, longer[i].value, next)
    <2> SUFFICES ASSUME NEW i \in 1..Len(longer), longer[i].kind = kind
                 PROVE  /\ Leads(kind, request, shown, longer[i].value)
                        /\ Leads(kind, request, longer[i].value, next)
      OBVIOUS
    <2>1. CASE i \in 1..Len(ev)
      <3>1. /\ Leads(kind, request, shown, longer[i].value)
            /\ Leads(kind, request, longer[i].value, word)
        BY <1>1, <2>1 DEF Story
      <3> QED
        BY <3>1, LeadsOrders
    <2>2. CASE longer[i] = e
      BY <1>2, <1>4, <2>2, LeadsOrders
    <2> QED
      BY <1>3, <2>1, <2>2
  <1>6. ASSUME NEW i \in 1..Len(longer), NEW j \in 1..Len(longer), i < j,
               longer[i].kind = kind, longer[j].kind = kind
        PROVE  Leads(kind, request, longer[i].value, longer[j].value)
    <2>1. CASE j \in 1..Len(ev)
      <3>1. i \in 1..Len(ev)
        BY <1>1, <1>6, <2>1
      <3> QED
        BY <1>1, <1>6, <2>1, <3>1 DEF Story
    <2>2. CASE longer[j] = e
      BY <1>2, <1>5, <1>6, <2>2
    <2> QED
      BY <1>3, <2>1, <2>2
  <1>7. \E i \in 1..Len(longer) : longer[i].kind = kind /\ longer[i].value = next
    <2>1. Len(ev) + 1 \in 1..Len(longer)
      BY <1>1
    <2> QED
      BY <1>1, <1>2, <2>1
  <1>8. Story(longer, kind, request, shown, next)
    BY <1>4, <1>5, <1>6, <1>7 DEF Story
  <1> QED
    BY <1>8 DEF longer, e

(* ... and what is shown of it is told no more. *)
LEMMA StoryShows ==
  ASSUME NEW ev \in Seq(Event), NEW kind, NEW request, NEW shown, NEW word,
         ev # <<>>, Story(ev, kind, request, shown, word)
  PROVE  /\ Head(ev).kind = kind => /\ Story(Tail(ev), kind, request, Head(ev).value, word)
                                    /\ Leads(kind, request, shown, Head(ev).value)
                                    /\ Leads(kind, request, Head(ev).value, word)
         /\ Head(ev).kind # kind => Story(Tail(ev), kind, request, shown, word)
  <1>1. /\ Head(ev) = ev[1] /\ Len(ev) \in Nat /\ Len(ev) > 0 /\ Len(Tail(ev)) = Len(ev) - 1
        /\ \A i \in 1..Len(ev) - 1 : Tail(ev)[i] = ev[i + 1]
    BY Places
  <1>2. /\ 1 \in 1..Len(ev)
        /\ \A i \in 1..Len(Tail(ev)) : i + 1 \in 1..Len(ev) /\ 1 < i + 1 /\ Tail(ev)[i] = ev[i + 1]
        /\ \A i \in 1..Len(ev) : i # 1 => i - 1 \in 1..Len(Tail(ev)) /\ Tail(ev)[i - 1] = ev[i]
    BY <1>1
  <1>3. \A i, j \in 1..Len(Tail(ev)) : i < j /\ Tail(ev)[i].kind = kind /\ Tail(ev)[j].kind = kind =>
          Leads(kind, request, Tail(ev)[i].value, Tail(ev)[j].value)
    <2>1. \A i, j \in 1..Len(Tail(ev)) : i < j => i + 1 < j + 1
      BY <1>1
    <2> QED
      BY <1>2, <2>1 DEF Story
  <1>4. ASSUME Head(ev).kind = kind
        PROVE  /\ Story(Tail(ev), kind, request, Head(ev).value, word)
               /\ Leads(kind, request, shown, Head(ev).value)
               /\ Leads(kind, request, Head(ev).value, word)
    <2> DEFINE v == Head(ev).value
    <2>1. Leads(kind, request, shown, v) /\ Leads(kind, request, v, word)
      BY <1>1, <1>2, <1>4 DEF Story
    <2>2. \A i \in 1..Len(Tail(ev)) : Tail(ev)[i].kind = kind =>
            /\ Leads(kind, request, v, Tail(ev)[i].value)
            /\ Leads(kind, request, Tail(ev)[i].value, word)
      BY <1>1, <1>2, <1>4 DEF Story
    <2>3. v = word \/ \E i \in 1..Len(Tail(ev)) : Tail(ev)[i].kind = kind /\ Tail(ev)[i].value = word
      <3>1. CASE shown = word
        BY <2>1, <3>1, LeadsOrders
      <3>2. ASSUME NEW i \in 1..Len(ev), ev[i].kind = kind, ev[i].value = word
            PROVE  v = word \/ \E n \in 1..Len(Tail(ev)) : Tail(ev)[n].kind = kind /\ Tail(ev)[n].value = word
        BY <1>1, <1>2, <3>2
      <3> QED
        BY <3>1, <3>2 DEF Story
    <2> QED
      BY <1>3, <2>1, <2>2, <2>3 DEF Story
  <1>5. ASSUME Head(ev).kind # kind
        PROVE  Story(Tail(ev), kind, request, shown, word)
    <2>1. \A i \in 1..Len(Tail(ev)) : Tail(ev)[i].kind = kind =>
            /\ Leads(kind, request, shown, Tail(ev)[i].value)
            /\ Leads(kind, request, Tail(ev)[i].value, word)
      BY <1>2 DEF Story
    <2>2. shown = word \/ \E i \in 1..Len(Tail(ev)) : Tail(ev)[i].kind = kind /\ Tail(ev)[i].value = word
      BY <1>1, <1>2, <1>5 DEF Story
    <2> QED
      BY <1>3, <2>1, <2>2 DEF Story
  <1> QED
    BY <1>4, <1>5

(* A story at its end is one of no request, and so of any other. *)
LEMMA StoryEnds ==
  ASSUME NEW ev \in Seq(Event), NEW kind, NEW request, NEW shown, NEW word,
         Story(ev, kind, request, shown, word),
         \A w : Leads(kind, request, shown, w) => w = shown
  PROVE  shown = word /\ \A other : Story(ev, kind, other, shown, word)
  <1>1. shown = word /\ \A i \in 1..Len(ev) : ev[i].kind = kind => ev[i].value = word
    BY DEF Story
  <1>2. ASSUME NEW other PROVE Story(ev, kind, other, shown, word)
    BY <1>1, LeadsOrders DEF Story
  <1> QED
    BY <1>1, <1>2

(* With nothing left to read, the status shows. *)
LEMMA StoryTold ==
  ASSUME NEW kind, NEW request, NEW shown, NEW word, Story(<<>>, kind, request, shown, word)
  PROVE  shown = word
  BY DEF Story

-----------------------------------------------------------------------------
(* What a step leaves as it is *)

Keeps(before, after, noise) ==
  /\ Without(before, noise) => Without(after, noise)
  /\ \A item : item \notin noise /\ With(before, item, noise) => With(after, item, noise)

PlacesKept ==
  /\ AtGui => AtGui'
  /\ AtStorage => AtStorage'
  /\ AtDecoder => AtDecoder'
  /\ AtDevice => AtDevice'
  /\ Nowhere => Nowhere'

PhasesKept ==
  /\ Off => Off'
  /\ Awaiting => Awaiting'
  /\ On => On'
  /\ Ending => Ending'
  /\ cpc # "starting" => cpc' # "starting"

(* No request is noise. *)
LEMMA RequestsStandOut ==
  ASSUME NEW request
  PROVE  /\ Posted(request) \notin Reports /\ Posted(request).kind \notin {"device", "decoder"}
         /\ Ordered(request) \notin Forwards
  <1>1. Posted(request).kind \notin {"device", "decoder"}
    BY DEF Posted
  <1>2. \A r \in Reports : r.kind \in {"device", "decoder"}
    BY DEF Reports
  <1>3. Ordered(request) \notin Forwards
    BY DEF Ordered, Forwards, Configure, Request
  <1> QED
    BY <1>1, <1>2, <1>3

(* A request stays where it is while only noise comes and goes. *)
LEMMA NoisePasses ==
  ASSUME UNCHANGED <<asked, storageClears, deviceCommands>>,
         Keeps(events, events', Reports), Keeps(decoderCommands, decoderCommands', Forwards)
  PROVE  PlacesKept
  <1> USE RequestsStandOut DEF Keeps
  <1>1. AtGui => AtGui'
    BY DEF AtGui
  <1>2. AtStorage => AtStorage'
    BY DEF AtStorage
  <1>3. AtDecoder => AtDecoder'
    BY DEF AtDecoder
  <1>4. AtDevice => AtDevice'
    BY DEF AtDevice
  <1>5. Nowhere => Nowhere'
    BY DEF Nowhere
  <1> QED
    BY <1>1, <1>2, <1>3, <1>4, <1>5 DEF PlacesKept

LEMMA KeepsItself ==
  ASSUME NEW s, NEW noise
  PROVE  Keeps(s, s, noise)
  BY DEF Keeps

LEMMA KeepsWithMore ==
  ASSUME NEW S, NEW s \in Seq(S), NEW noise, NEW e \in S, e \in noise
  PROVE  Keeps(s, Append(s, e), noise)
  BY WithoutGrows DEF Keeps

LEMMA KeepsWithLess ==
  ASSUME NEW S, NEW s \in Seq(S), NEW noise, s # <<>>, Head(s) \in noise
  PROVE  Keeps(s, Tail(s), noise)
  BY Taken DEF Keeps

(* A stage lasts while the request and the phase do. *)
LEMMA StageLasts ==
  ASSUME Stages, PlacesKept, PhasesKept,
         UNCHANGED <<asked, radioReceiverEnabled, radioDecoderEnabled>>,
         device'.paused = device.paused
  PROVE  Stages'
  <1> USE DEF PlacesKept, PhasesKept
  <1>1. Running => Running'
    BY DEF Running
  <1>2. Waits => Waits'
    BY <1>1 DEF Waits
  <1>3. Starts => Starts'
    BY DEF Starts
  <1>4. Stops => Stops'
    BY <1>1 DEF Stops
  <1>5. Pauses => Pauses'
    BY <1>1 DEF Pauses
  <1>6. Configures => Configures'
    BY DEF Configures
  <1>7. ConfiguresDecoder => ConfiguresDecoder'
    BY DEF ConfiguresDecoder
  <1> QED
    BY <1>2, <1>3, <1>4, <1>5, <1>6, <1>7 DEF Stages

(* The fields of the driver after each method, of a receiver that is there. *)
LEMMA Methods ==
  ASSUME NEW d \in Driver, d.open, d.attached
  PROVE  /\ ~d.streaming =>
              /\ StartRx(d).open /\ StartRx(d).attached /\ StartRx(d).streaming /\ StartRx(d).callback
              /\ ~StartRx(d).paused /\ StartRx(d).received = 0 /\ StartRx(d).stream = d.stream + 1
         /\ d.callback =>
              /\ StopRx(d).open /\ StopRx(d).attached /\ ~StopRx(d).streaming /\ ~StopRx(d).callback
              /\ ~StopRx(d).paused /\ StopRx(d).received = d.received /\ StopRx(d).stream = d.stream
         /\ d.callback =>
              /\ PauseRx(d).open /\ PauseRx(d).attached /\ ~PauseRx(d).streaming /\ PauseRx(d).callback
              /\ PauseRx(d).paused /\ PauseRx(d).received = d.received /\ PauseRx(d).stream = d.stream
         /\ d.callback /\ d.paused =>
              /\ ResumeRx(d).open /\ ResumeRx(d).attached /\ ResumeRx(d).streaming
              /\ ResumeRx(d).callback /\ ~ResumeRx(d).paused
              /\ ResumeRx(d).received = d.received /\ ResumeRx(d).stream = d.stream
  <1>1. ASSUME ~d.streaming
        PROVE  /\ StartRx(d).open /\ StartRx(d).attached /\ StartRx(d).streaming /\ StartRx(d).callback
               /\ ~StartRx(d).paused /\ StartRx(d).received = 0 /\ StartRx(d).stream = d.stream + 1
    <2>1. StartRx(d) = [d EXCEPT !.streaming = TRUE, !.callback = TRUE, !.paused = FALSE, !.received = 0,
                                 !.stream = d.stream + 1, !.streamTime = d.stream + 1]
      BY <1>1 DEF StartRx
    <2>2. StartRx(d) = [open |-> d.open, attached |-> d.attached, streaming |-> TRUE, callback |-> TRUE,
                        paused |-> FALSE, stream |-> d.stream + 1, received |-> 0,
                        streamTime |-> d.stream + 1]
      BY <2>1 DEF Driver
    <2> QED
      BY <2>2
  <1>2. d.callback =>
          /\ StopRx(d).open /\ StopRx(d).attached /\ ~StopRx(d).streaming /\ ~StopRx(d).callback
          /\ ~StopRx(d).paused /\ StopRx(d).received = d.received /\ StopRx(d).stream = d.stream
    BY DEF StopRx, Driver
  <1>3. d.callback =>
          /\ PauseRx(d).open /\ PauseRx(d).attached /\ ~PauseRx(d).streaming /\ PauseRx(d).callback
          /\ PauseRx(d).paused /\ PauseRx(d).received = d.received /\ PauseRx(d).stream = d.stream
    BY DEF PauseRx, Driver
  <1>4. d.callback /\ d.paused =>
          /\ ResumeRx(d).open /\ ResumeRx(d).attached /\ ResumeRx(d).streaming
          /\ ResumeRx(d).callback /\ ~ResumeRx(d).paused
          /\ ResumeRx(d).received = d.received /\ ResumeRx(d).stream = d.stream
    BY DEF ResumeRx, Driver
  <1> QED
    BY <1>1, <1>2, <1>3, <1>4

(* The tasks go on, and no one is told: the request, the two statuses and    *)
(* the window are what they were.                                            *)
LEMMA Unnoticed ==
  ASSUME TypeOK, TypeOK', Fixed, Stages, Stories, Buttons, PhasesKept,
         UNCHANGED <<ctlVars, windowVars, radioReceiverEnabled, radioReceiverStatus,
                     radioDecoderEnabled, radioDecoderStatus, plugged, since>>,
         device' = device \/ device' = [device EXCEPT !.received = @ + 1],
         dpc' # "command" => radioReceiverEnabled
  PROVE  Inv'
  <1>1. /\ device'.open = device.open /\ device'.attached = device.attached
        /\ device'.streaming = device.streaming /\ device'.callback = device.callback
        /\ device'.paused = device.paused /\ device'.stream = device.stream
    <2>1. device \in Driver
      BY DEF TypeOK, DriverTypeOK
    <2> QED
      BY <2>1 DEF Driver
  <1>2. /\ UNCHANGED <<deviceCommands, decoderCommands, events, storageClears, ctl>>
        /\ UNCHANGED <<radioDeviceStatus, radioDecoderShown, actionListen, actionStop, pauseChecked,
                       acquireTimer, asked>>
    BY DEF ctlVars, windowVars
  <1>3. Fixed'
    BY <1>1, <1>2 DEF Fixed
  <1>4. Stages'
    BY <1>1, <1>2, KeepsItself, NoisePasses, StageLasts
  <1>5. DeviceWord' = DeviceWord /\ DecoderWord' = DecoderWord
    BY <1>1 DEF DeviceWord, DecoderWord, StatusOf
  <1>6. Stories'
    BY <1>2, <1>5 DEF Stories, DeviceStory, DecoderStory
  <1>7. Buttons'
    BY <1>1, <1>2 DEF Buttons, FeaturesEnabled
  <1> QED
    BY <1>3, <1>4, <1>6, <1>7 DEF Inv

-----------------------------------------------------------------------------
(* The steps nobody notices *)

LEMMA PhasesLast ==
  ASSUME UNCHANGED <<radioReceiverEnabled, radioDecoderEnabled, since>>,
         device'.stream = device.stream, cpc # "starting" => cpc' # "starting",
         Resting => Resting', Shut => Shut',
         Resting /\ (Opening \/ Fresh) => Opening' \/ Fresh',
         Live /\ Upstream => Live' /\ Upstream',
         Live /\ Upstream /\ (Opening \/ Listening) => Opening' \/ Listening',
         Flushing /\ Upstream => Resting' \/ (Flushing' /\ Upstream'),
         Ending /\ radioDecoderEnabled => IF EndSent' THEN Shut' \/ Finishing' ELSE Listening'
  PROVE  PhasesKept
  <1>1. Off => Off'
    BY DEF Off
  <1>2. Awaiting => Awaiting'
    BY DEF Awaiting
  <1>3. On => On'
    BY DEF On
  <1>4. Ending => Ending'
    BY DEF Ending
  <1> QED
    BY <1>1, <1>2, <1>3, <1>4 DEF PhasesKept

(* A pass of loop() with nothing to publish. *)
LEMMA LoopPasses ==
  ASSUME dpc \in {"command", "refresh", "queue"}, dpc' \in {"command", "refresh", "queue"},
         UNCHANGED <<device, signalQueue, raw, radioReceiverEnabled, radioReceiverStatus,
                     decoderTaskVars, since>>
  PROVE  PhasesKept
  <1> USE DEF decoderTaskVars
  <1>1. (Resting => Resting') /\ (Live => Live') /\ (Flushing => Flushing') /\ (EndSent <=> EndSent')
    BY DEF Resting, Live, Flushing, Publishing, Halted, EndSent
  <1>2. (Shut => Shut') /\ (Opening => Opening') /\ (Fresh => Fresh')
    BY DEF Shut, Opening, Fresh, Open
  <1>3. InHand' = InHand /\ Handed' = Handed
    BY DEF Handed, InHand
  <1>4. Upstream => Upstream'
    BY <1>3 DEF Upstream
  <1>5. (Listening => Listening') /\ (Finishing => Finishing')
    BY <1>3 DEF Listening, Finishing, Open, Downstream
  <1>6. Ending /\ radioDecoderEnabled => IF EndSent' THEN Shut' \/ Finishing' ELSE Listening'
    BY <1>1, <1>2, <1>5 DEF Ending
  <1> QED
    BY <1>1, <1>2, <1>4, <1>5, <1>6, PhasesLast

(* processQueue takes the next buffer, ... *)
LEMMA BufferTaken ==
  ASSUME TypeOK, PublishBuffer, UNCHANGED <<decoderTaskVars, since>>
  PROVE  PhasesKept
  <1> USE DEF decoderTaskVars, PublishBuffer
  <1>0. /\ signalQueue \in Seq(Buffer) /\ device.received \in Nat
    BY DEF TypeOK, DriverTypeOK, Driver
  <1>1. /\ Head(signalQueue) = signalQueue[1] /\ Len(signalQueue) > 0 /\ Len(signalQueue) \in Nat
        /\ Len(Tail(signalQueue)) = Len(signalQueue) - 1
        /\ \A i \in 1..Len(signalQueue) - 1 : Tail(signalQueue)[i] = signalQueue[i + 1]
    BY <1>0, Places
  <1>2. ASSUME Upstream
        PROVE  raw'.kind = "data" /\ InHand = 0 /\ InHand' = 1 /\ Handed' = Handed /\ Upstream'
    <2>1. raw' = Data(device.stream, device.received - Len(signalQueue)) /\ raw'.kind = "data"
      <3>1. signalQueue[1] = Data(device.stream, device.received - Len(signalQueue) + 1 - 1)
        BY <1>1, <1>2 DEF Upstream
      <3>2. device.received - Len(signalQueue) + 1 - 1 = device.received - Len(signalQueue)
        BY <1>0, <1>1
      <3> QED
        BY <1>1, <3>1, <3>2 DEF Data
    <2>2. InHand = 0 /\ InHand' = 1
      BY <2>1 DEF InHand
    <2>3. Handed' = Handed /\ Handed = device.received - Len(signalQueue)
      BY <1>0, <1>1, <2>2 DEF Handed
    <2>4. \A i \in 1..Len(signalQueue') : /\ i + 1 \in 1..Len(signalQueue) /\ signalQueue'[i] = signalQueue[i + 1]
                                          /\ device.received - Len(signalQueue) + (i + 1) - 1
                                             = device.received - Len(signalQueue') + i - 1
      BY <1>0, <1>1
    <2>5. \A i \in 1..Len(signalQueue') :
            signalQueue'[i] = Data(device.stream, device.received - Len(signalQueue') + i - 1)
      BY <1>2, <2>4 DEF Upstream
    <2> QED
      BY <2>1, <2>2, <2>3, <2>5 DEF Upstream
  <1>3. ~Resting /\ ~EndSent
    BY DEF Resting, EndSent
  <1>4. (Live /\ Upstream => Live') /\ (Flushing /\ Upstream => Flushing') /\ ~EndSent'
    BY <1>2 DEF Live, Flushing, Publishing, Halted, EndSent, Resting
  <1>5. (Shut => Shut') /\ (Opening => Opening')
    BY DEF Shut, Opening
  <1>6. Upstream /\ Listening => Listening'
    BY <1>2 DEF Listening, Open, Downstream
  <1>7. Ending /\ radioDecoderEnabled => IF EndSent' THEN Shut' \/ Finishing' ELSE Listening'
    BY <1>3, <1>4, <1>6 DEF Ending
  <1> QED
    BY <1>2, <1>3, <1>4, <1>5, <1>6, <1>7, PhasesLast

(* ... or, in Flush, finds the end of the stream. *)
LEMMA EndTaken ==
  ASSUME PublishEnd, UNCHANGED <<decoderTaskVars, since>>
  PROVE  PhasesKept
  <1> USE DEF decoderTaskVars, driverVars, PublishEnd
  <1>1. InHand = 0 /\ InHand' = 0 /\ Handed' = Handed
    BY DEF InHand, Handed, EndOfStream
  <1>2. ~Resting /\ ~Live /\ ~EndSent /\ ~EndSent' /\ (Flushing => Flushing')
    BY DEF Resting, Live, Flushing, Publishing, Halted, EndSent
  <1>3. (Shut => Shut') /\ (Upstream => Upstream')
    BY <1>1 DEF Shut, Upstream
  <1>4. Listening => Listening'
    BY <1>1 DEF Listening, Open, Downstream
  <1>5. Ending /\ radioDecoderEnabled => IF EndSent' THEN Shut' \/ Finishing' ELSE Listening'
    BY <1>2, <1>4 DEF Ending
  <1> QED
    BY <1>2, <1>3, <1>5, PhasesLast

(* The decoder's callback reads the status of the decoder, ... *)
LEMMA Delivered ==
  ASSUME TypeOK, DeliverRaw
  PROVE  PhasesKept
  <1> USE DEF decoderTaskVars, driverVars, DeliverRaw
  <1>1. ~Resting /\ ~EndSent /\ (Live => Live') /\ (Flushing => Flushing')
    BY DEF Resting, Live, Flushing, Publishing, Halted, EndSent
  <1>2. (Shut => Shut') /\ (Opening => Opening')
    BY DEF Shut, Opening
  <1>3. Open => InHand' = InHand /\ Handed' = Handed
    BY DEF Open, InHand, Handed
  <1>4. Open => (Listening => Listening') /\ ~EndSent'
    BY <1>1, <1>3 DEF Listening, Open, Downstream, EndSent, Resting
  <1>5. Listening => Open
    BY DEF Listening
  <1>6. Upstream => Upstream'
    <2>1. InHand' = 1 => InHand = 1 /\ Handed' = Handed
      BY DEF InHand, Handed
    <2> QED
      BY <2>1 DEF Upstream
  <1>7. Ending /\ radioDecoderEnabled => IF EndSent' THEN Shut' \/ Finishing' ELSE Listening'
    BY <1>1, <1>4, <1>5 DEF Ending
  <1> QED
    BY <1>1, <1>2, <1>4, <1>5, <1>6, <1>7, PhasesLast

(* ... and hands the buffer, or the end of the stream, to a decoder that     *)
(* listens.                                                                  *)
LEMMA Enqueued ==
  ASSUME TypeOK, EnqueueRaw
  PROVE  PhasesKept
  <1> USE DEF driverVars, EnqueueRaw
  <1>0. /\ radioSignalQueue \in Seq(Buffer) /\ raw \in Buffer /\ device.received \in Nat
        /\ signalQueue \in Seq(Buffer) /\ Len(signalQueue) \in Nat
    BY DEF TypeOK, DriverTypeOK, DeviceTaskTypeOK, DecoderTaskTypeOK, Driver
  <1>1. /\ Len(radioSignalQueue) \in Nat /\ Len(radioSignalQueue') = Len(radioSignalQueue) + 1
        /\ \A i \in 1..Len(radioSignalQueue) : radioSignalQueue'[i] = radioSignalQueue[i]
        /\ radioSignalQueue'[Len(radioSignalQueue) + 1] = raw
    BY <1>0, Places
  <1>2. /\ ~Resting /\ ~EndSent /\ ~Shut /\ ~Opening
        /\ (Live => Live') /\ (Flushing => Flushing') /\ (Open => Open')
    BY DEF Resting, Live, Flushing, Publishing, Halted, EndSent, Shut, Opening, Open
  <1>3. Upstream => Upstream'
    <2>1. InHand' = 0
      BY DEF InHand
    <2> QED
      BY <2>1 DEF Upstream
  <1>4. ASSUME raw.kind = "data", Upstream, Listening PROVE Listening'
    <2>1. InHand = 1 /\ InHand' = 0
      BY <1>4 DEF InHand
    <2>2. raw = Data(device.stream, Handed) /\ Handed' = Handed + 1 /\ Handed \in Int
      BY <1>0, <1>4, <2>1 DEF Upstream, Handed
    <2>3. \A i \in 1..Len(radioSignalQueue') :
            radioSignalQueue'[i] = Data(device.stream, Handed' - Len(radioSignalQueue') + i - 1)
      <3>1. ASSUME NEW i \in 1..Len(radioSignalQueue)
            PROVE  radioSignalQueue'[i] = Data(device.stream, Handed' - Len(radioSignalQueue') + i - 1)
        <4>1. radioSignalQueue[i] = Data(device.stream, Handed - Len(radioSignalQueue) + i - 1)
          BY <1>4 DEF Listening, Downstream
        <4>2. Handed' - Len(radioSignalQueue') = Handed - Len(radioSignalQueue)
          BY <1>1, <2>2
        <4> QED
          BY <1>1, <4>1, <4>2
      <3>2. Handed' - Len(radioSignalQueue') + (Len(radioSignalQueue) + 1) - 1 = Handed
        BY <1>1, <2>2
      <3>3. \A i \in 1..Len(radioSignalQueue') :
              i \in 1..Len(radioSignalQueue) \/ i = Len(radioSignalQueue) + 1
        BY <1>1
      <3> QED
        BY <1>1, <2>2, <3>1, <3>2, <3>3
    <2>4. Handed' - Len(radioSignalQueue') - 1 = Handed - Len(radioSignalQueue) - 1
      BY <1>1, <2>2
    <2>5. Downstream(Len(radioSignalQueue))'
      BY <1>4, <2>3, <2>4 DEF Listening, Downstream
    <2> QED
      BY <1>2, <1>4, <2>5 DEF Listening
  <1>5. ASSUME raw = EndOfStream("flush"), Listening PROVE Finishing'
    <2>1. InHand = 0 /\ InHand' = 0 /\ Handed' = Handed
      BY <1>5 DEF InHand, Handed, EndOfStream
    <2>2. Len(radioSignalQueue') - 1 = Len(radioSignalQueue) /\ radioSignalQueue' # <<>>
      BY <1>0, <1>1
    <2>3. Downstream(Len(radioSignalQueue) - 1)'
      BY <1>1, <1>5, <2>1, <2>2 DEF Listening, Downstream
    <2> QED
      BY <1>1, <1>2, <1>5, <2>2, <2>3 DEF Listening, Finishing
  <1>6. Live => raw.kind = "data"
    BY DEF Live, Publishing
  <1>7. Ending /\ radioDecoderEnabled => IF EndSent' THEN Shut' \/ Finishing' ELSE Listening'
    <2> SUFFICES ASSUME Ending, radioDecoderEnabled
                 PROVE  IF EndSent' THEN Shut' \/ Finishing' ELSE Listening'
      OBVIOUS
    <2>1. Listening /\ Flushing /\ Upstream
      BY <1>2 DEF Ending
    <2>2. CASE raw.kind = "data"
      <3>1. ~EndSent'
        BY <2>2 DEF EndSent, Resting
      <3> QED
        BY <1>4, <2>1, <2>2, <3>1
    <2>3. CASE raw = EndOfStream("flush")
      <3>1. EndSent'
        BY <1>2, <2>1, <2>3 DEF EndSent, EndOfStream
      <3> QED
        BY <1>5, <2>1, <2>3, <3>1
    <2> QED
      BY <2>1, <2>2, <2>3 DEF Flushing, Publishing
  <1> QED
    BY <1>2, <1>3, <1>4, <1>6, <1>7, PhasesLast

(* The gain follows the buffer. *)
LEMMA GainAdjusted ==
  ASSUME AdjustGain, UNCHANGED <<decoderTaskVars, since>>
  PROVE  PhasesKept
  <1> USE DEF decoderTaskVars, driverVars, AdjustGain, IsValid
  <1>1. /\ ~Resting /\ ~EndSent
        /\ (Live => Live') /\ (Flushing => Flushing' /\ ~EndSent')
    BY DEF Resting, Live, Flushing, Publishing, Halted, EndSent
  <1>2. (Shut => Shut') /\ (Opening => Opening')
    BY DEF Shut, Opening
  <1>3. InHand = 0 /\ InHand' = 0 /\ Handed' = Handed
    BY DEF InHand, Handed
  <1>4. (Upstream => Upstream') /\ (Listening => Listening')
    BY <1>3 DEF Upstream, Listening, Open, Downstream
  <1>5. Ending /\ radioDecoderEnabled => IF EndSent' THEN Shut' \/ Finishing' ELSE Listening'
    BY <1>1, <1>4 DEF Ending
  <1> QED
    BY <1>1, <1>2, <1>4, <1>5, PhasesLast

(* The receiver delivers: nobody has been handed more than before. *)
LEMMA Transferred ==
  ASSUME TypeOK, Transfer, UNCHANGED <<deviceTaskVars, decoderTaskVars, since>>
  PROVE  PhasesKept
  <1> USE DEF decoderTaskVars, deviceTaskVars
  <1>0. device \in Driver /\ device.received \in Nat /\ device.stream \in Nat /\ signalQueue \in Seq(Buffer)
    BY DEF TypeOK, DriverTypeOK, Driver
  <1>1. /\ device'.received = device.received + 1 /\ device'.stream = device.stream
        /\ device'.callback = device.callback /\ device'.streaming = device.streaming
        /\ device'.paused = device.paused /\ device.callback
    BY <1>0 DEF Transfer, Driver
  <1>2. Data(device.stream, device.received) \in Buffer
    BY <1>0 DEF Data, Buffer, Samples
  <1>3. signalQueue' = Append(signalQueue, Data(device.stream, device.received))
    BY DEF Transfer
  <1>4. /\ Len(signalQueue) \in Nat /\ Len(signalQueue') = Len(signalQueue) + 1
        /\ \A i \in 1..Len(signalQueue) : signalQueue'[i] = signalQueue[i]
        /\ signalQueue'[Len(signalQueue) + 1] = Data(device.stream, device.received)
    BY <1>0, <1>2, <1>3, Places
  <1>5. InHand' = InHand /\ Handed' = Handed
    <2>1. InHand' = InHand /\ InHand \in {0, 1}
      BY DEF InHand
    <2>2. \A r, l \in Nat : \A h \in {0, 1} : (r + 1) - (l + 1) - h = r - l - h
      OBVIOUS
    <2>3. Handed' = (device.received + 1) - (Len(signalQueue) + 1) - InHand
      BY <1>1, <1>4, <2>1 DEF Handed
    <2> QED
      BY <1>0, <1>4, <2>1, <2>2, <2>3 DEF Handed
  <1>6. Upstream => Upstream'
    <2>1. \A i \in 1..Len(signalQueue') :
            \/ i \in 1..Len(signalQueue)
            \/ i = Len(signalQueue) + 1 /\ device'.received - Len(signalQueue') + i - 1 = device.received
      BY <1>0, <1>1, <1>4
    <2>2. device'.received - Len(signalQueue') = device.received - Len(signalQueue)
      BY <1>0, <1>1, <1>4
    <2> QED
      BY <1>1, <1>4, <1>5, <2>1, <2>2 DEF Upstream
  <1>7. ~Resting /\ ~Flushing /\ ~EndSent /\ (Live => Live')
    BY <1>1 DEF Resting, Live, Flushing, Publishing, Halted, EndSent
  <1>8. (Shut => Shut') /\ (Opening => Opening')
    BY DEF Shut, Opening
  <1>9. Listening => Listening'
    BY <1>1, <1>5 DEF Listening, Open, Downstream
  <1>10. ~Ending
    BY <1>7 DEF Ending
  <1> QED
    BY <1>1, <1>6, <1>7, <1>8, <1>9, <1>10, PhasesLast

(* A pass of the decoder with nothing to decode. *)
LEMMA DecoderPasses ==
  ASSUME cpc \in {"command", "decode"}, cpc' \in {"command", "decode"},
         UNCHANGED <<radioDecoderEnabled, radioDecoderStatus, radioSignalQueue, decoded,
                     driverVars, deviceTaskVars, since>>
  PROVE  PhasesKept
  <1> USE DEF driverVars, deviceTaskVars
  <1>1. (Resting => Resting') /\ (Live => Live') /\ (Flushing => Flushing') /\ (EndSent <=> EndSent')
    BY DEF Resting, Live, Flushing, Publishing, Halted, EndSent
  <1>2. (Shut => Shut') /\ ~Opening /\ (Fresh => Fresh')
    BY DEF Shut, Opening, Fresh, Open
  <1>3. InHand' = InHand /\ Handed' = Handed
    BY DEF Handed, InHand
  <1>4. Upstream => Upstream'
    BY <1>3 DEF Upstream
  <1>5. (Listening => Listening') /\ (Finishing => Finishing')
    BY <1>3 DEF Listening, Finishing, Open, Downstream
  <1>6. Ending /\ radioDecoderEnabled => IF EndSent' THEN Shut' \/ Finishing' ELSE Listening'
    BY <1>1, <1>2, <1>5 DEF Ending
  <1> QED
    BY <1>1, <1>2, <1>4, <1>5, <1>6, PhasesLast

(* What the decoder takes next is what follows what it has decoded. *)
LEMMA NextInLine ==
  ASSUME TypeOK, radioSignalQueue # <<>>, NEW n \in 1..Len(radioSignalQueue), Downstream(n)
  PROVE  /\ Head(radioSignalQueue) = Data(device.stream, Handed - n)
         /\ Handed \in Int
  <1>0. /\ radioSignalQueue \in Seq(Buffer) /\ device.received \in Nat /\ Len(signalQueue) \in Nat
    BY DEF TypeOK, DriverTypeOK, DecoderTaskTypeOK, Driver
  <1>1. Handed \in Int
    BY <1>0 DEF Handed, InHand
  <1>2. Head(radioSignalQueue) = radioSignalQueue[1] /\ Len(radioSignalQueue) \in Nat
    BY <1>0, Places
  <1>3. 1 \in 1..n /\ Handed - n + 1 - 1 = Handed - n
    BY <1>1, <1>2
  <1> QED
    BY <1>1, <1>2, <1>3 DEF Downstream

(* signalDecode: the next buffer has been decoded, ... *)
LEMMA Decoded ==
  ASSUME TypeOK, DecodeBuffer, UNCHANGED <<driverVars, deviceTaskVars, since>>
  PROVE  PhasesKept
  <1> USE DEF driverVars, deviceTaskVars, DecodeBuffer, Decoding, IsValid
  <1>0. radioSignalQueue \in Seq(Buffer)
    BY DEF TypeOK, DecoderTaskTypeOK
  <1>1. /\ Head(radioSignalQueue) = radioSignalQueue[1] /\ Len(radioSignalQueue) > 0
        /\ Len(radioSignalQueue) \in Nat
        /\ Len(radioSignalQueue') = Len(radioSignalQueue) - 1
        /\ \A i \in 1..Len(radioSignalQueue) - 1 : radioSignalQueue'[i] = radioSignalQueue[i + 1]
    BY <1>0, Places
  <1>2. (Resting => Resting') /\ (Live => Live') /\ (Flushing => Flushing') /\ (EndSent <=> EndSent')
    BY DEF Resting, Live, Flushing, Publishing, Halted, EndSent
  <1>3. InHand' = InHand /\ Handed' = Handed
    BY DEF Handed, InHand
  <1>4. ~Shut /\ ~Opening /\ ~Fresh /\ (Open => Open') /\ (Upstream => Upstream')
    BY <1>3 DEF Shut, Opening, Fresh, Open, Upstream
  <1>5. ASSUME NEW n \in 1..Len(radioSignalQueue), Downstream(n)
        PROVE  /\ \A i \in 1..n - 1 :
                    radioSignalQueue'[i] = Data(device'.stream, Handed' - (n - 1) + i - 1)
               /\ decoded' = [stream |-> device'.stream, offset |-> Handed' - (n - 1) - 1]
    <2>1. Head(radioSignalQueue) = Data(device.stream, Handed - n) /\ Handed \in Int
      BY <1>5, NextInLine
    <2>2. decoded' = [stream |-> device.stream, offset |-> Handed - n] /\ n \in Int
      BY <2>1 DEF Data
    <2>3. ASSUME NEW i \in 1..n - 1
          PROVE  radioSignalQueue'[i] = Data(device'.stream, Handed' - (n - 1) + i - 1)
      <3>1. i + 1 \in 1..n /\ i \in 1..Len(radioSignalQueue) - 1
        BY <1>1, <1>5
      <3>2. radioSignalQueue[i + 1] = Data(device.stream, Handed - n + (i + 1) - 1)
        BY <1>5, <3>1 DEF Downstream
      <3>3. Handed - n + (i + 1) - 1 = Handed - (n - 1) + i - 1
        BY <2>1, <2>2
      <3> QED
        BY <1>1, <1>3, <3>1, <3>2, <3>3
    <2>4. Handed - (n - 1) - 1 = Handed - n
      BY <2>1, <2>2
    <2> QED
      BY <1>3, <2>2, <2>3, <2>4
  <1>6. Listening => Listening'
    <2> SUFFICES ASSUME Listening PROVE Listening'
      OBVIOUS
    <2>1. Len(radioSignalQueue) \in 1..Len(radioSignalQueue)
      BY <1>1
    <2>2. Downstream(Len(radioSignalQueue))
      BY DEF Listening
    <2>3. Downstream(Len(radioSignalQueue))'
      BY <1>1, <1>5, <2>1, <2>2 DEF Downstream
    <2> QED
      BY <1>4, <2>3 DEF Listening
  <1>7. Finishing => Finishing'
    <2> SUFFICES ASSUME Finishing PROVE Finishing'
      OBVIOUS
    <2>1. Len(radioSignalQueue) # 1
      BY <1>1 DEF Finishing, EndOfStream
    <2>2. /\ Len(radioSignalQueue) - 1 \in 1..Len(radioSignalQueue)
          /\ Len(radioSignalQueue') - 1 = (Len(radioSignalQueue) - 1) - 1
      BY <1>1, <2>1
    <2>3. Downstream(Len(radioSignalQueue) - 1)'
      BY <1>5, <2>2 DEF Finishing, Downstream
    <2>4. radioSignalQueue'[Len(radioSignalQueue')] = EndOfStream("flush")
      <3>1. Len(radioSignalQueue') \in 1..Len(radioSignalQueue) - 1 /\ Len(radioSignalQueue') + 1 = Len(radioSignalQueue)
        BY <1>1, <2>1
      <3> QED
        BY <1>1, <3>1 DEF Finishing
    <2>5. radioSignalQueue' # <<>>
      <3>1. radioSignalQueue' \in Seq(Buffer) /\ Len(radioSignalQueue') # 0
        BY <1>0, <1>1, <2>1, QueuesTyped
      <3> QED
        BY <3>1, Places
    <2> QED
      BY <1>4, <2>3, <2>4, <2>5 DEF Finishing
  <1>8. Ending /\ radioDecoderEnabled => IF EndSent' THEN Shut' \/ Finishing' ELSE Listening'
    BY <1>2, <1>4, <1>6, <1>7 DEF Ending
  <1> QED
    BY <1>2, <1>4, <1>6, <1>8, PhasesLast

(* Of the steps above, none is noticed. *)
LEMMA QuietSteps ==
  ASSUME TypeOK, TypeOK', Inv,
         \/ (NoCommand \/ NoRefresh \/ PublishBuffer \/ AdjustGain \/ PublishEnd \/ NothingQueued)
            /\ UNCHANGED <<decoderTaskVars, windowVars, since>>
         \/ DeliverRaw \/ EnqueueRaw
         \/ (NoDecoderCommand \/ DecodeBuffer \/ NothingToDecode)
            /\ UNCHANGED <<driverVars, deviceTaskVars, windowVars, since>>
         \/ Transfer /\ UNCHANGED <<deviceTaskVars, decoderTaskVars, ctlVars, windowVars, since>>
  PROVE  Inv'
  <1>0. Fixed /\ Stages /\ Stories /\ Buttons
    BY DEF Inv
  <1>1. PhasesKept
    <2>1. CASE (NoCommand \/ NoRefresh \/ NothingQueued) /\ UNCHANGED <<decoderTaskVars, windowVars, since>>
      BY <2>1, LoopPasses DEF NoCommand, NoRefresh, NothingQueued, driverVars
    <2>2. CASE (NoDecoderCommand \/ NothingToDecode)
               /\ UNCHANGED <<driverVars, deviceTaskVars, windowVars, since>>
      BY <2>2, DecoderPasses DEF NoDecoderCommand, NothingToDecode
    <2> QED
      BY <2>1, <2>2, BufferTaken, GainAdjusted, EndTaken, Delivered, Enqueued, Decoded, Transferred
  <1>2. /\ UNCHANGED <<ctlVars, windowVars, radioReceiverEnabled, radioReceiverStatus,
                       radioDecoderEnabled, radioDecoderStatus, plugged, since>>
        /\ device' = device \/ device' = [device EXCEPT !.received = @ + 1]
    BY DEF NoCommand, NoRefresh, PublishBuffer, AdjustGain, PublishEnd, NothingQueued, DeliverRaw,
           EnqueueRaw, NoDecoderCommand, DecodeBuffer, NothingToDecode, Transfer,
           driverVars, deviceTaskVars, decoderTaskVars
  <1>3. dpc' # "command" => radioReceiverEnabled
    BY <1>0 DEF Fixed, NoCommand, NoRefresh, PublishBuffer, AdjustGain, PublishEnd, NothingQueued,
                DeliverRaw, EnqueueRaw, deviceTaskVars
  <1> QED
    BY <1>0, <1>1, <1>2, <1>3, Unnoticed

-----------------------------------------------------------------------------
(* The steps that report a status *)

(* updateDeviceStatus, of a receiver QtControl knows: one event is posted,   *)
(* and the decoder at most told of the stream time.                          *)
LEMMA DeviceReports ==
  ASSUME TypeOK, Fixed, Stories,
         NEW status, NEW d \in Driver, NEW enabled \in BOOLEAN, NEW remaining \in Seq(Command),
         d.open, UpdateDeviceStatus(status, d, enabled, remaining),
         device' = d, radioReceiverEnabled' = enabled,
         UNCHANGED <<radioDecoderEnabled, radioDecoderStatus, windowVars>>,
         Leads("device", asked, DeviceWord, StatusOf(enabled, d, status))
  PROVE  /\ Stories' /\ deviceCommands' = remaining
         /\ Keeps(events, events', Reports) /\ Keeps(decoderCommands, decoderCommands', Forwards)
         /\ ctl'.named /\ ctl'.deviceEnabled = enabled /\ ctl'.decoderEnabled = ctl.decoderEnabled
  <1> DEFINE word == StatusOf(enabled, d, status)
             e == [kind |-> "device", value |-> word]
  <1>0. /\ events \in Seq(Event) /\ decoderCommands \in Seq(Command) /\ ctl \in Ctl
        /\ d.open = TRUE /\ d.streamTime \in Nat /\ ctl.named = TRUE
        /\ UNCHANGED <<asked, radioDeviceStatus, radioDecoderShown>>
    BY DEF TypeOK, CtlTypeOK, Ctl, Driver, Fixed, windowVars
  <1>1. word \in DeviceStatus /\ e \in Event /\ e \in Reports /\ e.kind = "device"
    BY WordsTyped DEF Reports
  <1>2. word # "disabled" <=> enabled
    BY DEF StatusOf
  <1>3. RadioDeviceStatusChange(word, TRUE, d.streamTime, remaining) /\ radioReceiverStatus' = status
    BY <1>0 DEF UpdateDeviceStatus
  <1> HIDE DEF word
  <1>4. /\ events' = Append(events, e) /\ deviceCommands' = remaining
        /\ \/ decoderCommands' = decoderCommands
           \/ decoderCommands' = Append(decoderCommands, Configure("keep"))
        /\ ctl' = [ctl EXCEPT !.deviceEnabled = (word # "disabled"),
                              !.forwarded = IF TRUE /\ d.streamTime # ctl.forwarded THEN d.streamTime ELSE @]
    BY <1>0, <1>3 DEF RadioDeviceStatusChange
  <1>5. ctl'.named = TRUE /\ ctl'.deviceEnabled = enabled /\ ctl'.decoderEnabled = ctl.decoderEnabled
    BY <1>0, <1>2, <1>4 DEF Ctl
  <1>6. Keeps(events, events', Reports)
    BY <1>0, <1>1, <1>4, KeepsWithMore
  <1>7. Keeps(decoderCommands, decoderCommands', Forwards)
    <2>1. Configure("keep") \in Command /\ Configure("keep") \in Forwards
      BY WordsTyped DEF Forwards, Enabled
    <2> QED
      BY <1>0, <1>4, <2>1, KeepsItself, KeepsWithMore
  <1>8. DeviceWord' = word /\ DecoderWord' = DecoderWord
    BY <1>3 DEF DeviceWord, DecoderWord, word
  <1>9. Story(events', "device", asked, radioDeviceStatus, word)
    BY <1>0, <1>1, <1>4, StoryTells DEF Stories, DeviceStory, word
  <1>10. Story(events', "decoder", asked, radioDecoderShown, DecoderWord)
    BY <1>0, <1>1, <1>4, StoryGoesOn DEF Stories, DecoderStory
  <1>11. Stories'
    BY <1>0, <1>8, <1>9, <1>10 DEF Stories, DeviceStory, DecoderStory
  <1> QED
    BY <1>4, <1>5, <1>6, <1>7, <1>11

(* updateDecoderStatus: one event is posted. *)
LEMMA DecoderReports ==
  ASSUME TypeOK, Fixed, Stories,
         NEW status, NEW enabled \in BOOLEAN,
         UpdateDecoderStatus(status, enabled), radioDecoderEnabled' = enabled,
         UNCHANGED <<radioReceiverEnabled, radioReceiverStatus, device, windowVars>>,
         NEW word, word = (IF ~enabled THEN "disabled"
                           ELSE IF status = "Streaming" THEN "decoding" ELSE "idle"),
         Leads("decoder", asked, DecoderWord, word)
  PROVE  /\ Stories' /\ Keeps(events, events', Reports)
         /\ ctl'.named /\ ctl'.deviceEnabled = ctl.deviceEnabled /\ ctl'.decoderEnabled = enabled
  <1> DEFINE e == [kind |-> "decoder", value |-> word]
  <1>0. /\ events \in Seq(Event) /\ ctl \in Ctl /\ ctl.named
        /\ UNCHANGED <<asked, radioDeviceStatus, radioDecoderShown>>
    BY DEF TypeOK, CtlTypeOK, Fixed, windowVars
  <1>1. word \in DecoderStatus /\ e \in Event /\ e \in Reports /\ e.kind = "decoder"
    BY WordsTyped DEF Reports, DecoderStatus
  <1>2. RadioDecoderStatusChange(word) /\ radioDecoderStatus' = status
    BY DEF UpdateDecoderStatus
  <1>3. (word # "disabled") = enabled
    OBVIOUS
  <1>4. events' = Append(events, e) /\ ctl' = [ctl EXCEPT !.decoderEnabled = (word # "disabled")]
    BY <1>2 DEF RadioDecoderStatusChange
  <1>5. ctl'.named /\ ctl'.deviceEnabled = ctl.deviceEnabled /\ ctl'.decoderEnabled = enabled
    BY <1>0, <1>3, <1>4 DEF Ctl
  <1>6. DecoderWord' = word /\ DeviceWord' = DeviceWord
    BY <1>2 DEF DecoderWord, DeviceWord
  <1>7. Story(events', "decoder", asked, radioDecoderShown, word)
    BY <1>0, <1>1, <1>4, StoryTells DEF Stories, DecoderStory
  <1>8. Story(events', "device", asked, radioDeviceStatus, DeviceWord)
    BY <1>0, <1>1, <1>4, StoryGoesOn DEF Stories, DeviceStory
  <1>9. Keeps(events, events', Reports)
    BY <1>0, <1>1, <1>4, KeepsWithMore
  <1>10. Stories'
    BY <1>0, <1>6, <1>7, <1>8 DEF Stories, DeviceStory, DecoderStory
  <1> QED
    BY <1>5, <1>9, <1>10

(* the status of the receiver in each phase *)
LEMMA DeviceWords ==
  ASSUME TypeOK, Fixed
  PROVE  /\ Live => DeviceWord = IF device.paused THEN "paused" ELSE "streaming"
         /\ Flushing => DeviceWord = "flush"
         /\ Resting => DeviceWord = IF radioReceiverEnabled THEN "idle" ELSE "disabled"
  <1>1. device.open = TRUE /\ device.paused \in BOOLEAN /\ device.streaming \in BOOLEAN
        /\ radioReceiverEnabled \in BOOLEAN
    BY DEF TypeOK, DriverTypeOK, DeviceTaskTypeOK, Driver, Fixed
  <1>2. Live => DeviceWord = IF device.paused THEN "paused" ELSE "streaming"
    BY <1>1 DEF Live, DeviceWord, StatusOf
  <1>3. Flushing => DeviceWord = "flush"
    BY <1>1 DEF Flushing, Halted, DeviceWord, StatusOf
  <1>4. Resting => DeviceWord = IF radioReceiverEnabled THEN "idle" ELSE "disabled"
    BY <1>1 DEF Resting, Halted, DeviceWord, StatusOf
  <1> QED
    BY <1>2, <1>3, <1>4

(* and of the decoder *)
LEMMA DecoderWords ==
  ASSUME TypeOK
  PROVE  /\ Shut => DecoderWord = IF radioDecoderEnabled THEN "idle" ELSE "disabled"
         /\ Opening => DecoderWord = "idle"
         /\ Open => DecoderWord = "decoding"
         /\ Fresh => Open
         /\ Listening => Open
         /\ Finishing => Open
  BY DEF Shut, Opening, Open, Fresh, Listening, Finishing, DecoderWord

(* refresh() with the receiver still there reports what is known. *)
LEMMA RefreshKeeps ==
  ASSUME TypeOK, TypeOK', Inv, ReportStatus, UNCHANGED <<decoderTaskVars, windowVars, since>>
  PROVE  Inv'
  <1>0. /\ Fixed /\ Stages /\ Stories /\ Buttons
        /\ device \in Driver /\ device.open /\ radioReceiverEnabled = TRUE
        /\ deviceCommands \in Seq(Command)
        /\ UNCHANGED <<device, radioReceiverEnabled, signalQueue, raw, plugged, storageClears>>
        /\ UNCHANGED <<cpc, radioDecoderEnabled, radioDecoderStatus, radioSignalQueue, decoded>>
        /\ UNCHANGED <<radioDeviceStatus, radioDecoderShown, actionListen, actionStop, pauseChecked,
                       acquireTimer, asked>>
        /\ dpc \in {"refresh"} /\ dpc' \in {"queue"}
        /\ UpdateDeviceStatus(radioReceiverStatus, device, TRUE, deviceCommands)
    BY DEF Inv, Fixed, TypeOK, DriverTypeOK, DeviceTaskTypeOK, CtlTypeOK, ReportStatus, RefreshDue,
           driverVars, decoderTaskVars, windowVars
  <1>1. Leads("device", asked, DeviceWord, StatusOf(TRUE, device, radioReceiverStatus))
    BY <1>0, LeadsOrders DEF DeviceWord
  <1>2. /\ Stories' /\ deviceCommands' = deviceCommands
        /\ Keeps(events, events', Reports) /\ Keeps(decoderCommands, decoderCommands', Forwards)
        /\ ctl'.named /\ ctl'.deviceEnabled = TRUE /\ ctl'.decoderEnabled = ctl.decoderEnabled
    BY <1>0, <1>1, DeviceReports
  <1>3. PlacesKept
    BY <1>0, <1>2, NoisePasses
  <1>4. radioReceiverStatus' = radioReceiverStatus
    BY <1>0 DEF UpdateDeviceStatus
  <1>5. PhasesKept
    BY <1>0, <1>4, LoopPasses DEF decoderTaskVars
  <1>6. Stages'
    BY <1>0, <1>3, <1>5, StageLasts
  <1>7. Fixed'
    BY <1>0, <1>2 DEF Fixed
  <1>8. Buttons'
    BY <1>0 DEF Buttons, FeaturesEnabled
  <1> QED
    BY <1>2, <1>6, <1>7, <1>8 DEF Inv

(* The end of the stream has been delivered: the receiver is idle. *)
LEMMA FlushedKeeps ==
  ASSUME TypeOK, TypeOK', Inv, Flushed, UNCHANGED <<decoderTaskVars, windowVars, since>>
  PROVE  Inv'
  <1>0. /\ Fixed /\ Stages /\ Stories /\ Buttons
        /\ device \in Driver /\ device.open /\ radioReceiverEnabled = TRUE
        /\ deviceCommands \in Seq(Command)
        /\ UNCHANGED <<device, radioReceiverEnabled, signalQueue, raw, plugged, storageClears, since>>
        /\ UNCHANGED <<cpc, radioDecoderEnabled, radioDecoderStatus, radioSignalQueue, decoded>>
        /\ UNCHANGED <<radioDeviceStatus, radioDecoderShown, actionListen, actionStop, pauseChecked,
                       acquireTimer, asked>>
        /\ dpc = "published" /\ raw.kind = "flush" /\ dpc' = "command"
        /\ UpdateDeviceStatus("Idle", device, TRUE, deviceCommands) /\ radioReceiverStatus' = "Idle"
    BY DEF Inv, Fixed, TypeOK, DriverTypeOK, DeviceTaskTypeOK, CtlTypeOK, Flushed,
           driverVars, decoderTaskVars, windowVars, UpdateDeviceStatus
  <1>1. ~Resting /\ ~Live
    BY <1>0 DEF Resting, Live, Publishing
  <1>2. asked = "stop" /\ Ending /\ Nowhere /\ Flushing
    <2>1. ~Off /\ ~Awaiting /\ ~On /\ ~Running
      BY <1>1 DEF Off, Awaiting, On, Running
    <2>2. Stops
      BY <1>0, <2>1 DEF Stages, Waits, Starts, Pauses, Configures, ConfiguresDecoder
    <2> QED
      BY <1>1, <2>1, <2>2 DEF Stops, Ending
  <1>3. signalQueue = <<>> /\ EndSent
    BY <1>0, <1>2 DEF Flushing, Publishing, EndSent
  <1>4. Resting' /\ EndSent'
    BY <1>0, <1>2, <1>3 DEF Flushing, Halted, Resting, EndSent
  <1>5. (Shut => Shut') /\ (Open => Open')
    BY <1>0 DEF Shut, Open
  <1>6. InHand = 0 /\ InHand' = 0 /\ Handed' = Handed
    BY <1>0 DEF InHand, Handed
  <1>7. Finishing => Finishing'
    BY <1>0, <1>5, <1>6 DEF Finishing, Downstream
  <1>8. PhasesKept
    <2>1. Ending /\ radioDecoderEnabled => IF EndSent' THEN Shut' \/ Finishing' ELSE Listening'
      BY <1>3, <1>4, <1>5, <1>7 DEF Ending
    <2> QED
      BY <1>0, <1>1, <1>4, <1>5, <2>1, PhasesLast
  <1>9. Leads("device", asked, DeviceWord, StatusOf(TRUE, device, "Idle"))
    <2>1. DeviceWord = "flush"
      BY <1>0, <1>2, DeviceWords DEF Inv
    <2>2. StatusOf(TRUE, device, "Idle") = "idle"
      BY <1>0, <1>2 DEF Flushing, Halted, StatusOf
    <2> QED
      BY <1>2, <2>1, <2>2 DEF Leads
  <1>10. /\ Stories' /\ deviceCommands' = deviceCommands
         /\ Keeps(events, events', Reports) /\ Keeps(decoderCommands, decoderCommands', Forwards)
         /\ ctl'.named /\ ctl'.deviceEnabled = TRUE /\ ctl'.decoderEnabled = ctl.decoderEnabled
    BY <1>0, <1>9, DeviceReports
  <1>11. Stages'
    BY <1>0, <1>8, <1>10, NoisePasses, StageLasts
  <1>12. Fixed'
    BY <1>0, <1>10 DEF Fixed
  <1>13. Buttons'
    BY <1>0 DEF Buttons, FeaturesEnabled
  <1> QED
    BY <1>10, <1>11, <1>12, <1>13 DEF Inv

(* A decoder that was starting decodes. *)
LEMMA StreamingKeeps ==
  ASSUME TypeOK, TypeOK', Inv, DecoderStreaming,
         UNCHANGED <<driverVars, deviceTaskVars, windowVars, since>>
  PROVE  Inv'
  <1>0. /\ Fixed /\ Stages /\ Stories /\ Buttons
        /\ UNCHANGED <<device, radioReceiverEnabled, radioReceiverStatus, signalQueue, raw, dpc,
                       plugged, storageClears, since>>
        /\ UNCHANGED <<radioDecoderEnabled, radioSignalQueue, decoded, deviceCommands, decoderCommands>>
        /\ UNCHANGED <<radioDeviceStatus, radioDecoderShown, actionListen, actionStop, pauseChecked,
                       acquireTimer, asked>>
        /\ cpc = "starting" /\ cpc' = "decode" /\ radioDecoderEnabled \in BOOLEAN
        /\ UpdateDecoderStatus("Streaming", radioDecoderEnabled) /\ radioDecoderStatus' = "Streaming"
    BY DEF Inv, TypeOK, DecoderTaskTypeOK, DecoderStreaming, driverVars, deviceTaskVars, windowVars,
           UpdateDecoderStatus
  <1>1. ~Shut /\ ~Open /\ ~Ending /\ ~Running
    BY <1>0 DEF Shut, Open, Ending, Listening, Finishing, Running
  <1>2. asked = "start" /\ radioDecoderEnabled /\ Opening
    BY <1>0, <1>1 DEF Stages, Waits, Starts, Stops, Pauses, Configures, ConfiguresDecoder, Off,
                      Awaiting, On, Fresh, Listening
  <1>3. (Resting => Resting') /\ (Live => Live') /\ InHand' = InHand /\ Handed' = Handed
    BY <1>0 DEF Resting, Live, Publishing, Halted, InHand, Handed
  <1>4. Upstream => Upstream'
    BY <1>0, <1>3 DEF Upstream
  <1>5. Open' /\ radioSignalQueue' = <<>> /\ decoded' = NoSamples
    BY <1>0, <1>2 DEF Open, Opening
  <1>6. Fresh' /\ Listening'
    <2>1. Downstream(Len(radioSignalQueue))'
      BY <1>5 DEF Downstream
    <2> QED
      BY <1>5, <2>1 DEF Fresh, Listening
  <1>7. PhasesKept
    <2>1. Flushing => Flushing'
      BY <1>0 DEF Flushing, Publishing, Halted
    <2> QED
      BY <1>0, <1>1, <1>3, <1>4, <1>6, <2>1, PhasesLast
  <1>8. Leads("decoder", asked, DecoderWord, "decoding")
    BY <1>2, DecoderWords DEF Leads, Inv
  <1>9. /\ Stories' /\ Keeps(events, events', Reports)
        /\ ctl'.named /\ ctl'.deviceEnabled = ctl.deviceEnabled
        /\ ctl'.decoderEnabled = radioDecoderEnabled
    BY <1>0, <1>2, <1>8, DecoderReports
  <1>10. Stages'
    BY <1>0, <1>7, <1>9, KeepsItself, NoisePasses, StageLasts
  <1>11. Fixed'
    BY <1>0, <1>9 DEF Fixed
  <1>12. Buttons'
    BY <1>0 DEF Buttons, FeaturesEnabled
  <1> QED
    BY <1>9, <1>10, <1>11, <1>12 DEF Inv

(* "decoder EOF buffer received, finish!": only the end of the stream is     *)
(* left, and the stream has ended.                                           *)
LEMMA LastOfQueue ==
  ASSUME TypeOK, radioSignalQueue # <<>>, ~IsValid(Head(radioSignalQueue))
  PROVE  /\ ~Shut /\ ~Fresh /\ ~Opening /\ ~Listening
         /\ Finishing => Len(radioSignalQueue) = 1 /\ Tail(radioSignalQueue) = <<>>
  <1>0. /\ radioSignalQueue \in Seq(Buffer) /\ Len(radioSignalQueue) \in Nat /\ Len(radioSignalQueue) > 0
        /\ Len(Tail(radioSignalQueue)) = Len(radioSignalQueue) - 1
        /\ Tail(radioSignalQueue) \in Seq(Buffer)
    <2>1. radioSignalQueue \in Seq(Buffer)
      BY DEF TypeOK, DecoderTaskTypeOK
    <2> QED
      BY <2>1, Places, QueuesTyped
  <1>1. ~Shut /\ ~Fresh /\ ~Opening
    BY DEF Shut, Fresh, Opening
  <1>2. ~Listening
    <2> SUFFICES ASSUME Listening PROVE FALSE
      OBVIOUS
    <2>1. Len(radioSignalQueue) \in 1..Len(radioSignalQueue)
      BY <1>0
    <2>2. Head(radioSignalQueue) = Data(device.stream, Handed - Len(radioSignalQueue))
      BY <2>1, NextInLine DEF Listening
    <2> QED
      BY <2>2 DEF Data, IsValid
  <1>3. Finishing => Len(radioSignalQueue) = 1
    <2> SUFFICES ASSUME Finishing, Len(radioSignalQueue) # 1 PROVE FALSE
      OBVIOUS
    <2>1. Len(radioSignalQueue) - 1 \in 1..Len(radioSignalQueue)
      BY <1>0
    <2>2. Head(radioSignalQueue) = Data(device.stream, Handed - (Len(radioSignalQueue) - 1))
      BY <2>1, NextInLine DEF Finishing
    <2> QED
      BY <2>2 DEF Data, IsValid
  <1>4. Len(radioSignalQueue) = 1 => Tail(radioSignalQueue) = <<>>
    <2>1. Tail(radioSignalQueue) = <<>> <=> Len(Tail(radioSignalQueue)) = 0
      BY <1>0, Places
    <2> QED
      BY <1>0, <2>1
  <1> QED
    BY <1>1, <1>2, <1>3, <1>4

(* ... and the decoder stops. *)
LEMMA FinishKeeps ==
  ASSUME TypeOK, TypeOK', Inv, FinishDecoding,
         UNCHANGED <<driverVars, deviceTaskVars, windowVars, since>>
  PROVE  Inv'
  <1>0. /\ Fixed /\ Stages /\ Stories /\ Buttons
        /\ UNCHANGED <<device, radioReceiverEnabled, radioReceiverStatus, signalQueue, raw, dpc,
                       plugged, storageClears, since>>
        /\ UNCHANGED <<radioDecoderEnabled, decoded, deviceCommands, decoderCommands>>
        /\ UNCHANGED <<radioDeviceStatus, radioDecoderShown, actionListen, actionStop, pauseChecked,
                       acquireTimer, asked>>
        /\ radioSignalQueue # <<>> /\ ~IsValid(Head(radioSignalQueue))
        /\ radioSignalQueue' = Tail(radioSignalQueue)
        /\ cpc = "decode" /\ cpc' = "command" /\ radioDecoderEnabled = TRUE
        /\ UpdateDecoderStatus("Idle", TRUE) /\ radioDecoderStatus' = "Idle"
    BY DEF Inv, TypeOK, DecoderTaskTypeOK, FinishDecoding, Decoding, driverVars, deviceTaskVars,
           windowVars, UpdateDecoderStatus
  <1>1. ~Shut /\ ~Fresh /\ ~Opening /\ ~Listening /\ (Finishing => radioSignalQueue' = <<>>)
    BY <1>0, LastOfQueue DEF Inv
  <1>2. asked = "stop" /\ Ending /\ Finishing /\ EndSent
    <2>1. ~Off /\ ~Awaiting /\ ~On /\ ~Running
      BY <1>0, <1>1 DEF Off, Awaiting, On, Running
    <2>2. Stops
      BY <1>0, <2>1 DEF Stages, Waits, Starts, Pauses, Configures, ConfiguresDecoder
    <2> QED
      BY <1>0, <1>1, <2>1, <2>2 DEF Stops, Ending
  <1>3. (Resting => Resting') /\ (Live => Live') /\ (Flushing => Flushing') /\ (EndSent => EndSent')
    BY <1>0 DEF Resting, Live, Flushing, Publishing, Halted, EndSent
  <1>4. Shut'
    <2>1. dpc # "enqueue"
      BY <1>2 DEF EndSent, Resting
    <2> QED
      BY <1>0, <1>1, <1>2, <2>1 DEF Shut
  <1>5. Upstream => Upstream'
    <2>1. InHand' = InHand /\ Handed' = Handed
      BY <1>0 DEF InHand, Handed
    <2> QED
      BY <1>0, <2>1 DEF Upstream
  <1>6. PhasesKept
    BY <1>0, <1>1, <1>2, <1>3, <1>4, <1>5, PhasesLast
  <1>7. Leads("decoder", asked, DecoderWord, "idle")
    BY <1>2, DecoderWords DEF Leads, Inv
  <1>8. /\ Stories' /\ Keeps(events, events', Reports)
        /\ ctl'.named /\ ctl'.deviceEnabled = ctl.deviceEnabled
        /\ ctl'.decoderEnabled = TRUE
    <2>1. radioDecoderEnabled' = TRUE
      BY <1>0
    <2>2. UpdateDecoderStatus("Idle", TRUE)
      BY <1>0
    <2>3. "idle" = IF ~TRUE THEN "disabled" ELSE IF "Idle" = "Streaming" THEN "decoding" ELSE "idle"
      OBVIOUS
    <2> QED
      BY <1>0, <1>7, <2>1, <2>2, <2>3, DecoderReports
  <1>9. Stages'
    BY <1>0, <1>6, <1>8, KeepsItself, NoisePasses, StageLasts
  <1>10. Fixed'
    BY <1>0, <1>8 DEF Fixed
  <1>11. Buttons'
    BY <1>0 DEF Buttons, FeaturesEnabled
  <1> QED
    BY <1>8, <1>9, <1>10, <1>11 DEF Inv

-----------------------------------------------------------------------------
(* The commands of the device task *)

(* A command is the one request under way, in its stage. *)
LEMMA DeviceOrders ==
  ASSUME TypeOK, Stages, deviceCommands # <<>>
  PROVE  /\ AtDevice /\ Head(deviceCommands) = Ordered(asked) /\ Tail(deviceCommands) = <<>>
         /\ \/ asked = "start" /\ Awaiting
            \/ asked = "stop" /\ Running
            \/ asked \in {"pause", "resume"} /\ Running /\ device.paused = (asked = "resume")
            \/ asked \in {"deviceOn", "deviceOff"} /\ Off /\ radioReceiverEnabled = (asked = "deviceOff")
  <1>1. ~AtGui /\ ~AtStorage /\ ~AtDecoder /\ ~Nowhere
    BY DEF AtGui, AtStorage, AtDecoder, Nowhere
  <1>2. /\ AtDevice
        /\ \/ asked = "start" /\ Awaiting
           \/ asked = "stop" /\ Running
           \/ asked \in {"pause", "resume"} /\ Running /\ device.paused = (asked = "resume")
           \/ asked \in {"deviceOn", "deviceOff"} /\ Off /\ radioReceiverEnabled = (asked = "deviceOff")
    BY <1>1 DEF Stages, Waits, Starts, Stops, Pauses, Configures, ConfiguresDecoder
  <1>3. deviceCommands = <<Ordered(asked)>>
    BY <1>2 DEF AtDevice
  <1>4. Head(deviceCommands) = Ordered(asked) /\ Tail(deviceCommands) = <<>>
    BY <1>3
  <1> QED
    BY <1>2, <1>4

LEMMA OrderedCodes ==
  ASSUME asked \in Requests
  PROVE  /\ Ordered(asked).code = "Start" <=> asked = "start"
         /\ Ordered(asked).code = "Stop" <=> asked = "stop"
         /\ Ordered(asked).code = "Pause" <=> asked = "pause"
         /\ Ordered(asked).code = "Resume" <=> asked = "resume"
         /\ Ordered(asked).code = "Configure" <=>
              asked \in {"deviceOn", "deviceOff", "decoderOn", "decoderOff"}
         /\ asked \in {"deviceOn", "decoderOn"} => Ordered(asked).enabled = "on"
         /\ asked \in {"deviceOff", "decoderOff"} => Ordered(asked).enabled = "off"
  BY DEF Requests, Ordered, Request, Configure

LEMMA Handled ==
  ASSUME AtDevice, deviceCommands' = <<>>, UNCHANGED storageClears,
         Keeps(events, events', Reports), Keeps(decoderCommands, decoderCommands', Forwards)
  PROVE  Nowhere'
  BY DEF AtDevice, Nowhere, Keeps

(* The four commands about a stream are taken with the device that is open,  *)
(* and reported.                                                             *)
LEMMA StreamCommandTaken ==
  ASSUME TypeOK, Inv, NEW code \in Streams, NEW after \in Driver, NEW status,
         StreamCommand(code, after, status), UNCHANGED <<decoderTaskVars, windowVars, since>>,
         after.open, after.attached, after.stream >= device.stream,
         Leads("device", asked, DeviceWord, StatusOf(TRUE, after, status))
  PROVE  /\ Fixed' /\ Stories' /\ Nowhere' /\ Ordered(asked).code = code
         /\ radioReceiverEnabled /\ radioReceiverEnabled' /\ radioReceiverStatus' = status
         /\ dpc = "command" /\ dpc' = "refresh" /\ device' = after
         /\ UNCHANGED <<raw, signalQueue, asked>>
  <1>0. /\ Fixed /\ Stages /\ Stories
        /\ device \in Driver /\ device.open /\ radioReceiverEnabled = TRUE /\ radioReceiverEnabled' = TRUE
        /\ device' = after /\ deviceCommands # <<>> /\ Head(deviceCommands).code = code
        /\ UNCHANGED <<signalQueue, raw, plugged, storageClears, since>>
        /\ UNCHANGED <<radioDecoderEnabled, radioDecoderStatus, windowVars, asked>>
        /\ dpc = "command" /\ dpc' = "refresh"
        /\ UpdateDeviceStatus(status, after, TRUE, Tail(deviceCommands))
    <2>1. /\ Fixed /\ Stages /\ Stories /\ device \in Driver /\ radioReceiverEnabled \in BOOLEAN
      BY DEF Inv, TypeOK, DriverTypeOK, DeviceTaskTypeOK
    <2>2. UNCHANGED <<radioDecoderEnabled, radioDecoderStatus, windowVars, asked, since>>
      BY DEF decoderTaskVars, windowVars
    <2>3. /\ Handling(code) /\ radioReceiverEnabled /\ device.open /\ device' = after
          /\ UpdateDeviceStatus(status, after, TRUE, Tail(deviceCommands)) /\ dpc' = "refresh"
          /\ UNCHANGED <<radioReceiverEnabled, raw, plugged, signalQueue, storageClears>>
      BY DEF StreamCommand
    <2>4. deviceCommands # <<>> /\ Head(deviceCommands).code = code /\ dpc = "command"
      BY <2>3 DEF Handling
    <2> QED
      BY <2>1, <2>2, <2>3, <2>4
  <1>7. radioReceiverStatus' = status
    BY <1>0 DEF UpdateDeviceStatus
  <1>1. AtDevice /\ Head(deviceCommands) = Ordered(asked) /\ Tail(deviceCommands) = <<>>
    BY <1>0, DeviceOrders
  <1>2. Tail(deviceCommands) \in Seq(Command)
    <2>1. deviceCommands \in Seq(Command)
      BY DEF TypeOK, CtlTypeOK
    <2> QED
      BY <1>0, <2>1, QueuesTyped
  <1>3. /\ Stories' /\ deviceCommands' = Tail(deviceCommands)
        /\ Keeps(events, events', Reports) /\ Keeps(decoderCommands, decoderCommands', Forwards)
        /\ ctl'.named /\ ctl'.deviceEnabled = TRUE /\ ctl'.decoderEnabled = ctl.decoderEnabled
    BY <1>0, <1>2, DeviceReports
  <1>4. Nowhere'
    BY <1>0, <1>1, <1>3, Handled
  <1>5. since <= after.stream
    <2>1. since \in Nat /\ device.stream \in Nat /\ after.stream \in Nat /\ since <= device.stream
      BY <1>0 DEF TypeOK, Driver, Fixed
    <2> QED
      BY <2>1
  <1>6. Fixed'
    BY <1>0, <1>3, <1>5 DEF Fixed
  <1> QED
    BY <1>0, <1>1, <1>3, <1>4, <1>6, <1>7

(* startDevice: the receiver streams, into a session that waits for it. *)
LEMMA StartKeeps ==
  ASSUME TypeOK, TypeOK', Inv, StartDevice, UNCHANGED <<decoderTaskVars, windowVars, since>>
  PROVE  Inv'
  <1> DEFINE after == StartRx(device)
  <1>0. /\ Fixed /\ Stages /\ Buttons /\ device \in Driver /\ device.open /\ device.attached
        /\ device.stream \in Nat
        /\ UNCHANGED <<cpc, radioDecoderEnabled, radioDecoderStatus, radioSignalQueue, decoded, since>>
        /\ UNCHANGED <<radioDeviceStatus, radioDecoderShown, actionListen, actionStop, pauseChecked,
                       acquireTimer, asked>>
        /\ StreamCommand("Start", after, "Streaming") /\ "Start" \in Streams
        /\ deviceCommands # <<>> /\ Head(deviceCommands).code = "Start"
    BY DEF Inv, Fixed, TypeOK, DriverTypeOK, Driver, StartDevice, StreamCommand, Handling, Streams,
           decoderTaskVars, windowVars
  <1>1. asked = "start" /\ Awaiting
    <2>1. Ordered(asked).code = "Start" /\ asked \in Requests
      BY <1>0, DeviceOrders DEF Requests
    <2> QED
      BY <1>0, <2>1, OrderedCodes, DeviceOrders
  <1>2. Resting /\ ~device.streaming
    BY <1>1 DEF Awaiting, Resting, Halted
  <1>3. /\ after.open /\ after.attached /\ after.streaming = TRUE /\ after.callback = TRUE
        /\ after.paused = FALSE /\ after.received = 0 /\ after.stream = device.stream + 1
        /\ after \in Driver
    <2>1. after \in Driver
      BY <1>0, MethodsTyped
    <2> QED
      BY <1>0, <1>2, <2>1, Methods DEF Driver
  <1> HIDE DEF after
  <1>4. Leads("device", asked, DeviceWord, StatusOf(TRUE, after, "Streaming"))
    <2>1. StatusOf(TRUE, after, "Streaming") = "streaming"
      BY <1>3 DEF StatusOf
    <2>2. DeviceWord = "idle"
      BY <1>0, <1>1, <1>2, DeviceWords DEF Awaiting, Inv
    <2> QED
      BY <1>1, <2>1, <2>2 DEF Leads
  <1>5. after.stream >= device.stream
    BY <1>0, <1>3
  <1>6. /\ Fixed' /\ Stories' /\ Nowhere' /\ radioReceiverEnabled' /\ radioReceiverStatus' = "Streaming"
        /\ dpc = "command" /\ dpc' = "refresh" /\ device' = after /\ UNCHANGED <<raw, signalQueue>>
    BY <1>0, <1>3, <1>4, <1>5, StreamCommandTaken
  <1>7. On'
    <2>1. Live'
      BY <1>3, <1>6 DEF Live, Publishing
    <2>2. signalQueue' = <<>> /\ InHand' = 0
      BY <1>2, <1>6 DEF Resting, InHand
    <2>3. Upstream'
      BY <2>2 DEF Upstream
    <2>4. Shut => Shut'
      BY <1>0, <1>6 DEF Shut
    <2>5. Opening => Opening'
      BY <1>0, <1>6 DEF Opening
    <2>6. Fresh => Listening'
      <3> SUFFICES ASSUME Fresh PROVE Listening'
        OBVIOUS
      <3>1. radioSignalQueue' = <<>> /\ decoded' = NoSamples /\ Open'
        BY <1>0 DEF Fresh, Open
      <3>2. Downstream(Len(radioSignalQueue))'
        BY <3>1 DEF Downstream
      <3> QED
        BY <3>1, <3>2 DEF Listening
    <2>7. since = device.stream => since' < device'.stream
      BY <1>0, <1>3, <1>6
    <2> QED
      BY <1>0, <1>1, <2>1, <2>3, <2>4, <2>5, <2>6, <2>7 DEF Awaiting, On
  <1>8. Stages'
    BY <1>0, <1>1, <1>6, <1>7 DEF Stages, Starts
  <1>9. Buttons'
    <2>1. device.paused = FALSE
      BY <1>0, <1>2 DEF Resting, Halted, Driver
    <2> QED
      BY <1>0, <1>1, <1>3, <1>6, <2>1 DEF Buttons, FeaturesEnabled
  <1> QED
    BY <1>6, <1>8, <1>9 DEF Inv

(* What the stream and the decoder have not noticed: a command that leaves   *)
(* the stream and the buffers alone.                                         *)
LEMMA StreamLeft ==
  ASSUME On, device'.stream = device.stream, device'.received = device.received,
         dpc = "command", dpc' = "refresh",
         UNCHANGED <<signalQueue, raw, decoderTaskVars>>
  PROVE  /\ Upstream' /\ (Shut => Shut') /\ (Opening => Opening') /\ (Listening => Listening')
         /\ ~EndSent /\ (radioReceiverStatus' # "Idle" => ~EndSent')
  <1> USE DEF decoderTaskVars
  <1>1. InHand = 0 /\ InHand' = 0 /\ Handed' = Handed
    BY DEF InHand, Handed
  <1>2. Upstream'
    BY <1>1 DEF On, Upstream
  <1>3. (Shut => Shut') /\ (Opening => Opening')
    BY DEF Shut, Opening
  <1>4. Listening => Listening'
    BY <1>1 DEF Listening, Open, Downstream
  <1>5. ~EndSent /\ (radioReceiverStatus' # "Idle" => ~EndSent')
    BY DEF On, Live, Halted, EndSent, Resting
  <1> QED
    BY <1>2, <1>3, <1>4, <1>5

(* stopDevice: the stream ends, and what is left of it is flushed. *)
LEMMA StopKeeps ==
  ASSUME TypeOK, TypeOK', Inv, StopDevice, UNCHANGED <<decoderTaskVars, windowVars, since>>
  PROVE  Inv'
  <1> DEFINE after == StopRx(device)
  <1>0. /\ Fixed /\ Stages /\ Buttons /\ device \in Driver /\ device.open /\ device.attached
        /\ device.stream \in Nat
        /\ UNCHANGED <<cpc, radioDecoderEnabled, radioDecoderStatus, radioSignalQueue, decoded, since>>
        /\ UNCHANGED <<radioDeviceStatus, radioDecoderShown, actionListen, actionStop, pauseChecked,
                       acquireTimer, asked>>
        /\ StreamCommand("Stop", after, "Flush") /\ "Stop" \in Streams
        /\ deviceCommands # <<>> /\ Head(deviceCommands).code = "Stop"
    BY DEF Inv, Fixed, TypeOK, DriverTypeOK, Driver, StopDevice, StreamCommand, Handling, Streams,
           decoderTaskVars, windowVars
  <1>1. asked = "stop" /\ Running
    <2>1. Ordered(asked).code = "Stop" /\ asked \in Requests
      BY <1>0, DeviceOrders DEF Requests
    <2> QED
      BY <1>0, <2>1, OrderedCodes, DeviceOrders
  <1>2. On /\ Live /\ device.callback /\ cpc # "starting"
    BY <1>1 DEF Running, On, Live
  <1>3. /\ after.open /\ after.attached /\ after.streaming = FALSE /\ after.callback = FALSE
        /\ after.paused = FALSE /\ after.received = device.received /\ after.stream = device.stream
        /\ after \in Driver
    <2>1. after \in Driver
      BY <1>0, MethodsTyped
    <2> QED
      BY <1>0, <1>2, <2>1, Methods DEF Driver
  <1> HIDE DEF after
  <1>4. Leads("device", asked, DeviceWord, StatusOf(TRUE, after, "Flush"))
    <2>1. StatusOf(TRUE, after, "Flush") = "flush"
      BY <1>3 DEF StatusOf
    <2>2. DeviceWord \in {"paused", "streaming"}
      BY <1>0, <1>2, DeviceWords
    <2> QED
      BY <1>1, <2>1, <2>2 DEF Leads
  <1>5. after.stream >= device.stream
    BY <1>0, <1>3
  <1>6. /\ Fixed' /\ Stories' /\ Nowhere' /\ radioReceiverEnabled' /\ radioReceiverStatus' = "Flush"
        /\ dpc = "command" /\ dpc' = "refresh" /\ device' = after /\ UNCHANGED <<raw, signalQueue>>
    BY <1>0, <1>3, <1>4, <1>5, StreamCommandTaken
  <1>7. Ending'
    <2>1. Flushing'
      BY <1>3, <1>6 DEF Flushing, Publishing, Halted
    <2>2. Upstream' /\ (Shut => Shut') /\ (Listening => Listening') /\ ~EndSent'
      BY <1>0, <1>2, <1>3, <1>6, StreamLeft DEF decoderTaskVars
    <2>3. ~Opening
      BY <1>2 DEF Opening
    <2> QED
      BY <1>0, <1>2, <1>3, <1>6, <2>1, <2>2, <2>3 DEF On, Ending
  <1>8. Stages'
    BY <1>0, <1>1, <1>6, <1>7 DEF Stages, Stops
  <1>9. Buttons'
    BY <1>0, <1>1 DEF Buttons, FeaturesEnabled
  <1> QED
    BY <1>6, <1>8, <1>9 DEF Inv

(* pauseDevice and resumeDevice: the stream is the same. *)
LEMMA PauseKeeps ==
  ASSUME TypeOK, TypeOK', Inv, PauseDevice \/ ResumeDevice,
         UNCHANGED <<decoderTaskVars, windowVars, since>>
  PROVE  Inv'
  <1>0. /\ Fixed /\ Stages /\ Buttons /\ device \in Driver /\ device.open /\ device.attached
        /\ device.stream \in Nat /\ deviceCommands # <<>>
        /\ UNCHANGED <<cpc, radioDecoderEnabled, radioDecoderStatus, radioSignalQueue, decoded, since>>
        /\ UNCHANGED <<radioDeviceStatus, radioDecoderShown, actionListen, actionStop, pauseChecked,
                       acquireTimer, asked>>
    BY DEF Inv, Fixed, TypeOK, DriverTypeOK, Driver, PauseDevice, ResumeDevice, StreamCommand, Handling,
           decoderTaskVars, windowVars
  <1>1. /\ Running /\ asked = IF Head(deviceCommands).code = "Pause" THEN "pause" ELSE "resume"
        /\ device.paused = (asked = "resume")
        /\ Head(deviceCommands).code \in {"Pause", "Resume"}
    <2>1. Head(deviceCommands).code \in {"Pause", "Resume"}
      BY DEF PauseDevice, ResumeDevice, StreamCommand, Handling
    <2>2. Ordered(asked) = Head(deviceCommands) /\ asked \in Requests
      BY <1>0, DeviceOrders DEF Requests
    <2>3. asked = IF Head(deviceCommands).code = "Pause" THEN "pause" ELSE "resume"
      BY <2>1, <2>2, OrderedCodes
    <2> QED
      BY <1>0, <2>1, <2>3, DeviceOrders
  <1>2. On /\ Live /\ device.callback /\ cpc # "starting"
    BY <1>1 DEF Running, On, Live
  <1>3. PICK after \in Driver, status \in {"Paused", "Streaming"} :
             /\ StreamCommand(Head(deviceCommands).code, after, status)
             /\ after.open /\ after.attached /\ after.callback = TRUE
             /\ after.received = device.received /\ after.stream = device.stream
             /\ after.paused = (status = "Paused") /\ after.streaming = (status = "Streaming")
             /\ status = IF asked = "pause" THEN "Paused" ELSE "Streaming"
    <2>1. CASE PauseDevice
      <3>1. /\ PauseRx(device) \in Driver
            /\ PauseRx(device).open /\ PauseRx(device).attached /\ ~PauseRx(device).streaming
            /\ PauseRx(device).callback /\ PauseRx(device).paused
            /\ PauseRx(device).received = device.received /\ PauseRx(device).stream = device.stream
        BY <1>0, <1>2, MethodsTyped, Methods
      <3>2. Head(deviceCommands).code = "Pause" /\ StreamCommand("Pause", PauseRx(device), "Paused")
        BY <2>1 DEF PauseDevice, StreamCommand, Handling
      <3>3. /\ PauseRx(device).callback = TRUE /\ PauseRx(device).paused = TRUE
            /\ PauseRx(device).streaming = FALSE
        BY <3>1 DEF Driver
      <3> QED
        BY <1>1, <3>1, <3>2, <3>3
    <2>2. CASE ResumeDevice
      <3>1. Head(deviceCommands).code = "Resume" /\ StreamCommand("Resume", ResumeRx(device), "Streaming")
        BY <2>2 DEF ResumeDevice, StreamCommand, Handling
      <3>2. device.paused
        BY <1>1, <3>1
      <3>3. /\ ResumeRx(device) \in Driver
            /\ ResumeRx(device).open /\ ResumeRx(device).attached /\ ResumeRx(device).streaming
            /\ ResumeRx(device).callback /\ ~ResumeRx(device).paused
            /\ ResumeRx(device).received = device.received /\ ResumeRx(device).stream = device.stream
        BY <1>0, <1>2, <3>2, MethodsTyped, Methods
      <3>4. /\ ResumeRx(device).callback = TRUE /\ ResumeRx(device).paused = FALSE
            /\ ResumeRx(device).streaming = TRUE
        BY <3>3 DEF Driver
      <3> QED
        BY <1>1, <3>1, <3>3, <3>4
    <2> QED
      BY <2>1, <2>2
  <1>4. Leads("device", asked, DeviceWord, StatusOf(TRUE, after, status))
    <2>1. StatusOf(TRUE, after, status) = IF status = "Paused" THEN "paused" ELSE "streaming"
      BY <1>3 DEF StatusOf
    <2>2. DeviceWord = IF device.paused THEN "paused" ELSE "streaming"
      BY <1>0, <1>2, DeviceWords
    <2> QED
      BY <1>1, <1>3, <2>1, <2>2 DEF Leads
  <1>5. after.stream >= device.stream
    BY <1>0, <1>3
  <1>6. /\ Fixed' /\ Stories' /\ Nowhere' /\ radioReceiverEnabled' /\ radioReceiverStatus' = status
        /\ dpc = "command" /\ dpc' = "refresh" /\ device' = after /\ UNCHANGED <<raw, signalQueue>>
    <2>1. Head(deviceCommands).code \in Streams
      BY <1>1 DEF Streams
    <2> QED
      BY <1>3, <1>4, <1>5, <2>1, StreamCommandTaken
  <1>7. Running'
    <2>1. Live'
      BY <1>3, <1>6 DEF Live, Publishing
    <2>2. Upstream' /\ (Shut => Shut') /\ (Listening => Listening') /\ (Opening => Opening')
      BY <1>0, <1>2, <1>3, <1>6, StreamLeft DEF decoderTaskVars
    <2> QED
      BY <1>0, <1>2, <1>3, <1>6, <2>1, <2>2 DEF On, Running
  <1>8. Stages'
    BY <1>0, <1>1, <1>6, <1>7 DEF Stages, Pauses
  <1>9. Buttons'
    BY <1>0, <1>1, <1>2, <1>3, <1>6 DEF Buttons, FeaturesEnabled
  <1> QED
    BY <1>6, <1>8, <1>9 DEF Inv

(* configDevice: nothing runs, the receiver is switched on or off. *)
LEMMA ConfigKeeps ==
  ASSUME TypeOK, TypeOK', Inv, ConfigDevice, UNCHANGED <<decoderTaskVars, windowVars, since>>
  PROVE  Inv'
  <1> DEFINE on == asked = "deviceOn"
  <1>0. /\ Fixed /\ Stages /\ Stories /\ Buttons /\ device \in Driver /\ device.open /\ device.attached
        /\ deviceCommands \in Seq(Command)
        /\ UNCHANGED <<cpc, radioDecoderEnabled, radioDecoderStatus, radioSignalQueue, decoded, since>>
        /\ UNCHANGED <<radioDeviceStatus, radioDecoderShown, actionListen, actionStop, pauseChecked,
                       acquireTimer, asked>>
        /\ deviceCommands # <<>> /\ Head(deviceCommands).code = "Configure" /\ dpc = "command"
        /\ UNCHANGED <<signalQueue, raw, plugged, storageClears>>
    BY DEF Inv, Fixed, TypeOK, DriverTypeOK, CtlTypeOK, ConfigDevice, Handling,
           decoderTaskVars, windowVars
  <1>1. /\ asked \in {"deviceOn", "deviceOff"} /\ Off /\ radioReceiverEnabled = (asked = "deviceOff")
        /\ AtDevice /\ Tail(deviceCommands) = <<>>
        /\ Head(deviceCommands).enabled = IF on THEN "on" ELSE "off"
    <2>1. Ordered(asked) = Head(deviceCommands) /\ asked \in Requests
      BY <1>0, DeviceOrders DEF Requests
    <2>2. asked \in {"deviceOn", "deviceOff"}
      BY <1>0, <2>1, OrderedCodes, DeviceOrders
    <2> QED
      BY <1>0, <2>1, <2>2, OrderedCodes, DeviceOrders
  <1>2. Resting /\ Shut /\ Halted /\ device.streaming = FALSE /\ radioReceiverStatus = "Idle"
    BY <1>0, <1>1 DEF Off, Resting, Halted, Driver
  <1>3. Apply(Head(deviceCommands).enabled, radioReceiverEnabled) = on
    BY <1>1 DEF Apply
  <1>4. /\ radioReceiverEnabled' = on /\ device' = device
        /\ UpdateDeviceStatus("Idle", device, on, Tail(deviceCommands))
        /\ dpc' = IF on THEN "refresh" ELSE "command"
    BY <1>2, <1>3 DEF ConfigDevice
  <1>5. Leads("device", asked, DeviceWord, StatusOf(on, device, "Idle"))
    <2>1. StatusOf(on, device, "Idle") = IF on THEN "idle" ELSE "disabled"
      BY <1>0, <1>2 DEF StatusOf, Halted
    <2>2. DeviceWord = IF radioReceiverEnabled THEN "idle" ELSE "disabled"
      BY <1>0, <1>2, DeviceWords
    <2> QED
      BY <1>1, <2>1, <2>2 DEF Leads
  <1>6. Tail(deviceCommands) \in Seq(Command)
    BY <1>0, QueuesTyped
  <1>7. /\ Stories' /\ deviceCommands' = Tail(deviceCommands)
        /\ Keeps(events, events', Reports) /\ Keeps(decoderCommands, decoderCommands', Forwards)
        /\ ctl'.named /\ ctl'.deviceEnabled = on /\ ctl'.decoderEnabled = ctl.decoderEnabled
    <2>1. on \in BOOLEAN
      OBVIOUS
    <2>2. UNCHANGED <<radioDecoderEnabled, radioDecoderStatus, windowVars>>
      BY <1>0
    <2> HIDE DEF on
    <2> QED
      BY <1>0, <1>4, <1>5, <1>6, <2>1, <2>2, DeviceReports
  <1>8. Nowhere'
    BY <1>0, <1>1, <1>7, Handled
  <1>9. Off'
    <2>1. radioReceiverStatus' = "Idle"
      BY <1>4 DEF UpdateDeviceStatus
    <2> QED
      BY <1>0, <1>2, <1>4, <2>1 DEF Off, Resting, Halted, Shut
  <1>10. Stages'
    BY <1>0, <1>1, <1>8, <1>9 DEF Stages, Configures
  <1>11. Fixed'
    BY <1>0, <1>4, <1>7 DEF Fixed
  <1>12. Buttons'
    BY <1>0, <1>4 DEF Buttons, FeaturesEnabled
  <1> QED
    BY <1>7, <1>10, <1>11, <1>12 DEF Inv

-----------------------------------------------------------------------------
(* The commands of the decoder task *)

(* A command is what QtControl forwards, or the one request under way. *)
LEMMA DecoderOrders ==
  ASSUME TypeOK, Stages, decoderCommands # <<>>
  PROVE  \/ Head(decoderCommands) = Configure("keep")
            /\ Keeps(decoderCommands, Tail(decoderCommands), Forwards)
         \/ /\ AtDecoder /\ Head(decoderCommands) = Ordered(asked)
            /\ Without(Tail(decoderCommands), Forwards)
            /\ \/ asked = "start" /\ Off /\ radioReceiverEnabled /\ radioDecoderEnabled
               \/ asked \in {"decoderOn", "decoderOff"} /\ Off
                  /\ radioDecoderEnabled = (asked = "decoderOff")
  <1>0. decoderCommands \in Seq(Command)
    BY DEF TypeOK, CtlTypeOK
  <1>1. /\ Without(decoderCommands, Forwards) => Head(decoderCommands) \in Forwards
        /\ \A item : With(decoderCommands, item, Forwards) =>
             Head(decoderCommands) \in Forwards \/ (Head(decoderCommands) = item /\ Without(Tail(decoderCommands), Forwards))
    BY <1>0, Taken
  <1>2. CASE Head(decoderCommands) \in Forwards
    <2>1. Keeps(decoderCommands, Tail(decoderCommands), Forwards)
      BY <1>0, <1>2, KeepsWithLess
    <2> QED
      BY <1>2, <2>1 DEF Forwards
  <1>3. CASE Head(decoderCommands) \notin Forwards
    <2>1. ~AtGui /\ ~AtStorage /\ ~AtDevice /\ ~Nowhere
      BY <1>1, <1>3 DEF AtGui, AtStorage, AtDevice, Nowhere
    <2>2. /\ AtDecoder
          /\ \/ asked = "start" /\ Off /\ radioReceiverEnabled /\ radioDecoderEnabled
             \/ asked \in {"decoderOn", "decoderOff"} /\ Off
                /\ radioDecoderEnabled = (asked = "decoderOff")
      BY <2>1 DEF Stages, Waits, Starts, Stops, Pauses, Configures, ConfiguresDecoder
    <2>3. Head(decoderCommands) = Ordered(asked) /\ Without(Tail(decoderCommands), Forwards)
      BY <1>1, <1>3, <2>2 DEF AtDecoder
    <2> QED
      BY <2>2, <2>3
  <1> QED
    BY <1>2, <1>3

(* A decoder that is switched off does not get a start. *)
LEMMA NoStartRejected ==
  ASSUME TypeOK, Inv, RejectStart
  PROVE  FALSE
  <1>1. /\ Stages /\ decoderCommands # <<>> /\ Head(decoderCommands).code = "Start" /\ ~radioDecoderEnabled
    BY DEF Inv, RejectStart, HandlingDecoder
  <1>2. AtDecoder /\ Head(decoderCommands) = Ordered(asked) /\ asked \in {"decoderOn", "decoderOff"}
    BY <1>1, DecoderOrders DEF Configure
  <1> QED
    BY <1>1, <1>2 DEF Ordered, Configure

(* startDecoder: the receiver is ordered to start, and the session waits. *)
LEMMA StartDecoderKeeps ==
  ASSUME TypeOK, TypeOK', Inv, StartDecoder, since' = device.stream,
         UNCHANGED <<driverVars, deviceTaskVars, windowVars>>
  PROVE  Inv'
  <1>0. /\ Fixed /\ Stages /\ Stories /\ Buttons /\ device.stream \in Nat
        /\ UNCHANGED <<device, radioReceiverEnabled, radioReceiverStatus, signalQueue, raw, dpc, plugged>>
        /\ UNCHANGED <<radioDeviceStatus, radioDecoderShown, actionListen, actionStop, pauseChecked,
                       acquireTimer, asked>>
        /\ UNCHANGED <<radioDecoderEnabled, radioDecoderStatus, events, storageClears, ctl>>
        /\ decoderCommands # <<>> /\ Head(decoderCommands).code = "Start"
        /\ decoderCommands' = Tail(decoderCommands)
        /\ radioSignalQueue' = <<>> /\ decoded' = NoSamples /\ cpc' = "starting"
        /\ deviceCommands' = Append(deviceCommands, Request("Start"))
    BY DEF Inv, TypeOK, DriverTypeOK, Driver, StartDecoder, HandlingDecoder, DecoderStarted, driverVars,
           deviceTaskVars, windowVars
  <1>1. /\ AtDecoder /\ Without(decoderCommands', Forwards)
        /\ asked = "start" /\ Off /\ radioReceiverEnabled /\ radioDecoderEnabled
    <2>1. /\ AtDecoder /\ Head(decoderCommands) = Ordered(asked) /\ Without(Tail(decoderCommands), Forwards)
          /\ asked \in Requests
      BY <1>0, DecoderOrders DEF Configure, Requests
    <2>2. Ordered(asked).code = "Start"
      BY <1>0, <2>1
    <2> QED
      BY <1>0, <2>1, <2>2, OrderedCodes, DecoderOrders DEF Configure
  <1>2. deviceCommands = <<>>
    BY <1>1 DEF AtDecoder
  <1>3. deviceCommands' = <<Ordered("start")>>
    BY <1>0, <1>2 DEF Ordered
  <1>4. AtDevice'
    BY <1>0, <1>1, <1>3 DEF AtDecoder, AtDevice
  <1>5. Awaiting'
    <2>1. Resting'
      BY <1>0, <1>1 DEF Off, Resting, Halted
    <2>2. Opening'
      BY <1>0, <1>1 DEF Off, Shut, Opening
    <2> QED
      BY <1>0, <1>1, <2>1, <2>2 DEF Awaiting
  <1>6. Stages'
    BY <1>0, <1>1, <1>4, <1>5 DEF Stages, Starts
  <1>7. Fixed'
    BY <1>0 DEF Fixed
  <1>8. Stories'
    BY <1>0 DEF Stories, DeviceStory, DecoderStory, DeviceWord, DecoderWord
  <1>9. Buttons'
    BY <1>0 DEF Buttons, FeaturesEnabled
  <1> QED
    BY <1>6, <1>7, <1>8, <1>9 DEF Inv

(* configDecoder, of what is forwarded: nothing changes. *)
LEMMA ForwardKeeps ==
  ASSUME TypeOK, TypeOK', Inv, ConfigDecoder, Head(decoderCommands) = Configure("keep"),
         Keeps(decoderCommands, Tail(decoderCommands), Forwards),
         UNCHANGED <<driverVars, deviceTaskVars, windowVars, since>>
  PROVE  Inv'
  <1>0. /\ Fixed /\ Stages /\ Stories /\ Buttons
        /\ UNCHANGED <<device, radioReceiverEnabled, radioReceiverStatus, signalQueue, raw, dpc, plugged>>
        /\ UNCHANGED <<radioDeviceStatus, radioDecoderShown, actionListen, actionStop, pauseChecked,
                       acquireTimer, asked, decoded, deviceCommands, storageClears>>
        /\ decoderCommands' = Tail(decoderCommands) /\ cpc = "command" /\ cpc' = "decode"
        /\ radioDecoderEnabled \in BOOLEAN
    BY DEF Inv, TypeOK, DecoderTaskTypeOK, ConfigDecoder, HandlingDecoder, driverVars, deviceTaskVars,
           windowVars
  <1>1. radioDecoderEnabled \/ radioDecoderStatus = "Idle"
    BY <1>0 DEF Stages, Waits, Starts, Stops, Pauses, Configures, ConfiguresDecoder, Off, Awaiting, On,
                Running, Ending, Shut
  <1>2. /\ radioDecoderEnabled' = radioDecoderEnabled /\ radioSignalQueue' = radioSignalQueue
        /\ UpdateDecoderStatus(radioDecoderStatus, radioDecoderEnabled)
        /\ radioDecoderStatus' = radioDecoderStatus
    <2>1. Apply(Head(decoderCommands).enabled, radioDecoderEnabled) = radioDecoderEnabled
      BY DEF Configure, Apply
    <2>2. ~(~radioDecoderEnabled /\ radioDecoderStatus = "Streaming")
      BY <1>1
    <2> QED
      BY <2>1, <2>2 DEF ConfigDecoder, UpdateDecoderStatus
  <1>3. PhasesKept
    BY <1>0, <1>2, DecoderPasses
  <1>4. Leads("decoder", asked, DecoderWord, DecoderWord)
    BY LeadsOrders
  <1>5. /\ Stories' /\ Keeps(events, events', Reports)
        /\ ctl'.named /\ ctl'.deviceEnabled = ctl.deviceEnabled
        /\ ctl'.decoderEnabled = radioDecoderEnabled
    <2>1. DecoderWord = IF ~radioDecoderEnabled THEN "disabled"
                        ELSE IF radioDecoderStatus = "Streaming" THEN "decoding" ELSE "idle"
      BY DEF DecoderWord
    <2> QED
      BY <1>0, <1>2, <1>4, <2>1, DecoderReports
  <1>6. Stages'
    <2>1. PlacesKept
      BY <1>0, <1>5, NoisePasses
    <2> QED
      BY <1>0, <1>2, <1>3, <2>1, StageLasts
  <1>7. Fixed'
    BY <1>0, <1>2, <1>5 DEF Fixed
  <1>8. Buttons'
    BY <1>0 DEF Buttons, FeaturesEnabled
  <1> QED
    BY <1>5, <1>6, <1>7, <1>8 DEF Inv

(* configDecoder, of a request: nothing is decoded, the decoder is switched. *)
LEMMA SwitchKeeps ==
  ASSUME TypeOK, TypeOK', Inv, ConfigDecoder, AtDecoder, Head(decoderCommands) = Ordered(asked),
         Without(Tail(decoderCommands), Forwards),
         asked \in {"decoderOn", "decoderOff"}, Off, radioDecoderEnabled = (asked = "decoderOff"),
         UNCHANGED <<driverVars, deviceTaskVars, windowVars, since>>
  PROVE  Inv'
  <1> DEFINE on == asked = "decoderOn"
             word == IF on THEN "idle" ELSE "disabled"
  <1>0. /\ Fixed /\ Stages /\ Stories /\ Buttons
        /\ UNCHANGED <<device, radioReceiverEnabled, radioReceiverStatus, signalQueue, raw, dpc, plugged>>
        /\ UNCHANGED <<radioDeviceStatus, radioDecoderShown, actionListen, actionStop, pauseChecked,
                       acquireTimer, asked, decoded, deviceCommands, storageClears>>
        /\ decoderCommands' = Tail(decoderCommands) /\ cpc = "command" /\ cpc' = "decode"
    BY DEF Inv, ConfigDecoder, HandlingDecoder, driverVars, deviceTaskVars, windowVars
  <1>1. /\ radioDecoderStatus = "Idle" /\ radioSignalQueue = <<>> /\ dpc # "enqueue" /\ Resting
    BY DEF Off, Shut
  <1>2. Apply(Head(decoderCommands).enabled, radioDecoderEnabled) = on
    <2>1. Head(decoderCommands).enabled = IF on THEN "on" ELSE "off"
      BY DEF Ordered, Configure
    <2> QED
      BY <2>1 DEF Apply
  <1>3. /\ radioDecoderEnabled' = on /\ radioSignalQueue' = <<>>
        /\ UpdateDecoderStatus("Idle", on) /\ radioDecoderStatus' = "Idle"
    BY <1>1, <1>2 DEF ConfigDecoder, UpdateDecoderStatus
  <1>4. Leads("decoder", asked, DecoderWord, word)
    <2>1. DecoderWord = IF radioDecoderEnabled THEN "idle" ELSE "disabled"
      BY <1>1 DEF DecoderWord
    <2> QED
      BY <2>1 DEF Leads
  <1>5. /\ Stories' /\ Keeps(events, events', Reports)
        /\ ctl'.named /\ ctl'.deviceEnabled = ctl.deviceEnabled /\ ctl'.decoderEnabled = on
    <2>1. on \in BOOLEAN /\ word = IF ~on THEN "disabled"
                                   ELSE IF "Idle" = "Streaming" THEN "decoding" ELSE "idle"
      OBVIOUS
    <2> HIDE DEF on, word
    <2> QED
      BY <1>0, <1>3, <1>4, <2>1, DecoderReports
  <1>6. Nowhere'
    BY <1>0, <1>5 DEF AtDecoder, Nowhere, Keeps
  <1>7. Off'
    BY <1>0, <1>1, <1>3 DEF Off, Resting, Halted, Shut
  <1>8. Stages'
    BY <1>0, <1>6, <1>7 DEF Stages, ConfiguresDecoder
  <1>9. Fixed'
    BY <1>0, <1>3, <1>5 DEF Fixed
  <1>10. Buttons'
    BY <1>0 DEF Buttons, FeaturesEnabled
  <1> QED
    BY <1>5, <1>8, <1>9, <1>10 DEF Inv

(* The steps of the decoder task. *)
LEMMA DecoderKeeps ==
  ASSUME TypeOK, TypeOK', Inv, DecoderThread
  PROVE  Inv'
  <1>0. /\ DecoderTaskStep /\ UNCHANGED <<driverVars, deviceTaskVars, windowVars>> /\ Stages
        /\ since' = IF cpc = "command" /\ cpc' = "starting" THEN device.stream ELSE since
    BY DEF DecoderThread, Inv
  <1>1. CASE StartDecoder
    BY <1>0, <1>1, StartDecoderKeeps DEF StartDecoder, HandlingDecoder
  <1>2. CASE ConfigDecoder
    <2>1. since' = since /\ decoderCommands # <<>> /\ Head(decoderCommands).code = "Configure"
      BY <1>0, <1>2 DEF ConfigDecoder, HandlingDecoder
    <2>2. ~(asked = "start" /\ Head(decoderCommands) = Ordered(asked))
      BY <2>1 DEF Ordered, Request
    <2> QED
      BY <1>0, <1>2, <2>1, <2>2, DecoderOrders, ForwardKeeps, SwitchKeeps
  <1>3. CASE DecoderStreaming
    BY <1>0, <1>3, StreamingKeeps DEF DecoderStreaming
  <1>4. CASE FinishDecoding
    BY <1>0, <1>4, FinishKeeps DEF FinishDecoding
  <1>5. CASE NoDecoderCommand \/ DecodeBuffer \/ NothingToDecode
    <2>1. since' = since
      BY <1>0, <1>5 DEF NoDecoderCommand, DecodeBuffer, NothingToDecode
    <2> QED
      BY <1>0, <1>5, <2>1, QuietSteps
  <1> QED
    BY <1>0, <1>1, <1>2, <1>3, <1>4, <1>5, NoStartRejected DEF DecoderTaskStep

(* The steps of the device task; with the receiver there and enabled, no     *)
(* command is refused and no device is looked for.                           *)
LEMMA DeviceKeeps ==
  ASSUME TypeOK, TypeOK', Inv, DeviceThread
  PROVE  Inv'
  <1>0. /\ Fixed /\ Stages /\ device.open /\ device.attached
        /\ \/ DeviceTaskStep /\ UNCHANGED <<decoderTaskVars, windowVars, since>>
           \/ DeliverRaw
           \/ EnqueueRaw
    BY DEF DeviceThread, Inv, Fixed
  <1>1. ~RejectCommand /\ ~IgnoreCommand
    <2>1. ASSUME \E code \in Streams : Handling(code) PROVE radioReceiverEnabled
      <3>1. deviceCommands # <<>> /\ Head(deviceCommands).code \in Streams
        BY <2>1 DEF Handling
      <3>2. Head(deviceCommands) = Ordered(asked) /\ asked \in Requests
        BY <1>0, <3>1, DeviceOrders DEF Requests
      <3>3. asked \in {"start", "stop", "pause", "resume"}
        BY <3>1, <3>2, OrderedCodes DEF Streams, Requests
      <3>4. Awaiting \/ Running
        BY <1>0, <3>1, <3>3, DeviceOrders
      <3> QED
        BY <3>4 DEF Awaiting, Running, On, Live
    <2> QED
      BY <1>0, <2>1 DEF RejectCommand, IgnoreCommand
  <1>2. ~Attach /\ ~Detach
    BY <1>0 DEF Attach, Detach, IsReady
  <1>3. ~Detached
    <2> SUFFICES ASSUME Detached PROVE FALSE
      OBVIOUS
    <2>1. dpc = "published" /\ raw.kind = "detach"
      BY DEF Detached
    <2>2. ~Resting /\ ~Live /\ ~Flushing
      BY <2>1 DEF Resting, Live, Flushing, Publishing, EndOfStream
    <2> QED
      BY <1>0, <2>2 DEF Stages, Waits, Starts, Stops, Pauses, Configures, ConfiguresDecoder, Off,
                        Awaiting, On, Running, Ending
  <1>4. CASE DeliverRaw \/ EnqueueRaw
    BY <1>4, QuietSteps
  <1>5. CASE DeviceTaskStep /\ UNCHANGED <<decoderTaskVars, windowVars, since>>
    BY <1>1, <1>2, <1>3, <1>5, StartKeeps, StopKeeps, PauseKeeps, ConfigKeeps, RefreshKeeps,
       FlushedKeeps, QuietSteps DEF DeviceTaskStep, Refresh
  <1> QED
    BY <1>0, <1>4, <1>5

-----------------------------------------------------------------------------
(* The storage task, the window and the user *)

(* A step of the control or the window leaves the phase alone. *)
LEMMA PhaseStays ==
  ASSUME UNCHANGED <<driverVars, deviceTaskVars, decoderTaskVars, since>>
  PROVE  /\ Off => Off'
         /\ On => On'
         /\ Running => Running'
         /\ Ending => Ending'
         /\ Awaiting <=> Awaiting'
         /\ DeviceWord' = DeviceWord /\ DecoderWord' = DecoderWord
         /\ UNCHANGED <<plugged, device, dpc, radioReceiverEnabled, radioReceiverStatus,
                        radioDecoderEnabled, radioDecoderStatus, cpc>>
  <1> USE DEF driverVars, deviceTaskVars, decoderTaskVars
  <1>1. /\ UNCHANGED <<plugged, device, signalQueue, dpc, radioReceiverEnabled, radioReceiverStatus, raw,
                       cpc, radioDecoderEnabled, radioDecoderStatus, radioSignalQueue, decoded>>
        /\ DeviceWord' = DeviceWord /\ DecoderWord' = DecoderWord
    BY DEF DeviceWord, DecoderWord
  <1>2. (Resting <=> Resting') /\ (Live => Live') /\ (Flushing => Flushing') /\ (EndSent <=> EndSent')
    BY <1>1 DEF Resting, Live, Flushing, Publishing, Halted, EndSent
  <1>3. (Shut <=> Shut') /\ (Opening <=> Opening') /\ (Fresh <=> Fresh')
    BY <1>1 DEF Shut, Opening, Fresh, Open
  <1>4. Handed' = Handed /\ (Upstream => Upstream')
    BY <1>1 DEF Handed, InHand, Upstream
  <1>5. (Listening => Listening') /\ (Finishing => Finishing')
    BY <1>1, <1>4 DEF Listening, Finishing, Open, Downstream
  <1>6. (Off => Off') /\ (Awaiting <=> Awaiting')
    BY <1>1, <1>2, <1>3 DEF Off, Awaiting
  <1>7. (On => On') /\ (Running => Running')
    BY <1>1, <1>2, <1>3, <1>4, <1>5 DEF On, Running
  <1>8. Ending => Ending'
    BY <1>1, <1>2, <1>3, <1>4, <1>5 DEF Ending
  <1> QED
    BY <1>1, <1>6, <1>7, <1>8

(* startDecoders: the storage has been cleared, and the decoder, or the      *)
(* receiver when the decoder is off, gets its start.                         *)
LEMMA StorageKeeps ==
  ASSUME TypeOK, TypeOK', Inv, StorageThread
  PROVE  Inv'
  <1>0. /\ Fixed /\ Stages /\ Stories /\ Buttons
        /\ UNCHANGED <<driverVars, deviceTaskVars, decoderTaskVars, since>>
        /\ UNCHANGED <<radioDeviceStatus, radioDecoderShown, actionListen, actionStop, pauseChecked,
                       acquireTimer, asked, events, ctl>>
        /\ storageClears > 0 /\ storageClears' = storageClears - 1 /\ storageClears \in Nat
        /\ StartDecoders /\ decoderCommands \in Seq(Command)
    BY DEF Inv, StorageThread, StartDecoders, windowVars, TypeOK, CtlTypeOK
  <1>1. AtStorage /\ asked = "start" /\ Off /\ radioReceiverEnabled
    <2>1. storageClears # 0
      BY <1>0
    <2>2. ~AtGui /\ ~AtDecoder /\ ~AtDevice /\ ~Nowhere
      BY <2>1 DEF AtGui, AtDecoder, AtDevice, Nowhere
    <2> QED
      BY <1>0, <2>2 DEF Stages, Waits, Starts, Stops, Pauses, Configures, ConfiguresDecoder
  <1>2. storageClears' = 0 /\ deviceCommands = <<>> /\ Without(decoderCommands, Forwards)
    BY <1>0, <1>1 DEF AtStorage
  <1>3. ctl.named /\ ctl.deviceEnabled = TRUE /\ ctl.decoderEnabled = radioDecoderEnabled
    <2>1. ctl.deviceEnabled \in BOOLEAN
      BY DEF TypeOK, CtlTypeOK, Ctl
    <2> QED
      BY <1>0, <1>1, <2>1 DEF Fixed
  <1>4. Ordered(asked) = Request("Start") /\ Request("Start") \in Command
    BY <1>1, WordsTyped DEF Ordered, Codes
  <1>5. CASE radioDecoderEnabled
    <2>1. decoderCommands' = Append(decoderCommands, Ordered(asked)) /\ deviceCommands' = deviceCommands
      BY <1>0, <1>3, <1>4, <1>5 DEF StartDecoders
    <2>2. With(decoderCommands', Ordered(asked), Forwards)
      BY <1>0, <1>2, <1>4, <2>1, WithJoins
    <2>3. AtDecoder'
      BY <1>0, <1>1, <1>2, <2>1, <2>2 DEF AtStorage, AtDecoder
    <2> QED
      BY <1>0, <1>1, <1>5, <2>3, PhaseStays DEF Stages, Starts, Inv, Fixed, Stories, DeviceStory,
                                                DecoderStory, Buttons, FeaturesEnabled
  <1>6. CASE ~radioDecoderEnabled
    <2>1. decoderCommands' = decoderCommands /\ deviceCommands' = <<Ordered(asked)>>
      BY <1>0, <1>2, <1>3, <1>4, <1>6 DEF StartDecoders
    <2>2. AtDevice'
      BY <1>0, <1>1, <1>2, <2>1 DEF AtStorage, AtDevice
    <2>3. Awaiting
      BY <1>1, <1>6 DEF Off, Awaiting
    <2> QED
      BY <1>0, <1>1, <2>2, <2>3, PhaseStays DEF Stages, Starts, Inv, Fixed, Stories, DeviceStory,
                                                DecoderStory, Buttons, FeaturesEnabled
  <1> QED
    BY <1>5, <1>6

(* decoderControlEvent: the request goes on to the storage task, the device  *)
(* task or the decoder task.                                                 *)
LEMMA ControlKeeps ==
  ASSUME TypeOK, TypeOK', Inv, ControlEvent,
         UNCHANGED <<driverVars, deviceTaskVars, decoderTaskVars, since>>
  PROVE  Inv'
  <1>0. /\ Fixed /\ Stages /\ Stories /\ Buttons
        /\ UNCHANGED <<radioDeviceStatus, radioDecoderShown, actionListen, actionStop, pauseChecked,
                       acquireTimer, asked>>
        /\ events \in Seq(Event) /\ events # <<>> /\ ctl \in Ctl /\ ctl.named
        /\ decoderCommands \in Seq(Command)
        /\ DecoderControlEvent(Head(events), Tail(events))
    BY DEF Inv, Fixed, ControlEvent, windowVars, TypeOK, CtlTypeOK
  <1>1. Head(events).kind \in {"control", "deviceConfig", "decoderConfig"}
    BY <1>0 DEF DecoderControlEvent
  <1>2. Head(events) \notin Reports
    <2>1. \A r \in Reports : r.kind \in {"device", "decoder"}
      BY DEF Reports
    <2> QED
      BY <1>1, <2>1
  <1>3. /\ AtGui /\ Head(events) = Posted(asked) /\ Without(Tail(events), Reports)
        /\ \/ asked = "start" /\ Off /\ radioReceiverEnabled
           \/ asked = "stop" /\ Running
           \/ asked \in {"pause", "resume"} /\ Running /\ device.paused = (asked = "resume")
           \/ asked \in {"deviceOn", "deviceOff"} /\ Off /\ radioReceiverEnabled = (asked = "deviceOff")
           \/ asked \in {"decoderOn", "decoderOff"} /\ Off
              /\ radioDecoderEnabled = (asked = "decoderOff")
    <2>1. /\ Without(events, Reports) => Head(events) \in Reports
          /\ With(events, Posted(asked), Reports) =>
               Head(events) \in Reports \/ (Head(events) = Posted(asked) /\ Without(Tail(events), Reports))
      BY <1>0, Taken
    <2>2. ~AtStorage /\ ~AtDecoder /\ ~AtDevice /\ ~Nowhere
      BY <1>2, <2>1 DEF AtStorage, AtDecoder, AtDevice, Nowhere
    <2>3. AtGui
      BY <1>0, <2>2 DEF Stages, Waits, Starts, Stops, Pauses, Configures, ConfiguresDecoder
    <2>4. Head(events) = Posted(asked) /\ Without(Tail(events), Reports)
      BY <1>2, <2>1, <2>3 DEF AtGui
    <2> QED
      BY <1>0, <2>2, <2>3, <2>4 DEF Stages, Waits, Starts, Stops, Pauses, Configures, ConfiguresDecoder
  <1>4. storageClears = 0 /\ Without(decoderCommands, Forwards) /\ deviceCommands = <<>>
    BY <1>3 DEF AtGui
  <1>5. /\ events' = Tail(events) /\ ctl'.named /\ ctl'.deviceEnabled = ctl.deviceEnabled
        /\ ctl'.decoderEnabled = ctl.decoderEnabled
        /\ asked = "start" => AtStorage'
        /\ asked \in {"stop", "pause", "resume", "deviceOn", "deviceOff"} => AtDevice'
        /\ asked \in {"decoderOn", "decoderOff"} => AtDecoder'
    <2>1. CASE asked = "start"
      <3>1. DoStartDecode(Tail(events))
        BY <1>0, <1>3, <2>1 DEF DecoderControlEvent, Posted
      <3> QED
        BY <1>0, <1>3, <1>4, <2>1, <3>1 DEF DoStartDecode, AtStorage
    <2>2. CASE asked \in {"stop", "pause", "resume"}
      <3>1. PICK code : ToDevice(code, Tail(events)) /\ Request(code) = Ordered(asked)
        BY <1>0, <1>3, <2>2 DEF DecoderControlEvent, Posted, Ordered, DoStopDecode, DoPauseDecode,
                                DoResumeDecode
      <3> QED
        BY <1>0, <1>3, <1>4, <2>2, <3>1 DEF ToDevice, AtDevice
    <2>3. CASE asked \in {"deviceOn", "deviceOff"}
      <3>1. PICK flag : DoRadioDeviceConfig(flag, Tail(events)) /\ Configure(flag) = Ordered(asked)
        BY <1>0, <1>3, <2>3 DEF DecoderControlEvent, Posted, Ordered
      <3>2. /\ ctl'.named /\ ctl'.deviceEnabled = ctl.deviceEnabled
            /\ ctl'.decoderEnabled = ctl.decoderEnabled
        BY <1>0, <3>1 DEF DoRadioDeviceConfig, Ctl
      <3> QED
        BY <1>0, <1>3, <1>4, <2>3, <3>1, <3>2 DEF DoRadioDeviceConfig, AtDevice
    <2>4. CASE asked \in {"decoderOn", "decoderOff"}
      <3>1. PICK flag \in Enabled : DoRadioDecoderConfig(flag, Tail(events)) /\ Configure(flag) = Ordered(asked)
        BY <1>0, <1>3, <2>4 DEF DecoderControlEvent, Posted, Ordered, Enabled
      <3>2. Ordered(asked) \in Command
        BY <3>1, WordsTyped
      <3>3. With(decoderCommands', Ordered(asked), Forwards)
        BY <1>0, <1>4, <3>1, <3>2, WithJoins DEF DoRadioDecoderConfig
      <3> QED
        BY <1>0, <1>3, <1>4, <2>4, <3>1, <3>3 DEF DoRadioDecoderConfig, AtDecoder
    <2> QED
      BY <1>3, <2>1, <2>2, <2>3, <2>4
  <1>6. Stages'
    BY <1>0, <1>3, <1>5, PhaseStays DEF Stages, Starts, Stops, Pauses, Configures, ConfiguresDecoder
  <1>7. Fixed'
    BY <1>0, <1>5, PhaseStays DEF Fixed
  <1>8. Stories'
    <2>1. Head(events).kind # "device" /\ Head(events).kind # "decoder"
      BY <1>1
    <2>2. /\ Story(Tail(events), "device", asked, radioDeviceStatus, DeviceWord)
          /\ Story(Tail(events), "decoder", asked, radioDecoderShown, DecoderWord)
      BY <1>0, <2>1, StoryShows DEF Stories, DeviceStory, DecoderStory
    <2> QED
      BY <1>0, <1>5, <2>2, PhaseStays DEF Stories, DeviceStory, DecoderStory
  <1>9. Buttons'
    BY <1>0, PhaseStays DEF Buttons, FeaturesEnabled
  <1> QED
    BY <1>6, <1>7, <1>8, <1>9 DEF Inv

(* What the statuses say of the phase. *)
LEMMA PhaseWords ==
  ASSUME TypeOK, Fixed
  PROVE  /\ Off => /\ DeviceWord = IF radioReceiverEnabled THEN "idle" ELSE "disabled"
                   /\ DecoderWord = IF radioDecoderEnabled THEN "idle" ELSE "disabled"
                   /\ ~device.paused /\ ~device.callback
         /\ Awaiting => DeviceWord = "idle"
         /\ On => /\ DeviceWord = IF device.paused THEN "paused" ELSE "streaming"
                  /\ device.callback
                  /\ DecoderWord \in {"decoding", "disabled"} => Running
         /\ Ending => /\ DeviceWord \in {"flush", "idle", "disabled"}
                      /\ DeviceWord # "flush" /\ DecoderWord # "decoding" => Off
  <1>1. Off => /\ DeviceWord = IF radioReceiverEnabled THEN "idle" ELSE "disabled"
               /\ DecoderWord = IF radioDecoderEnabled THEN "idle" ELSE "disabled"
               /\ ~device.paused /\ ~device.callback
    BY DeviceWords, DecoderWords DEF Off, Resting, Halted
  <1>2. Awaiting => DeviceWord = "idle"
    BY DeviceWords DEF Awaiting
  <1>3. On => /\ DeviceWord = IF device.paused THEN "paused" ELSE "streaming"
              /\ device.callback
    BY DeviceWords DEF On, Live
  <1>4. On /\ DecoderWord \in {"decoding", "disabled"} => Running
    <2>1. Open \/ Shut => cpc # "starting"
      BY DEF Open, Shut
    <2> QED
      BY <2>1, DecoderWords DEF On, Running
  <1>5. Ending => /\ DeviceWord \in {"flush", "idle", "disabled"}
                  /\ DeviceWord # "flush" /\ DecoderWord # "decoding" => Off
    BY DeviceWords, DecoderWords DEF Ending, Off
  <1> QED
    BY <1>1, <1>2, <1>3, <1>4, <1>5

(* When the window shows what was asked for, it has been done, and nothing   *)
(* follows.                                                                  *)
LEMMA Answer ==
  ASSUME TypeOK, Fixed, Stages, asked # "nothing", NEW dev, NEW dec,
         Leads("device", asked, dev, DeviceWord), Leads("decoder", asked, dec, DecoderWord),
         Shows(asked, dev, dec)
  PROVE  /\ Nowhere /\ (Off \/ Running)
         /\ \A w : Leads("device", asked, dev, w) => w = dev
         /\ \A w : Leads("decoder", asked, dec, w) => w = dec
         /\ asked = "start" => device.callback
         /\ device.paused <=> asked = "pause"
  <1>0. device.paused \in BOOLEAN /\ radioReceiverEnabled \in BOOLEAN /\ radioDecoderEnabled \in BOOLEAN
    BY DEF TypeOK, DriverTypeOK, DeviceTaskTypeOK, DecoderTaskTypeOK, Driver
  <1>1. /\ \A w : Leads("device", asked, dev, w) => w = dev
        /\ \A w : Leads("decoder", asked, dec, w) => w = dec
    BY DEF Stages, Waits, Starts, Stops, Pauses, Configures, ConfiguresDecoder, Shows, Leads
  <1>2. DeviceWord = dev /\ DecoderWord = dec
    BY <1>1
  <1>3. CASE asked = "start"
    <2>1. Starts /\ dev = "streaming" /\ dec \in {"decoding", "disabled"}
      BY <1>3 DEF Stages, Waits, Stops, Pauses, Configures, ConfiguresDecoder, Shows
    <2>2. ~Off /\ ~Awaiting
      BY <1>2, <2>1, PhaseWords
    <2> QED
      BY <1>0, <1>1, <1>2, <1>3, <2>1, <2>2, PhaseWords DEF Starts
  <1>4. CASE asked = "stop"
    <2>1. Stops /\ dev \in {"idle", "absent", "disabled"} /\ dec # "decoding"
      BY <1>4 DEF Stages, Waits, Starts, Pauses, Configures, ConfiguresDecoder, Shows
    <2>2. ~Running
      BY <1>0, <1>2, <2>1, PhaseWords DEF Running
    <2> QED
      BY <1>0, <1>1, <1>2, <1>4, <2>1, <2>2, PhaseWords DEF Stops
  <1>5. CASE asked \in {"pause", "resume"}
    <2>1. Pauses /\ dev = IF asked = "pause" THEN "paused" ELSE "streaming"
      BY <1>5 DEF Stages, Waits, Starts, Stops, Configures, ConfiguresDecoder, Shows
    <2>2. Running /\ DeviceWord = IF device.paused THEN "paused" ELSE "streaming"
      BY <2>1, PhaseWords DEF Pauses, Running
    <2>3. device.paused = (asked = "pause")
      BY <1>0, <1>2, <1>5, <2>1, <2>2
    <2>4. Nowhere
      BY <1>5, <2>1, <2>3 DEF Pauses
    <2> QED
      BY <1>1, <1>5, <2>2, <2>3, <2>4
  <1>6. CASE asked \in {"deviceOn", "deviceOff"}
    <2>1. Configures /\ dev = IF asked = "deviceOn" THEN "idle" ELSE "disabled"
      BY <1>6 DEF Stages, Waits, Starts, Stops, Pauses, ConfiguresDecoder, Shows
    <2>2. Off
      BY <2>1 DEF Configures
    <2>3. radioReceiverEnabled = (asked = "deviceOn")
      BY <1>0, <1>2, <1>6, <2>1, <2>2, PhaseWords
    <2>4. Nowhere
      BY <1>6, <2>1, <2>3 DEF Configures
    <2> QED
      BY <1>1, <1>6, <2>2, <2>4, PhaseWords
  <1>7. CASE asked \in {"decoderOn", "decoderOff"}
    <2>1. ConfiguresDecoder /\ (dec = "disabled" <=> asked = "decoderOff")
      BY <1>7 DEF Stages, Waits, Starts, Stops, Pauses, Configures, Shows
    <2>2. Off
      BY <2>1 DEF ConfiguresDecoder
    <2>3. radioDecoderEnabled = (asked = "decoderOn")
      BY <1>0, <1>2, <1>7, <2>1, <2>2, PhaseWords
    <2>4. Nowhere
      BY <1>7, <2>1, <2>3 DEF ConfiguresDecoder
    <2> QED
      BY <1>1, <1>7, <2>2, <2>4, PhaseWords
  <1> QED
    BY <1>3, <1>4, <1>5, <1>6, <1>7 DEF Stages, Waits, Starts, Stops, Pauses, Configures, ConfiguresDecoder

(* In no stage does the window give up. *)
LEMMA NeverGivenUp ==
  ASSUME TypeOK, Fixed, Stages, Buttons, asked # "nothing",
         NEW dev, NEW dec, Show(dev, dec),
         Leads("device", asked, radioDeviceStatus, dev), Leads("decoder", asked, radioDecoderShown, dec),
         Leads("device", asked, dev, DeviceWord), Leads("decoder", asked, dec, DecoderWord)
  PROVE  ~GivenUp(asked, dev, dec)
  <1>0. device.paused \in BOOLEAN /\ radioReceiverEnabled \in BOOLEAN /\ radioDecoderEnabled \in BOOLEAN
    BY DEF TypeOK, DriverTypeOK, DeviceTaskTypeOK, DecoderTaskTypeOK, Driver
  <1>1. dev # "absent"
    <2>1. DeviceWord # "absent"
      BY DEF Fixed, DeviceWord, StatusOf
    <2> QED
      BY <2>1 DEF Leads
  <1>2. asked = "start" => ~actionListen'
    <2> SUFFICES ASSUME asked = "start", actionListen' PROVE FALSE
      OBVIOUS
    <2>1. ~actionListen
      BY DEF Buttons
    <2>2. (dev # radioDeviceStatus \/ dec # radioDecoderShown) /\ ~Busy(dev, dec)
      BY <2>1 DEF Show, UpdateActions
    <2>3. dev # radioDeviceStatus => dev = "streaming"
      BY DEF Leads
    <2>4. dec # radioDecoderShown => dec = "decoding"
      BY DEF Leads
    <2> QED
      BY <2>2, <2>3, <2>4 DEF Busy
  <1>3. asked \in {"pause", "resume"} => Busy(dev, dec)
    <2> SUFFICES ASSUME asked \in {"pause", "resume"} PROVE Busy(dev, dec)
      OBVIOUS
    <2>1. Running
      BY DEF Stages, Waits, Starts, Stops, Pauses, Configures, ConfiguresDecoder
    <2>2. DeviceWord \in {"paused", "streaming"}
      BY <2>1, PhaseWords DEF Running
    <2>3. dev \in {"paused", "streaming"}
      BY <2>2 DEF Leads
    <2> QED
      BY <2>3 DEF Busy
  <1> QED
    BY <1>1, <1>2, <1>3 DEF GivenUp

(* The buttons follow what is shown. *)
LEMMA ButtonsFollow ==
  ASSUME TypeOK, TypeOK', Fixed, Stages, Buttons, NEW dev, NEW dec, Show(dev, dec),
         UNCHANGED <<acquireTimer, device>>,
         asked' = IF Shows(asked, dev, dec) THEN "nothing" ELSE asked,
         Leads("device", asked, radioDeviceStatus, dev), Leads("decoder", asked, radioDecoderShown, dec),
         Leads("device", asked, dev, DeviceWord), Leads("decoder", asked, dec, DecoderWord)
  PROVE  Buttons'
  <1> DEFINE busy == Busy(dev, dec)
             same == dev = radioDeviceStatus /\ dec = radioDecoderShown
  <1>0. /\ radioDeviceStatus' = dev /\ radioDecoderShown' = dec
        /\ FeaturesEnabled' <=> ~busy
        /\ same => (FeaturesEnabled <=> ~busy) /\ UNCHANGED <<actionListen, actionStop, pauseChecked>>
        /\ ~same => /\ actionListen' <=> ~busy /\ Acquiring(dev)
                    /\ actionStop' <=> busy
                    /\ pauseChecked' <=> pauseChecked /\ busy
    BY DEF Show, UpdateActions, FeaturesEnabled
  <1>1. asked # "nothing" /\ asked' = "nothing" =>
          (asked = "start" => device.callback) /\ (device.paused <=> asked = "pause")
    BY Answer
  <1>2. asked = "nothing" => same /\ asked' = "nothing"
    BY DEF Leads
  <1>3. actionListen' => FeaturesEnabled' /\ Acquiring(radioDeviceStatus)' /\ asked' # "start"
    <2>1. asked = "start" => ~actionListen'
      <3>1. asked = "start" => ~GivenUp(asked, dev, dec)
        BY NeverGivenUp
      <3> QED
        BY <3>1 DEF GivenUp
    <2> QED
      BY <1>0, <2>1 DEF Buttons, Acquiring
  <1>4. actionStop' => ~FeaturesEnabled'
    BY <1>0 DEF Buttons
  <1>5. asked' # "stop" /\ ~FeaturesEnabled' => actionStop'
    <2>1. asked = "stop" /\ asked' # "stop" => ~busy
      BY DEF Shows, Busy
    <2> QED
      BY <1>0, <2>1 DEF Buttons
  <1>6. acquireTimer' => asked' # "stop" /\ (asked' = "start" \/ device'.callback)
    BY <1>1, <1>2 DEF Buttons
  <1>7. pauseChecked' <=> asked' = "pause" \/ (asked' = "nothing" /\ device'.paused)
    <2>1. CASE asked = "nothing"
      BY <1>0, <1>2, <2>1 DEF Buttons
    <2>2. CASE asked = "pause"
      <3>1. busy
        <4>1. ~GivenUp(asked, dev, dec)
          BY <2>2, NeverGivenUp
        <4> QED
          BY <2>2, <4>1 DEF GivenUp
      <3>2. pauseChecked' <=> pauseChecked
        BY <1>0, <3>1
      <3> QED
        BY <1>1, <2>2, <3>2 DEF Buttons
    <2>3. CASE asked \notin {"nothing", "pause"}
      <3>1. ~pauseChecked /\ ~pauseChecked'
        BY <1>0, <2>3 DEF Buttons
      <3> QED
        BY <1>1, <2>3, <3>1
    <2> QED
      BY <2>1, <2>2, <2>3
  <1> QED
    BY <1>3, <1>4, <1>5, <1>6, <1>7 DEF Buttons

(* radioDeviceStatusEvent and radioDecoderStatusEvent: a status shows, and   *)
(* the user is answered when it is what was asked for.                       *)
LEMMA StatusKeeps ==
  ASSUME TypeOK, TypeOK', Inv, StatusEvent,
         UNCHANGED <<driverVars, deviceTaskVars, decoderTaskVars, since>>
  PROVE  Inv'
  <1>0. /\ Fixed /\ Stages /\ Stories /\ Buttons
        /\ events \in Seq(Event) /\ events # <<>> /\ events' = Tail(events) /\ Tail(events) \in Seq(Event)
        /\ UNCHANGED <<acquireTimer, deviceCommands, decoderCommands, storageClears, ctl>>
    <2>1. events \in Seq(Event) /\ events # <<>>
      BY DEF TypeOK, CtlTypeOK, StatusEvent
    <2> QED
      BY <2>1, QueuesTyped DEF Inv, StatusEvent
  <1>1. PICK dev, dec : /\ Show(dev, dec)
                        /\ \/ Head(events).kind = "device" /\ dev = Head(events).value
                              /\ dec = radioDecoderShown
                           \/ Head(events).kind = "decoder" /\ dec = Head(events).value
                              /\ dev = radioDeviceStatus
    BY DEF StatusEvent
  <1>2. /\ Story(Tail(events), "device", asked, dev, DeviceWord)
        /\ Story(Tail(events), "decoder", asked, dec, DecoderWord)
        /\ Leads("device", asked, radioDeviceStatus, dev)
        /\ Leads("decoder", asked, radioDecoderShown, dec)
        /\ Leads("device", asked, dev, DeviceWord)
        /\ Leads("decoder", asked, dec, DecoderWord)
    <2>1. /\ Story(events, "device", asked, radioDeviceStatus, DeviceWord)
          /\ Story(events, "decoder", asked, radioDecoderShown, DecoderWord)
      BY <1>0 DEF Stories, DeviceStory, DecoderStory
    <2>2. /\ Leads("device", asked, radioDeviceStatus, radioDeviceStatus)
          /\ Leads("decoder", asked, radioDecoderShown, radioDecoderShown)
      BY LeadsOrders
    <2>3. /\ Leads("device", asked, radioDeviceStatus, DeviceWord)
          /\ Leads("decoder", asked, radioDecoderShown, DecoderWord)
      BY <2>1 DEF Story
    <2>4. CASE Head(events).kind = "device"
      BY <1>0, <1>1, <2>1, <2>2, <2>3, <2>4, StoryShows
    <2>5. CASE Head(events).kind = "decoder"
      BY <1>0, <1>1, <2>1, <2>2, <2>3, <2>5, StoryShows
    <2> QED
      BY <1>1, <2>4, <2>5
  <1>3. Head(events) \in Reports
    <2>1. Head(events) \in Event
      BY <1>0, QueuesTyped
    <2>2. \A e \in Event : e.kind \in {"device", "decoder"} => e \in Reports
      BY DEF Event, Reports
    <2> QED
      BY <1>1, <2>1, <2>2
  <1>4. Keeps(events, events', Reports)
    BY <1>0, <1>3, KeepsWithLess
  <1>5. asked' = IF Shows(asked, dev, dec) THEN "nothing" ELSE asked
    <2>1. CASE asked = "nothing"
      BY <1>1, <2>1 DEF Show, Shows
    <2>2. CASE asked # "nothing"
      <3>1. ~GivenUp(asked, dev, dec)
        BY <1>0, <1>1, <1>2, <2>2, NeverGivenUp
      <3> QED
        BY <1>1, <3>1 DEF Show
    <2> QED
      BY <2>1, <2>2
  <1>6. device' = device /\ radioDeviceStatus' = dev /\ radioDecoderShown' = dec
    BY <1>1 DEF Show, driverVars
  <1>7. Buttons'
    BY <1>0, <1>1, <1>2, <1>5, <1>6, ButtonsFollow
  <1>8. Fixed'
    BY <1>0, PhaseStays DEF Fixed
  <1>9. CASE asked' = asked
    <2>1. PlacesKept
      BY <1>0, <1>4, <1>9, KeepsItself, NoisePasses
    <2>2. PhasesKept
      BY PhaseStays DEF PhasesKept
    <2>3. Stages'
      BY <1>0, <1>6, <1>9, <2>1, <2>2, PhaseStays, StageLasts
    <2>4. Stories'
      BY <1>0, <1>2, <1>6, <1>9, PhaseStays DEF Stories, DeviceStory, DecoderStory
    <2> QED
      BY <1>7, <1>8, <2>3, <2>4 DEF Inv
  <1>10. CASE asked' # asked
    <2>1. asked # "nothing" /\ asked' = "nothing" /\ Shows(asked, dev, dec)
      BY <1>5, <1>10
    <2>2. /\ Nowhere /\ (Off \/ Running)
          /\ \A w : Leads("device", asked, dev, w) => w = dev
          /\ \A w : Leads("decoder", asked, dec, w) => w = dec
      BY <1>0, <1>2, <2>1, Answer
    <2>3. Nowhere'
      BY <1>0, <1>4, <2>2 DEF Nowhere, Keeps
    <2>4. Stages'
      BY <2>1, <2>2, <2>3, PhaseStays DEF Stages, Waits
    <2>5. /\ Story(Tail(events), "device", "nothing", dev, DeviceWord)
          /\ Story(Tail(events), "decoder", "nothing", dec, DecoderWord)
      BY <1>0, <1>2, <2>2, StoryEnds
    <2>6. Stories'
      BY <1>0, <1>6, <2>1, <2>5, PhaseStays DEF Stories, DeviceStory, DecoderStory
    <2> QED
      BY <1>7, <1>8, <2>4, <2>6 DEF Inv
  <1> QED
    BY <1>9, <1>10

(* A request of the user, who waits for nothing: what is shown is true, and  *)
(* the request is on its way.                                                *)
LEMMA Asking ==
  ASSUME TypeOK, Inv, asked = "nothing", NEW request \in Requests,
         NEW kind, NEW value, Post(kind, value), asked' = request,
         Posted(request) = [kind |-> kind, value |-> value], Posted(request) \in Event,
         UNCHANGED <<driverVars, deviceTaskVars, decoderTaskVars, since,
                     radioDeviceStatus, radioDecoderShown>>
  PROVE  AtGui' /\ Fixed' /\ Stories'
  <1>0. /\ Fixed /\ Stages /\ Stories /\ events \in Seq(Event)
        /\ events' = Append(events, Posted(request))
        /\ UNCHANGED <<deviceCommands, decoderCommands, storageClears, ctl>>
    BY DEF Inv, Post, TypeOK, CtlTypeOK
  <1>1. Nowhere
    BY <1>0 DEF Stages, Waits, Starts, Stops, Pauses, Configures, ConfiguresDecoder
  <1>2. With(events', Posted(request), Reports)
    BY <1>0, <1>1, WithJoins DEF Nowhere
  <1>3. AtGui'
    BY <1>0, <1>1, <1>2 DEF Nowhere, AtGui
  <1>4. Fixed'
    BY <1>0, PhaseStays DEF Fixed
  <1>5. /\ Story(events, "device", request, radioDeviceStatus, DeviceWord)
        /\ Story(events, "decoder", request, radioDecoderShown, DecoderWord)
    <2>1. /\ Story(events, "device", "nothing", radioDeviceStatus, DeviceWord)
          /\ Story(events, "decoder", "nothing", radioDecoderShown, DecoderWord)
      BY <1>0 DEF Stories, DeviceStory, DecoderStory
    <2>2. /\ \A w : Leads("device", "nothing", radioDeviceStatus, w) => w = radioDeviceStatus
          /\ \A w : Leads("decoder", "nothing", radioDecoderShown, w) => w = radioDecoderShown
      BY LeadsOrders
    <2> QED
      BY <1>0, <2>1, <2>2, StoryEnds
  <1>6. Posted(request).kind # "device" /\ Posted(request).kind # "decoder"
    BY RequestsStandOut
  <1>7. /\ Story(events', "device", request, radioDeviceStatus, DeviceWord)
        /\ Story(events', "decoder", request, radioDecoderShown, DecoderWord)
    BY <1>0, <1>5, <1>6, StoryGoesOn
  <1>8. Stories'
    BY <1>7, PhaseStays DEF Stories, DeviceStory, DecoderStory
  <1> QED
    BY <1>3, <1>4, <1>8

(* What a user who waits for nothing sees. *)
LEMMA SeenWhileWaiting ==
  ASSUME TypeOK, Inv, asked = "nothing"
  PROVE  /\ Nowhere /\ radioDeviceStatus = DeviceWord /\ radioDecoderShown = DecoderWord
         /\ \/ /\ Off /\ FeaturesEnabled /\ ~device.callback /\ ~device.paused
               /\ radioDeviceStatus = IF radioReceiverEnabled THEN "idle" ELSE "disabled"
               /\ radioDecoderShown = IF radioDecoderEnabled THEN "idle" ELSE "disabled"
            \/ Running /\ ~FeaturesEnabled /\ device.callback
  <1>0. Fixed /\ Stages /\ Stories
    BY DEF Inv
  <1>1. Nowhere /\ (Off \/ Running)
    BY <1>0 DEF Stages, Waits, Starts, Stops, Pauses, Configures, ConfiguresDecoder
  <1>2. radioDeviceStatus = DeviceWord /\ radioDecoderShown = DecoderWord
    <2>1. /\ Leads("device", "nothing", radioDeviceStatus, DeviceWord)
          /\ Leads("decoder", "nothing", radioDecoderShown, DecoderWord)
      BY <1>0 DEF Stories, DeviceStory, DecoderStory, Story
    <2> QED
      BY <2>1, LeadsOrders
  <1>3. CASE Off
    BY <1>0, <1>1, <1>2, <1>3, PhaseWords DEF FeaturesEnabled, Busy
  <1>4. CASE Running
    BY <1>0, <1>1, <1>2, <1>4, PhaseWords DEF FeaturesEnabled, Busy, Running
  <1> QED
    BY <1>1, <1>3, <1>4

(* The buttons ask only for what can be done. *)
LEMMA UserKeeps ==
  ASSUME TypeOK, TypeOK', Inv, Patient, User
  PROVE  Inv'
  <1>0. /\ Fixed /\ Stages /\ Stories /\ Buttons /\ asked = "nothing"
        /\ UNCHANGED <<driverVars, deviceTaskVars, decoderTaskVars, since>>
        /\ UNCHANGED <<radioDeviceStatus, radioDecoderShown, device>>
        /\ pauseChecked \in BOOLEAN /\ device.paused \in BOOLEAN
        /\ radioReceiverEnabled \in BOOLEAN /\ radioDecoderEnabled \in BOOLEAN
    BY DEF Inv, User, UserStep, ToggleStart, ToggleStop, TogglePause, ToggleAcquire, ToggleDecoder,
           MayAsk, driverVars, TypeOK, WindowTypeOK, DriverTypeOK, DeviceTaskTypeOK, DecoderTaskTypeOK,
           Driver
  <1>1. /\ FeaturesEnabled' <=> FeaturesEnabled
        /\ Acquiring(radioDeviceStatus)' <=> Acquiring(radioDeviceStatus)
    BY <1>0 DEF FeaturesEnabled, Acquiring
  <1>2. CASE ToggleStart
    <2>1. /\ actionListen /\ ~actionListen' /\ acquireTimer' /\ asked' = "start" /\ Post("control", "Start")
          /\ UNCHANGED <<actionStop, pauseChecked>>
      BY <1>2 DEF ToggleStart
    <2>2. AtGui' /\ Fixed' /\ Stories'
      BY <1>0, <2>1, Asking DEF Requests, Posted, Event
    <2>3. Off /\ FeaturesEnabled /\ radioReceiverEnabled /\ ~device.paused
      BY <1>0, <2>1, SeenWhileWaiting DEF Buttons, Acquiring
    <2>4. Stages'
      BY <1>0, <2>1, <2>2, <2>3, PhaseStays DEF Stages, Starts
    <2>5. Buttons'
      BY <1>0, <1>1, <2>1, <2>3 DEF Buttons
    <2> QED
      BY <2>2, <2>4, <2>5 DEF Inv
  <1>3. CASE ToggleStop
    <2>1. /\ actionStop \/ acquireTimer
          /\ ~acquireTimer' /\ ~actionStop' /\ ~pauseChecked' /\ asked' = "stop" /\ Post("control", "Stop")
          /\ UNCHANGED actionListen
      BY <1>3 DEF ToggleStop
    <2>2. AtGui' /\ Fixed' /\ Stories'
      BY <1>0, <2>1, Asking DEF Requests, Posted, Event
    <2>3. Running
      BY <1>0, <2>1, SeenWhileWaiting DEF Buttons
    <2>4. Stages'
      BY <1>0, <2>1, <2>2, <2>3, PhaseStays DEF Stages, Stops
    <2>5. Buttons'
      BY <1>0, <1>1, <2>1 DEF Buttons
    <2> QED
      BY <2>2, <2>4, <2>5 DEF Inv
  <1>4. CASE TogglePause
    <2>1. /\ actionStop /\ pauseChecked' = ~pauseChecked /\ acquireTimer' = pauseChecked
          /\ asked' = (IF pauseChecked THEN "resume" ELSE "pause")
          /\ Post("control", IF pauseChecked THEN "Resume" ELSE "Pause")
          /\ UNCHANGED <<actionListen, actionStop>>
      BY <1>4 DEF TogglePause
    <2>2. AtGui' /\ Fixed' /\ Stories'
      <3>1. /\ Posted(asked') = [kind |-> "control", value |-> IF pauseChecked THEN "Resume" ELSE "Pause"]
            /\ Posted(asked') \in Event /\ asked' \in Requests
        BY <2>1 DEF Requests, Posted, Event
      <3> QED
        BY <1>0, <2>1, <3>1, Asking
    <2>3. Running /\ device.callback /\ device.paused = pauseChecked
      BY <1>0, <2>1, SeenWhileWaiting DEF Buttons
    <2>4. Stages'
      BY <1>0, <2>1, <2>2, <2>3, PhaseStays DEF Stages, Pauses
    <2>5. Buttons'
      BY <1>0, <1>1, <2>1, <2>3 DEF Buttons
    <2> QED
      BY <2>2, <2>4, <2>5 DEF Inv
  <1>5. CASE ToggleAcquire
    <2> DEFINE on == radioDeviceStatus = "disabled"
    <2>1. /\ FeaturesEnabled /\ asked' = (IF on THEN "deviceOn" ELSE "deviceOff")
          /\ Post("deviceConfig", Flag(on)) /\ UpdateActions(radioDeviceStatus, radioDecoderShown)
          /\ UNCHANGED acquireTimer
      BY <1>5 DEF ToggleAcquire
    <2>2. AtGui' /\ Fixed' /\ Stories'
      <3>1. /\ Posted(asked') = [kind |-> "deviceConfig", value |-> Flag(on)]
            /\ Posted(asked') \in Event /\ asked' \in Requests
        BY <2>1 DEF Requests, Posted, Event, Flag, Enabled
      <3> QED
        BY <1>0, <2>1, <3>1, Asking
    <2>3. /\ Off /\ ~device.callback /\ ~device.paused /\ on = ~radioReceiverEnabled
      BY <1>0, <2>1, SeenWhileWaiting
    <2>4. Stages'
      BY <1>0, <2>1, <2>2, <2>3, PhaseStays DEF Stages, Configures
    <2>5. Buttons'
      BY <1>0, <1>1, <2>1, <2>3 DEF Buttons, UpdateActions, FeaturesEnabled, Acquiring
    <2> QED
      BY <2>2, <2>4, <2>5 DEF Inv
  <1>6. CASE ToggleDecoder
    <2> DEFINE on == radioDecoderShown = "disabled"
    <2>1. /\ FeaturesEnabled /\ asked' = (IF on THEN "decoderOn" ELSE "decoderOff")
          /\ Post("decoderConfig", Flag(on)) /\ UpdateActions(radioDeviceStatus, radioDecoderShown)
          /\ UNCHANGED acquireTimer
      BY <1>6 DEF ToggleDecoder
    <2>2. AtGui' /\ Fixed' /\ Stories'
      <3>1. /\ Posted(asked') = [kind |-> "decoderConfig", value |-> Flag(on)]
            /\ Posted(asked') \in Event /\ asked' \in Requests
        BY <2>1 DEF Requests, Posted, Event, Flag, Enabled
      <3> QED
        BY <1>0, <2>1, <3>1, Asking
    <2>3. /\ Off /\ ~device.callback /\ ~device.paused /\ on = ~radioDecoderEnabled
      BY <1>0, <2>1, SeenWhileWaiting
    <2>4. Stages'
      BY <1>0, <2>1, <2>2, <2>3, PhaseStays DEF Stages, ConfiguresDecoder
    <2>5. Buttons'
      BY <1>0, <1>1, <2>1, <2>3 DEF Buttons, UpdateActions, FeaturesEnabled, Acquiring
    <2> QED
      BY <2>2, <2>4, <2>5 DEF Inv
  <1> QED
    BY <1>2, <1>3, <1>4, <1>5, <1>6 DEF User, UserStep

-----------------------------------------------------------------------------
(* The invariant *)

LEMMA InitInv == Init => Inv
  <1> SUFFICES ASSUME Init PROVE Inv
    OBVIOUS
  <1>1. TypeOK
    BY InitTyped
  <1> USE DEF Init, DriverInit, DeviceTaskInit, DecoderTaskInit, CtlInit, WindowInit
  <1>2. Fixed
    BY DEF Fixed, Opened
  <1>3. Nowhere
    BY DEF Nowhere, Without
  <1>4. Off
    BY DEF Off, Resting, Halted, Shut, Opened
  <1>5. Stages
    BY <1>3, <1>4 DEF Stages, Waits
  <1>6. Stories
    <2>1. DeviceWord = "idle" /\ DecoderWord = "idle"
      BY DEF DeviceWord, DecoderWord, StatusOf, Opened
    <2> QED
      BY <2>1 DEF Stories, DeviceStory, DecoderStory, Story, Leads
  <1>7. Buttons
    BY DEF Buttons, FeaturesEnabled, Busy, Acquiring, Opened
  <1> QED
    BY <1>1, <1>2, <1>5, <1>6, <1>7 DEF Inv

(***************************************************************************)
(* Every step of a patient user, the window, QtControl, the tasks and the  *)
(* receiver keeps the invariant, when the receiver is not removed.         *)
(***************************************************************************)
LEMMA StepInv ==
  ASSUME Patient, MaxUnplugs = 0, Inv, [Next]_vars
  PROVE  Inv'
  <1>0. TypeOK /\ TypeOK' /\ plugged /\ unplugs \in Nat
    BY StepTyped DEF Inv, Fixed, TypeOK, DriverTypeOK
  <1>1. CASE GuiThread
    BY <1>0, <1>1, StatusKeeps, ControlKeeps DEF GuiThread, GuiStep
  <1>2. CASE Usb
    <2>1. ~Unplug /\ ~Plug
      BY <1>0 DEF Unplug, Plug
    <2> QED
      BY <1>0, <1>2, <2>1, QuietSteps DEF Usb
  <1>3. CASE UNCHANGED vars
    <2>1. UNCHANGED <<driverVars, deviceTaskVars, decoderTaskVars, ctlVars, windowVars, since>>
      BY <1>3 DEF vars
    <2>2. PhasesKept
      BY <2>1, PhaseStays DEF PhasesKept
    <2>3. dpc' # "command" => radioReceiverEnabled
      BY <2>1, PhaseStays DEF Inv, Fixed
    <2> QED
      BY <1>0, <2>1, <2>2, <2>3, PhaseStays, Unnoticed DEF Inv
  <1> QED
    BY <1>0, <1>1, <1>2, <1>3, DeviceKeeps, DecoderKeeps, StorageKeeps, UserKeeps DEF Next

LEMMA InvHolds ==
  ASSUME Patient, MaxUnplugs = 0
  PROVE  Spec => []Inv
  <1>1. Inv /\ [Next]_vars => Inv'
    BY StepInv
  <1> QED
    BY <1>1, InitInv, PTL DEF Spec

-----------------------------------------------------------------------------
(* What the acquisition promises *)

(***************************************************************************)
(* NoTailLost: with a patient user and a receiver that stays, whatever the *)
(* receiver has delivered of a stream is decoded before the end of the     *)
(* stream is, although the device task publishes the end after a stop it   *)
(* took from another queue and the decoder's callback looks at the status  *)
(* of the decoder without a lock.                                          *)
(***************************************************************************)
THEOREM TailDecoded ==
  ASSUME Patient, MaxUnplugs = 0
  PROVE  Spec => []NoTailLost
  <1>1. Inv => NoTailLost
    <2> SUFFICES ASSUME Inv, radioSignalQueue # <<>>, Head(radioSignalQueue).kind = "flush",
                        decoded # NoSamples
                 PROVE  /\ decoded.stream = device.stream /\ decoded.offset = device.received - 1
                        /\ signalQueue = <<>>
      BY DEF NoTailLost
    <2>0. TypeOK /\ Stages /\ radioSignalQueue \in Seq(Buffer) /\ device.received \in Nat
      BY DEF Inv, TypeOK, DecoderTaskTypeOK, DriverTypeOK, Driver
    <2>1. ~Shut /\ ~Fresh /\ ~Opening /\ ~Listening /\ (Finishing => Len(radioSignalQueue) = 1)
      BY <2>0, LastOfQueue DEF IsValid
    <2>2. Ending /\ EndSent /\ Finishing
      BY <2>0, <2>1 DEF Stages, Waits, Starts, Stops, Pauses, Configures, ConfiguresDecoder, Off,
                        Awaiting, On, Running, Ending
    <2>3. signalQueue = <<>> /\ InHand = 0
      BY <2>2 DEF EndSent, Resting, Flushing, Publishing, InHand
    <2>4. Handed = device.received
      BY <2>0, <2>3 DEF Handed
    <2>5. decoded = [stream |-> device.stream, offset |-> Handed - 0 - 1]
      BY <2>1, <2>2 DEF Finishing, Downstream
    <2> QED
      BY <2>0, <2>3, <2>4, <2>5
  <1> QED
    BY <1>1, InvHolds, PTL

(***************************************************************************)
(* WindowTellsTruth: whenever nothing is on its way between the threads,   *)
(* the window shows the status of both tasks, QtControl knows what is      *)
(* switched on, and Stop is enabled while the receiver streams or pauses.  *)
(***************************************************************************)
THEOREM TruthShown ==
  ASSUME Patient, MaxUnplugs = 0
  PROVE  Spec => []WindowTellsTruth
  <1>1. Inv => WindowTellsTruth
    <2> SUFFICES ASSUME Inv, Quiet
                 PROVE  WindowTellsTruth
      BY DEF WindowTellsTruth
    <2>0. TypeOK /\ Fixed /\ Stages /\ Stories /\ Buttons /\ events = <<>>
      BY DEF Inv, Quiet
    <2>1. radioDeviceStatus = DeviceWord /\ radioDecoderShown = DecoderWord
      BY <2>0, StoryTold DEF Stories, DeviceStory, DecoderStory
    <2>2. Nowhere
      <3>1. ~AtGui /\ ~AtStorage /\ ~AtDecoder /\ ~AtDevice
        BY DEF Quiet, AtGui, AtStorage, AtDecoder, AtDevice, With
      <3> QED
        BY <2>0, <3>1 DEF Stages, Waits, Starts, Stops, Pauses, Configures, ConfiguresDecoder
    <2>3. radioDecoderEnabled \/ radioDecoderStatus = "Idle"
      BY <2>0 DEF Stages, Waits, Starts, Stops, Pauses, Configures, ConfiguresDecoder, Off, Awaiting, On,
                  Running, Ending, Shut
    <2>4. device.streaming \/ device.paused => actionStop
      <3> SUFFICES ASSUME device.streaming \/ device.paused PROVE actionStop
        OBVIOUS
      <3>1. ~Resting /\ ~Flushing
        BY DEF Resting, Flushing, Halted
      <3>2. On /\ asked # "stop"
        <4>1. ~AtGui /\ ~AtDevice
          BY DEF Quiet, AtGui, AtDevice, With
        <4> QED
          BY <2>0, <3>1, <4>1 DEF Stages, Waits, Starts, Stops, Pauses, Configures, ConfiguresDecoder,
                                  Off, Awaiting, Running, Ending
      <3>3. ~FeaturesEnabled
        BY <2>0, <2>1, <3>2, PhaseWords DEF FeaturesEnabled, Busy
      <3> QED
        BY <2>0, <3>2, <3>3 DEF Buttons
    <2>5. radioDecoderStatus \in {"Idle", "Streaming"} /\ device.open /\ ctl.named
      BY <2>0 DEF TypeOK, DecoderTaskTypeOK, Fixed
    <2> QED
      BY <2>0, <2>1, <2>3, <2>4, <2>5 DEF WindowTellsTruth, DeviceWord, DecoderWord, Fixed, TypeOK,
                                          CtlTypeOK, Ctl, DriverTypeOK, Driver
  <1> QED
    BY <1>1, InvHolds, PTL

(***************************************************************************)
(* NoOrphanSession: every session the decoder opens gets its stream and    *)
(* the end of it; when all is quiet and no stream runs, none is open.      *)
(***************************************************************************)
THEOREM SessionsEnd ==
  ASSUME Patient, MaxUnplugs = 0
  PROVE  Spec => []NoOrphanSession
  <1>1. Inv => NoOrphanSession
    <2> SUFFICES ASSUME Inv, Quiet, ~device.streaming, ~device.paused
                 PROVE  radioDecoderStatus = "Idle"
      BY DEF NoOrphanSession
    <2>0. TypeOK /\ Stages
      BY DEF Inv
    <2>1. ~On /\ ~Running /\ ~Flushing /\ ~AtDevice /\ ~Finishing
      BY <2>0 DEF On, Running, Live, Flushing, Quiet, AtDevice, Finishing
    <2>2. Off \/ Ending
      BY <2>0, <2>1 DEF Stages, Waits, Starts, Stops, Pauses, Configures, ConfiguresDecoder
    <2>3. Shut
      BY <2>1, <2>2 DEF Off, Ending, EndSent
    <2> QED
      BY <2>3 DEF Shut
  <1> QED
    BY <1>1, InvHolds, PTL

(* A step of the acquisition is a step of the session, or none. *)
LEMMA SessionStep ==
  ASSUME Inv, [Next]_vars
  PROVE  [Session!Next]_<<radioDecoderStatus = "Streaming" \/ cpc = "starting", since, decoded>>
  <1> DEFINE open == radioDecoderStatus = "Streaming" \/ cpc = "starting"
  <1>0. /\ TypeOK /\ Fixed /\ Stages /\ device.stream \in Nat /\ since \in Nat
        /\ radioSignalQueue \in Seq(Buffer)
    BY DEF Inv, TypeOK, DriverTypeOK, Driver, DecoderTaskTypeOK
  <1>1. CASE DeviceThread \/ StorageThread \/ GuiThread \/ User \/ Usb \/ UNCHANGED vars
    <2>1. UNCHANGED <<cpc, radioDecoderStatus, decoded, since>>
      BY <1>1 DEF DeviceThread, DeliverRaw, EnqueueRaw, StorageThread, GuiThread, User, Usb, vars,
                  decoderTaskVars
    <2> QED
      BY <2>1
  <1>2. CASE DecoderThread
    <2>0. since' = IF cpc = "command" /\ cpc' = "starting" THEN device.stream ELSE since
      BY <1>2 DEF DecoderThread
    <2>1. CASE StartDecoder
      <3>1. open' /\ since' = device.stream /\ decoded' = NoSamples
        BY <2>0, <2>1 DEF StartDecoder, HandlingDecoder
      <3>2. Session!Begin
        BY <1>0, <3>1 DEF Session!Begin, Fixed, Session!NoSamples, NoSamples
      <3> QED
        BY <3>2 DEF Session!Next
    <2>2. CASE DecoderStreaming \/ RejectStart \/ NoDecoderCommand \/ NothingToDecode
      <3>1. open' = open /\ since' = since /\ decoded' = decoded
        BY <2>0, <2>2 DEF DecoderStreaming, RejectStart, HandlingDecoder, NoDecoderCommand,
                          NothingToDecode, UpdateDecoderStatus
      <3> QED
        BY <3>1
    <2>3. CASE ConfigDecoder
      <3>1. since' = since /\ decoded' = decoded /\ cpc # "starting" /\ cpc' # "starting"
        BY <2>0, <2>3 DEF ConfigDecoder, HandlingDecoder
      <3>2. radioDecoderStatus' = radioDecoderStatus
        <4>1. /\ decoderCommands # <<>> /\ radioDecoderEnabled \in BOOLEAN
              /\ radioDecoderEnabled \/ radioDecoderStatus = "Idle"
          BY <1>0, <2>3 DEF TypeOK, DecoderTaskTypeOK, ConfigDecoder, HandlingDecoder, Stages, Waits, Starts,
                            Stops, Pauses, Configures, ConfiguresDecoder, Off, Awaiting, On, Running,
                            Ending, Shut
        <4>2. \/ Apply(Head(decoderCommands).enabled, radioDecoderEnabled) = radioDecoderEnabled
              \/ radioDecoderStatus = "Idle"
          <5>1. Off => radioDecoderStatus = "Idle"
            BY DEF Off, Shut
          <5>2. Apply(Configure("keep").enabled, radioDecoderEnabled) = radioDecoderEnabled
            BY DEF Configure, Apply
          <5>3. Head(decoderCommands) = Configure("keep") \/ Off
            BY <1>0, <4>1, DecoderOrders
          <5> QED
            BY <5>1, <5>2, <5>3
        <4> QED
          BY <2>3, <4>1, <4>2 DEF ConfigDecoder, UpdateDecoderStatus
      <3> QED
        BY <3>1, <3>2
    <2>4. CASE DecodeBuffer
      <3>0. /\ open /\ open' = open /\ since' = since /\ cpc = "decode" /\ radioDecoderEnabled
            /\ radioSignalQueue # <<>> /\ IsValid(Head(radioSignalQueue))
            /\ decoded' = Head(radioSignalQueue).samples
        BY <2>0, <2>4 DEF DecodeBuffer, Decoding
      <3>1. ~Shut /\ ~Fresh /\ ~Opening
        BY <3>0 DEF Shut, Fresh, Opening
      <3>2. (Listening \/ Finishing) /\ since < device.stream
        BY <1>0, <3>0, <3>1 DEF Stages, Waits, Starts, Stops, Pauses, Configures, ConfiguresDecoder, Off,
                                Awaiting, On, Running, Ending
      <3>3. PICK n \in 1..Len(radioSignalQueue) : Downstream(n)
        <4>1. Len(radioSignalQueue) \in Nat /\ Len(radioSignalQueue) > 0
          BY <1>0, <3>0, Places
        <4>2. Listening => Downstream(Len(radioSignalQueue))
          BY DEF Listening
        <4>3. Finishing => Len(radioSignalQueue) # 1 /\ Downstream(Len(radioSignalQueue) - 1)
          <5>1. Head(radioSignalQueue) = radioSignalQueue[1]
            BY <1>0, <3>0, Places
          <5> QED
            BY <3>0, <5>1 DEF Finishing, EndOfStream, IsValid
        <4>4. /\ Len(radioSignalQueue) \in 1..Len(radioSignalQueue)
              /\ Len(radioSignalQueue) # 1 => Len(radioSignalQueue) - 1 \in 1..Len(radioSignalQueue)
          <5>1. \A l \in Nat : l > 0 => l \in 1..l /\ (l # 1 => l - 1 \in 1..l)
            OBVIOUS
          <5> QED
            BY <4>1, <5>1
        <4>5. CASE Listening
          <5>1. Len(radioSignalQueue) \in 1..Len(radioSignalQueue) /\ Downstream(Len(radioSignalQueue))
            BY <4>2, <4>4, <4>5
          <5> QED
            BY <5>1
        <4>6. CASE Finishing
          <5> DEFINE n == Len(radioSignalQueue) - 1
          <5>1. n \in 1..Len(radioSignalQueue) /\ Downstream(n)
            BY <4>3, <4>4, <4>6
          <5> HIDE DEF n
          <5> QED
            BY <5>1
        <4> QED
          BY <3>2, <4>5, <4>6
      <3>4. decoded' = [stream |-> device.stream, offset |-> Handed - n] /\ Handed \in Int /\ n \in Int
        BY <1>0, <3>0, <3>3, NextInLine DEF Data
      <3>5. decoded # NoSamples => decoded' = [decoded EXCEPT !.offset = @ + 1]
        <4> SUFFICES ASSUME decoded # NoSamples PROVE decoded' = [decoded EXCEPT !.offset = @ + 1]
          OBVIOUS
        <4>1. decoded = [stream |-> device.stream, offset |-> Handed - n - 1]
          BY <3>3 DEF Downstream
        <4>2. Handed - n - 1 + 1 = Handed - n
          BY <3>4
        <4> QED
          BY <3>4, <4>1, <4>2
      <3>6. decoded'.stream > since
        BY <1>0, <3>2, <3>4
      <3> QED
        BY <3>0, <3>5, <3>6 DEF Session!Next, Session!Decode, Session!NoSamples, NoSamples
    <2>5. CASE FinishDecoding
      <3>1. open /\ ~open' /\ since' = since /\ decoded' = decoded
        BY <2>0, <2>5 DEF FinishDecoding, Decoding, UpdateDecoderStatus
      <3> QED
        BY <3>1 DEF Session!Next, Session!End
    <2> QED
      BY <1>2, <2>1, <2>2, <2>3, <2>4, <2>5 DEF DecoderThread, DecoderTaskStep
  <1> QED
    BY <1>1, <1>2 DEF Next

(***************************************************************************)
(* ImplementsSession: the radio decoder refines CaptureSession.  Between a *)
(* start and the end of the stream signalDecode is given samples of one    *)
(* stream, started after the decoder was, in order and without a gap,      *)
(* whatever an earlier acquisition has left in the queues.                 *)
(***************************************************************************)
THEOREM DecodesInOrder ==
  ASSUME Patient, MaxUnplugs = 0
  PROVE  Spec => ImplementsSession
  <1>1. Init => Session!Init
    BY DEF Init, DecoderTaskInit, Session!Init, Session!NoSamples, NoSamples
  <1>2. Inv /\ [Next]_vars
          => [Session!Next]_<<radioDecoderStatus = "Streaming" \/ cpc = "starting", since, decoded>>
    BY SessionStep
  <1> QED
    BY <1>1, <1>2, InvHolds, PTL DEF Spec, ImplementsSession, Session!Spec
=============================================================================
