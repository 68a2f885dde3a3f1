--------------------------- MODULE LogicCaptureProofs ---------------------------
(***************************************************************************)
(* The stream of the logic analyser, for any number of transfers,          *)
(* acquisitions, pauses, uses of the switch and removals: a stream that    *)
(* nobody has stopped is in error only when the analyser is removed, if a  *)
(* stream starts when the transfers of the last are back and has at least  *)
(* two of its own.  The stages of DSLogicDevice::start are followed from   *)
(* the header transfer to the data (Hardware), and who may ask for a       *)
(* stream, and when, from the window to the command queue (Requests,       *)
(* Awaited, Shown).  And, with no condition on the user or the transfers,  *)
(* the window shows the truth once nothing is on its way (Told).  At last, *)
(* that the acquisition refines CaptureSession.                            *)
(***************************************************************************)
EXTENDS LogicCapture, SequenceTheorems, FiniteSetTheorems, TLAPS

USE LogicCaptureAssumption, DSLogicAssumption

(* what the analyser is: whether it runs, owes the header, what it sent      *)
Analyser == [state : {"off", "armed", "runs"}, header : BOOLEAN, sent : Nat]

(* Its state is built of the right parts. *)
LEMMA AnalyserIsTyped ==
  ASSUME NEW state \in {"off", "armed", "runs"}, NEW header \in BOOLEAN, NEW sent \in Nat
  PROVE  [state |-> state, header |-> header, sent |-> sent] \in Analyser
  BY DEF Analyser

(* The driver stays one when its status is set or its handle is lost. *)
LEMMA DriverIsTyped ==
  ASSUME driver \in Driver
  PROVE  /\ \A status \in DeviceStatus : [driver EXCEPT !.status = status] \in Driver
         /\ [driver EXCEPT !.attached = FALSE] \in Driver
  BY DEF Driver

(* What streams, and what ends a stream, is a buffer. *)
LEMMA BuffersAreTyped ==
  /\ NoSamples \in Samples
  /\ \A s, o \in Nat : Data(s, o) \in Buffer
  /\ \A reason \in {"flush", "detach"} : EndOfStream(reason) \in Buffer
  BY DEF NoSamples, Samples, Data, Buffer, EndOfStream

(* beginTransfers and the cancelling loop submit and keep transfers.         *)
LEMMA TransfersAreTyped ==
  ASSUME bus \in Seq(Transfer), NEW stream \in Nat
  PROVE  BeginTransfers(stream) \in Seq(Transfer)
  <1>1. Submitted("header", stream) \in Transfer /\ Submitted("data", stream) \in Transfer
    BY DEF Submitted, Transfer
  <1>2. <<Submitted("header", stream)>> \in Seq(Transfer)
    BY <1>1
  <1>3. [i \in 1..Transfers |-> Submitted("data", stream)] \in Seq(Transfer)
    BY <1>1
  <1> QED
    BY <1>2, <1>3, ConcatProperties DEF BeginTransfers

(* A cancelled transfer is a transfer. *)
LEMMA CancelledAreTyped ==
  ASSUME bus \in Seq(Transfer)
  PROVE  [i \in DOMAIN bus |-> [bus[i] EXCEPT !.cancelled = TRUE]] \in Seq(Transfer)
  <1>1. ASSUME NEW t \in Transfer PROVE [t EXCEPT !.cancelled = TRUE] \in Transfer
    BY DEF Transfer
  <1>2. Len(bus) \in Nat /\ DOMAIN bus = 1..Len(bus) /\ \A i \in 1..Len(bus) : bus[i] \in Transfer
    BY ElementOfSeq
  <1> QED
    BY <1>1, <1>2

(* a buffer that has been begun is counted: interleave counts it as it begins *)
Begun == driver.partial => driver.samples > 0

(* The driver and its event thread keep their types, ... *)
LEMMA DriverTyped == TypeOK /\ Begun /\ [Next]_vars => DriverTypeOK'
  <1> SUFFICES ASSUME TypeOK, Begun, [Next]_vars PROVE DriverTypeOK'
    OBVIOUS
  <1> USE DEF TypeOK, DriverTypeOK, Driver, Opened, DeviceStatus
  <1>1. CASE UNCHANGED driverVars
    BY <1>1 DEF driverVars
  <1>2. ASSUME StartDevice \/ ResumeDevice PROVE DriverTypeOK'
    <2>1. UNCHANGED <<plugged, usb, signalQueue>>
      BY <1>2 DEF StartDevice, ResumeDevice
    <2>2. CASE UNCHANGED <<driver, fpga, bus, dropped>>
      BY <2>1, <2>2
    <2>3. ASSUME Begin(TRUE) \/ Begin(FALSE) PROVE DriverTypeOK'
      <3>1. driver' \in Driver
        <4>1. CASE Begin(TRUE)
          <5>1. driver' = [driver EXCEPT !.status = "INIT", !.samples = 0, !.partial = FALSE,
                                         !.stream = driver.stream + 1]
            BY <4>1 DEF Begin
          <5>2. driver.stream + 1 \in Nat
            OBVIOUS
          <5> QED
            BY <5>1, <5>2
        <4>2. CASE Begin(FALSE)
          BY <4>2 DEF Begin
        <4> QED
          BY <2>3, <4>1, <4>2
      <3>2. fpga' \in [state : {"off", "armed", "runs"}, header : BOOLEAN, sent : Nat]
        <4>1. PICK state \in {"armed", "off"}, n \in {0, fpga.sent} :
                fpga' = [state |-> state, header |-> FALSE, sent |-> n]
          BY <2>3 DEF Begin
        <4>2. n \in Nat
          OBVIOUS
        <4>3. fpga' \in Analyser
          BY <4>1, <4>2, AnalyserIsTyped
        <4> QED
          BY <4>3 DEF Analyser
      <3>3. bus' \in Seq(Transfer)
        <4>1. bus' = IF driver.attached THEN BeginTransfers(driver'.stream) ELSE bus
          <5>1. CASE Begin(TRUE)
            BY <5>1 DEF Begin
          <5>2. CASE Begin(FALSE)
            BY <5>2 DEF Begin
          <5> QED
            BY <2>3, <5>1, <5>2
        <4>2. driver'.stream \in Nat
          BY <3>1
        <4> QED
          BY <4>1, <4>2, TransfersAreTyped
      <3>4. driver.partial => [stream |-> driver.stream, offset |-> driver.samples - 1] \in Samples
        BY DEF Begun, Samples
      <3>5. dropped' \subseteq Samples
        BY <2>3, <3>4 DEF Begin
      <3> QED
        BY <2>1, <3>1, <3>2, <3>3, <3>5
    <2> QED
      BY <1>2, <2>2, <2>3 DEF StartDevice, ResumeDevice
  <1>3. ASSUME StopDevice \/ PauseDevice \/ ConfigDevice \/ Close PROVE DriverTypeOK'
    <2>1. UNCHANGED <<plugged, usb, signalQueue, dropped>>
      BY <1>3 DEF StopDevice, PauseDevice, ConfigDevice, Close
    <2>2. driver' \in Driver
      BY <1>3 DEF StopDevice, PauseDevice, ConfigDevice, Close, SetStatus
    <2>3. Halt \/ UNCHANGED <<fpga, bus>>
      BY <1>3 DEF StopDevice, PauseDevice, ConfigDevice, Close
    <2>4. /\ fpga' \in [state : {"off", "armed", "runs"}, header : BOOLEAN, sent : Nat]
          /\ bus' \in Seq(Transfer)
      BY <2>3, CancelledAreTyped DEF Halt
    <2> QED
      BY <2>1, <2>2, <2>4
  <1>4. CASE StartAcquisition
    BY <1>4 DEF StartAcquisition, Acquire
  <1>5. CASE CallReturns
    <2>1. PICK status \in DeviceStatus : driver' = [driver EXCEPT !.status = status]
      BY <1>5 DEF CallReturns, SetStatus
    <2>2. driver' \in Driver
      <3>1. driver \in Driver
        OBVIOUS
      <3> HIDE DEF Driver, DeviceStatus
      <3> QED
        BY <2>1, <3>1, DriverIsTyped
    <2> QED
      BY <1>5, <2>2 DEF CallReturns
  <1>6. CASE Attach
    BY <1>6 DEF Attach, Refreshing
  <1>7. CASE Closed
    BY <1>7 DEF Closed
  <1>8. CASE PublishBuffer
    BY <1>8, HeadTailProperties DEF PublishBuffer
  <1>9. ASSUME EventThread PROVE DriverTypeOK'
    <2>1. UNCHANGED <<plugged, dropped>>
      BY <1>9 DEF EventThread
    <2> DEFINE Usbs == [pc : {"wait", "headerOK", "headerBad", "handler", "resend"}, samples : Samples]
               Fpgas == [state : {"off", "armed", "runs"}, header : BOOLEAN, sent : Nat]
    <2>2. ASSUME Waiting, bus' = Tail(bus), NEW completed, NEW isHeader, NEW filled, NEW failed,
                 \/ HeaderBack(completed, isHeader)
                 \/ DataBack(filled, failed, driver.stream)
                 \/ DataBack(filled, failed, Head(bus).stream)
          PROVE  driver' \in Driver /\ usb' \in Usbs /\ signalQueue' = signalQueue /\ bus' \in Seq(Transfer)
      <3>1. Head(bus) \in Transfer /\ bus' \in Seq(Transfer)
        BY <2>2, HeadTailProperties DEF Waiting
      <3>2. CASE HeaderBack(completed, isHeader)
        BY <3>1, <3>2 DEF HeaderBack, SetStatus
      <3>3. ASSUME NEW stream \in Nat, DataBack(filled, failed, stream)
            PROVE  driver' \in Driver /\ usb' \in Usbs /\ signalQueue' = signalQueue
        <4>1. ASSUME NEW status \in DeviceStatus, SetStatus(status), UNCHANGED <<usb, signalQueue>>
              PROVE  driver' \in Driver /\ usb' \in Usbs /\ signalQueue' = signalQueue
          BY <4>1 DEF SetStatus
        <4>2. ASSUME NEW status \in DeviceStatus, NEW rest \in BOOLEAN, Deliver(status, stream, rest),
                     UNCHANGED signalQueue
              PROVE  driver' \in Driver /\ usb' \in Usbs /\ signalQueue' = signalQueue
          <5> DEFINE result == Interleave(rest)
          <5>1. result.samples \in Nat /\ result.offset \in Nat
            BY DEF Interleave, Begun
          <5>2. driver' = [driver EXCEPT !.status = status, !.samples = result.samples, !.partial = rest]
            BY <4>2 DEF Deliver
          <5>3. usb' = [pc |-> "handler", samples |-> [stream |-> stream, offset |-> result.offset]]
                \/ usb' = [usb EXCEPT !.pc = "resend"]
            BY <4>2 DEF Deliver
          <5> HIDE DEF result
          <5>4. usb' \in Usbs
            BY <5>1, <5>3 DEF Samples
          <5> QED
            BY <5>1, <5>2, <5>4, <4>2
        <4>3. DEFINE status == IF failed THEN "ERROR"
                               ELSE IF driver.status = "START" THEN "DATA" ELSE driver.status
        <4>4. status \in DeviceStatus
          OBVIOUS
        <4>5. UNCHANGED signalQueue
          BY <3>3 DEF DataBack
        <4>6. CASE SetStatus(status) /\ UNCHANGED usb
          BY <4>1, <4>4, <4>5, <4>6
        <4>7. CASE \E rest \in Rests : Deliver(status, stream, rest)
          BY <4>2, <4>4, <4>5, <4>7
        <4> QED
          BY <3>3, <4>6, <4>7 DEF DataBack
      <3>4. Head(bus).stream \in Nat
        BY <3>1 DEF Transfer
      <3> QED
        BY <3>1, <3>2, <3>3, <3>4, <2>2
    <2>3. CASE Complete
      <3>1. fpga' \in Fpgas
        <4>1. PICK n \in Nat : fpga' = [fpga EXCEPT !.header = FALSE, !.sent = n]
          <5>1. fpga.sent \in Nat /\ fpga.sent + 1 \in Nat
            OBVIOUS
          <5> QED
            BY <5>1, <2>3 DEF Complete
        <4>2. fpga' = [state |-> fpga.state, header |-> FALSE, sent |-> n]
          BY <4>1
        <4>3. fpga' \in Analyser
          BY <4>2, AnalyserIsTyped
        <4> QED
          BY <4>3 DEF Analyser
      <3> QED
        BY <3>1, <2>1, <2>2, <2>3 DEF Complete
    <2>4. CASE CancelBack
      BY <2>1, <2>2, <2>4 DEF CancelBack
    <2>5. CASE FailBack
      BY <2>1, <2>2, <2>5 DEF FailBack
    <2>6. CASE HeaderDone
      BY <2>1, <2>6 DEF HeaderDone
    <2>7. CASE Handle
      <3>1. Data(usb.samples.stream, usb.samples.offset) \in Buffer
        BY BuffersAreTyped DEF Samples
      <3>2. signalQueue' \in Seq(Buffer)
        BY <3>1, <2>7 DEF Handle
      <3> QED
        BY <3>2, <2>1, <2>7 DEF Handle
    <2>8. CASE Resend
      <3>1. Submitted("data", driver.stream) \in Transfer
        BY DEF Submitted, Transfer
      <3>2. bus' \in Seq(Transfer)
        BY <3>1, <2>8 DEF Resend
      <3>3. usb' \in Usbs
        BY <2>8, BuffersAreTyped DEF Resend
      <3> QED
        BY <3>2, <3>3, <2>1, <2>8 DEF Resend
    <2> QED
      BY <1>9, <2>3, <2>4, <2>5, <2>6, <2>7, <2>8 DEF EventThread
  <1>10. CASE Unplug \/ Plug
    <2>1. plugged' \in BOOLEAN /\ UNCHANGED <<bus, usb, signalQueue, dropped>>
      BY <1>10 DEF Unplug, Plug
    <2>2. driver' \in Driver
      <3>1. driver \in Driver
        OBVIOUS
      <3>2. driver' = driver \/ driver' = [driver EXCEPT !.attached = FALSE]
        BY <1>10 DEF Unplug, Plug
      <3> HIDE DEF Driver
      <3> QED
        BY <3>1, <3>2, DriverIsTyped
    <2>3. fpga' \in [state : {"off", "armed", "runs"}, header : BOOLEAN, sent : Nat]
      <3>1. fpga' \in {fpga, [fpga EXCEPT !.state = "off"]}
        BY <1>10 DEF Unplug, Plug
      <3> QED
        BY <3>1
    <2> QED
      BY <2>1, <2>2, <2>3
  <1>11. CASE DeviceTaskStep
    <2>1. CASE \/ DropCommand \/ Report \/ Pass("refresh") \/ Pass("queue") \/ NoRefresh
               \/ PublishEnd \/ NothingQueued \/ Published
      BY <1>1, <2>1 DEF DropCommand, Report, Pass, NoRefresh, PublishEnd, NothingQueued, Published
    <2>2. CASE Detach \/ ReportStatus
      BY <1>1, <2>2 DEF Detach, ReportStatus, Refreshing, driverVars
    <2> QED
      BY <1>2, <1>3, <1>4, <1>5, <1>6, <1>7, <1>8, <1>11, <2>1, <2>2, Zenon DEF DeviceTaskStep, RefreshStep
  <1> QED
    BY <1>1, <1>9, <1>10, <1>11
       DEF Next, DeviceThread, DecoderThread, User, Usb, Environment, DeliverRaw, EnqueueRaw, RawOnly,
           DecoderStarted, Start, Stop, Pause, Resume, Switch, Ask, UserOnly, vars

(* ... a buffer that has been begun stays counted, ... *)
LEMMA BegunStays == TypeOK /\ Begun /\ [Next]_vars => Begun'
  <1> SUFFICES ASSUME TypeOK, Begun, [Next]_vars PROVE Begun'
    OBVIOUS
  <1> USE DEF Begun
  <1>1. CASE UNCHANGED <<driver.partial, driver.samples>>
    BY <1>1
  <1>2. ASSUME driver'.partial = FALSE PROVE Begun'
    BY <1>2
  <1>3. CASE StartDevice \/ ResumeDevice \/ Attach
    <2>1. driver \in Driver
      BY DEF TypeOK, DriverTypeOK
    <2>2. UNCHANGED driver \/ driver'.partial = FALSE
      <3>1. CASE Begin(TRUE)
        BY <2>1, <3>1 DEF Begin, Driver
      <3>2. CASE Begin(FALSE)
        BY <2>1, <3>2 DEF Begin, Driver
      <3>3. CASE Attach
        BY <3>3 DEF Attach, Opened
      <3> QED
        BY <1>3, <3>1, <3>2, <3>3 DEF StartDevice, ResumeDevice
    <2> QED
      BY <2>2, <1>1, <1>2
  <1>4. ASSUME EventThread PROVE Begun'
    <2>1. driver \in Driver
      BY DEF TypeOK, DriverTypeOK
    <2>2. ASSUME NEW status, SetStatus(status) PROVE Begun'
      BY <2>1, <2>2, <1>1 DEF SetStatus, Driver
    <2>3. ASSUME NEW status, NEW stream, NEW rest \in BOOLEAN, Deliver(status, stream, rest) PROVE Begun'
      <3>1. driver.samples \in Nat /\ driver.partial \in BOOLEAN
        BY <2>1 DEF Driver
      <3>2. rest => Interleave(rest).samples > 0
        BY <3>1 DEF Interleave
      <3>3. driver'.partial = rest /\ driver'.samples = Interleave(rest).samples
        BY <2>1, <2>3 DEF Deliver, Driver
      <3> QED
        BY <3>2, <3>3
    <2>4. ASSUME NEW filled, NEW failed, NEW stream, DataBack(filled, failed, stream) PROVE Begun'
      BY <2>2, <2>3, <2>4, Zenon DEF DataBack, DSLogicAssumption
    <2>5. ASSUME NEW completed, NEW isHeader, HeaderBack(completed, isHeader) PROVE Begun'
      BY <2>2, <2>5 DEF HeaderBack
    <2>6. CASE HeaderDone \/ Handle \/ Resend
      BY <2>1, <2>6, <1>1 DEF HeaderDone, Handle, Resend, Driver
    <2> QED
      BY <1>4, <2>4, <2>5, <2>6 DEF EventThread, Complete, CancelBack, FailBack
  <1>5. CASE DeviceTaskStep
    <2>1. CASE DropCommand \/ Report \/ Pass("refresh") \/ Pass("queue") \/ NoRefresh
               \/ PublishEnd \/ NothingQueued \/ Published
      BY <1>1, <2>1 DEF DropCommand, Report, Pass, NoRefresh, PublishEnd, NothingQueued, Published,
                        driverVars
    <2>2. CASE Detach \/ ReportStatus \/ PublishBuffer
      BY <1>1, <2>2 DEF Detach, ReportStatus, PublishBuffer
    <2>3. CASE StopDevice \/ PauseDevice \/ ConfigDevice \/ Close \/ StartAcquisition \/ CallReturns \/ Closed
      <3>1. driver \in Driver
        BY DEF TypeOK, DriverTypeOK
      <3>2. UNCHANGED <<driver.partial, driver.samples>>
        BY <2>3, <3>1 DEF StopDevice, PauseDevice, ConfigDevice, Close, StartAcquisition, Acquire,
                         CallReturns, Closed, SetStatus, Driver
      <3> QED
        BY <3>2, <1>1
    <2> QED
      BY <1>3, <1>5, <2>1, <2>2, <2>3, Zenon DEF DeviceTaskStep, RefreshStep
  <1>6. CASE Unplug \/ Plug
    <2>1. driver \in Driver
      BY DEF TypeOK, DriverTypeOK
    <2> QED
      BY <2>1, <1>1, <1>6 DEF Unplug, Plug, Driver
  <1> QED
    BY <1>1, <1>4, <1>5, <1>6
       DEF Next, DeviceThread, DecoderThread, User, Usb, Environment, DeliverRaw, EnqueueRaw, RawOnly,
           DecoderStarted, Start, Stop, Pause, Resume, Switch, Ask, UserOnly, vars, driverVars

(* What the tasks and the user send is typed. *)
LEMMA ControlIsTyped ==
  ASSUME TypeOK, NEW word \in Words, NEW open \in BOOLEAN, LogicDeviceStatusChange(word, open)
  PROVE  control' \in [named : BOOLEAN, shown : Words] /\ deviceCommands' \in Seq(Command)
  <1>1. [code |-> "Configure", enabled |-> TRUE] \in Command
    BY DEF Command
  <1> QED
    <2>1. control \in [named : BOOLEAN, shown : Words] /\ deviceCommands \in Seq(Command)
      BY DEF TypeOK, DeviceTaskTypeOK
    <2>2. CASE control.named # open
      BY <1>1, <2>1, <2>2 DEF LogicDeviceStatusChange
    <2>3. CASE control.named = open
      BY <2>1, <2>3 DEF LogicDeviceStatusChange
    <2> QED
      BY <2>2, <2>3

(* ... and so the receiver task keeps its types, ... *)
LEMMA DeviceTaskTyped == TypeOK /\ [Next]_vars => DeviceTaskTypeOK'
  <1> SUFFICES ASSUME TypeOK, [Next]_vars PROVE DeviceTaskTypeOK'
    OBVIOUS
  <1> USE DEF DeviceTaskTypeOK
  <1>0. DeviceTaskTypeOK /\ driver \in Driver
    BY DEF TypeOK, DriverTypeOK
  <1>1. CASE UNCHANGED deviceTaskVars
    BY <1>0, <1>1 DEF deviceTaskVars
  <1>2. ASSUME NEW code, Handling(code)
        PROVE  deviceCommands' \in Seq(Command) /\ Head(deviceCommands) \in Command
    BY <1>0, <1>2, HeadTailProperties DEF Handling
  <1>3. CASE DropCommand
    BY <1>0, <1>2, <1>3 DEF DropCommand, DevicePc
  <1>4. CASE StartDevice
    BY <1>0, <1>2, <1>4 DEF StartDevice, Accepted, DevicePc, ReceiverStatus
  <1>5. CASE StartAcquisition
    BY <1>0, <1>5 DEF StartAcquisition, DevicePc, ReceiverStatus
  <1>6. CASE CallReturns
    BY <1>0, <1>6 DEF CallReturns, DevicePc, ReceiverStatus
  <1>7. CASE StopDevice
    BY <1>0, <1>2, <1>7 DEF StopDevice, Accepted, DevicePc, ReceiverStatus
  <1>8. CASE PauseDevice
    BY <1>0, <1>2, <1>8 DEF PauseDevice, Accepted, DevicePc, ReceiverStatus
  <1>9. CASE ResumeDevice
    BY <1>0, <1>2, <1>9 DEF ResumeDevice, Accepted, DevicePc, ReceiverStatus
  <1>10. CASE ConfigDevice
    <2>1. Head(deviceCommands).enabled \in BOOLEAN
      BY <1>10, <1>2 DEF ConfigDevice, Command, Handling
    <2> QED
      BY <1>0, <1>2, <1>10, <2>1 DEF ConfigDevice, DevicePc
  <1>11. ASSUME NEW status \in ReceiverStatus, NEW d, d.open \in BOOLEAN, UpdateDeviceStatus(status, d)
         PROVE  /\ logicReceiverStatus' \in ReceiverStatus
                /\ control' \in [named : BOOLEAN, shown : Words] /\ deviceCommands' \in Seq(Command)
    <2>1. WordOf(logicReceiverEnabled, d, status) \in Words
      BY DEF WordOf, Words
    <2> QED
      BY <1>11, <2>1, ControlIsTyped DEF UpdateDeviceStatus
  <1>12. CASE Report
    BY <1>0, <1>11, <1>12 DEF Report, DevicePc, Driver
  <1>13. CASE Attach
    <2>1. Opened(driver.stream).open \in BOOLEAN
      BY DEF Opened
    <2> QED
      BY <1>0, <1>11, <1>13, <2>1 DEF Attach, Refreshing, DevicePc, ReceiverStatus
  <1>14. CASE Detach
    BY <1>0, <1>14, BuffersAreTyped DEF Detach, Refreshing, DevicePc
  <1>15. CASE ReportStatus
    BY <1>0, <1>11, <1>15 DEF ReportStatus, Refreshing, DevicePc, Driver
  <1>16. CASE NoRefresh \/ Pass("refresh") \/ Pass("queue") \/ NothingQueued
    BY <1>0, <1>16 DEF NoRefresh, Pass, NothingQueued, DevicePc
  <1>17. CASE Close
    BY <1>0, <1>17 DEF Close, DevicePc
  <1>18. CASE Closed
    <2> DEFINE closed == [driver EXCEPT !.open = FALSE]
    <2>1. closed.open \in BOOLEAN
      BY <1>0 DEF Driver
    <2>2. UpdateDeviceStatus("Absent", closed)
      BY <1>18 DEF Closed
    <2>3. lpc' = "queue" /\ UNCHANGED <<logicReceiverEnabled, raw>>
      BY <1>18 DEF Closed
    <2> HIDE DEF closed
    <2> QED
      BY <1>0, <1>11, <2>1, <2>2, <2>3 DEF DevicePc, ReceiverStatus
  <1>19. CASE PublishBuffer
    <2>1. Head(signalQueue) \in Buffer
      BY <1>19, HeadTailProperties DEF PublishBuffer, TypeOK, DriverTypeOK
    <2> QED
      BY <1>0, <1>19, <2>1 DEF PublishBuffer, DevicePc
  <1>20. CASE PublishEnd
    BY <1>0, <1>20, BuffersAreTyped DEF PublishEnd, DevicePc
  <1>21. CASE Published
    <2>1. driver.open \in BOOLEAN
      BY <1>0 DEF Driver
    <2>2. CASE UNCHANGED <<logicReceiverStatus, deviceCommands, control>>
      BY <1>0, <1>21, <2>2 DEF Published, DevicePc
    <2>3. CASE UpdateDeviceStatus("Idle", driver)
      BY <1>0, <1>11, <1>21, <2>1, <2>3 DEF Published, DevicePc, ReceiverStatus
    <2> QED
      BY <1>21, <2>2, <2>3 DEF Published
  <1>22. CASE DeliverRaw \/ EnqueueRaw
    BY <1>0, <1>22 DEF DeliverRaw, EnqueueRaw, RawOnly, DevicePc
  <1>23. ASSUME NEW command \in Command,
                deviceCommands' \in {deviceCommands, Append(deviceCommands, command)},
                UNCHANGED <<lpc, logicReceiverEnabled, logicReceiverStatus, raw, control>>
         PROVE  DeviceTaskTypeOK'
    BY <1>0, <1>23
  <1>24. CASE DecoderStarted
    BY <1>23, <1>24 DEF DecoderStarted, Command
  <1>25. ASSUME NEW command \in Command, Ask(command) PROVE DeviceTaskTypeOK'
    BY <1>23, <1>25 DEF Ask, UserOnly
  <1>26. CASE User
    <2>1. CASE Start
      BY <1>1, <2>1 DEF Start, UserOnly, deviceTaskVars
    <2>2. \A code \in {"Stop", "Pause", "Resume"} : [code |-> code] \in Command
      BY DEF Command
    <2>3. [code |-> "Configure", enabled |-> control.shown = "disabled"] \in Command
      BY DEF Command
    <2> QED
      BY <1>25, <1>26, <2>1, <2>2, <2>3 DEF User, Stop, Pause, Resume, Switch
  <1>27. CASE DeviceTaskStep
    BY <1>3, <1>4, <1>5, <1>6, <1>7, <1>8, <1>9, <1>10, <1>12, <1>13, <1>14, <1>15, <1>16, <1>17,
       <1>18, <1>19, <1>20, <1>21, <1>27, Zenon DEF DeviceTaskStep, RefreshStep
  <1>28. CASE DeviceThread
    BY <1>22, <1>27, <1>28 DEF DeviceThread
  <1>29. CASE DecoderThread
    BY <1>1, <1>24, <1>29 DEF DecoderThread
  <1> QED
    BY <1>1, <1>26, <1>28, <1>29 DEF Next, Usb, Environment, vars

(* ... the decoder task, which decodes what it is given, ... *)
LEMMA DecoderTaskTyped == TypeOK /\ [Next]_vars => DecoderTaskTypeOK'
  <1> SUFFICES ASSUME TypeOK, [Next]_vars PROVE DecoderTaskTypeOK'
    OBVIOUS
  <1> USE DEF DecoderTaskTypeOK
  <1>0. DecoderTaskTypeOK /\ raw \in Buffer /\ "Start" \in {"Start"}
    BY DEF TypeOK, DeviceTaskTypeOK
  <1>1. CASE UNCHANGED decoderTaskVars
    BY <1>0, <1>1 DEF decoderTaskVars
  <1>2. CASE StartDecoder
    <2>1. decoderCommands' \in Seq({"Start"})
      BY <1>0, <1>2, HeadTailProperties DEF StartDecoder
    <2> QED
      BY <1>0, <1>2, <2>1, BuffersAreTyped DEF StartDecoder
  <1>3. CASE DecoderTaskStep
    <2>1. CASE DecoderStreaming \/ NothingToDecode
      BY <1>0, <2>1 DEF DecoderStreaming, NothingToDecode
    <2>2. CASE DecodeBuffer \/ FinishDecoding
      <3>1. Head(logicSignalQueue) \in Buffer /\ logicSignalQueue' \in Seq(Buffer)
        BY <1>0, <2>2, HeadTailProperties DEF DecodeBuffer, FinishDecoding
      <3>2. Head(logicSignalQueue).samples \in Samples
        BY <3>1 DEF Buffer
      <3> QED
        BY <1>0, <2>2, <3>1, <3>2 DEF DecodeBuffer, FinishDecoding
    <2> QED
      BY <1>3, <2>1, <2>2 DEF DecoderTaskStep
  <1>4. CASE DeliverRaw \/ EnqueueRaw
    <2>1. UNCHANGED logicSignalQueue \/ logicSignalQueue' = Append(logicSignalQueue, raw)
      BY <1>4 DEF DeliverRaw, EnqueueRaw, RawOnly
    <2>2. UNCHANGED <<cpc, logicDecoderStatus, decoderCommands, decoded>>
      BY <1>4 DEF DeliverRaw, EnqueueRaw, RawOnly
    <2>3. Append(logicSignalQueue, raw) \in Seq(Buffer)
      BY <1>0
    <2>4. logicSignalQueue' \in Seq(Buffer)
      BY <1>0, <2>1, <2>3
    <2> QED
      BY <1>0, <2>2, <2>4
  <1>5. CASE Start
    BY <1>0, <1>5 DEF Start, UserOnly
  <1> QED
    BY <1>1, <1>2, <1>3, <1>4, <1>5
       DEF Next, DeviceThread, DecoderThread, DecoderStarted, User, Usb, Environment, Stop, Pause, Resume,
           Switch, Ask, UserOnly, vars, decoderTaskVars

(* ... and the counters of the user and of the session. *)
LEMMA CountersTyped ==
  TypeOK /\ [Next]_vars => starts' \in 0..MaxStarts /\ events' \in 0..MaxEvents /\ since' \in Nat
  <1> SUFFICES ASSUME TypeOK, [Next]_vars
               PROVE  starts' \in 0..MaxStarts /\ events' \in 0..MaxEvents /\ since' \in Nat
    OBVIOUS
  <1>1. /\ starts \in 0..MaxStarts /\ events \in 0..MaxEvents /\ since \in Nat
        /\ driver.stream \in Nat
    BY DEF TypeOK, DriverTypeOK, Driver
  <1>2. UNCHANGED starts \/ (starts < MaxStarts /\ starts' = starts + 1)
    BY DEF Next, DeviceThread, DecoderThread, User, Usb, Environment, DeliverRaw, EnqueueRaw, RawOnly,
           DecoderStarted, Start, Stop, Pause, Resume, Switch, vars, userVars
  <1>3. UNCHANGED events \/ (events < MaxEvents /\ events' = events + 1)
    BY DEF Next, DeviceThread, DecoderThread, User, Usb, Environment, DeliverRaw, EnqueueRaw, RawOnly,
           DecoderStarted, Start, Stop, Pause, Resume, Switch, vars, userVars
  <1>4. since' \in {since, driver.stream}
    BY DEF Next, DeviceThread, DecoderThread, User, Usb, Environment, DeliverRaw, EnqueueRaw, RawOnly,
           DecoderStarted, Start, Stop, Pause, Resume, Switch, Ask, UserOnly, vars
  <1> QED
    BY <1>1, <1>2, <1>3, <1>4 DEF LogicCaptureAssumption

(* the typing, with what it needs of the driver *)
Typed == TypeOK /\ Begun

(* It holds at first ... *)
LEMMA InitTyped == Init => Typed
  <1> SUFFICES ASSUME Init PROVE Typed
    OBVIOUS
  <1>1. DriverTypeOK /\ Begun
    BY BuffersAreTyped
       DEF Init, DriverInit, DriverTypeOK, Begun, Opened, Driver, DeviceStatus
  <1>2. DeviceTaskTypeOK
    BY BuffersAreTyped
       DEF Init, DeviceTaskInit, DeviceTaskTypeOK, DevicePc, ReceiverStatus, Words
  <1>3. DecoderTaskTypeOK
    BY BuffersAreTyped DEF Init, DecoderTaskInit, DecoderTaskTypeOK
  <1>4. starts \in 0..MaxStarts /\ events \in 0..MaxEvents /\ since \in Nat
    BY DEF Init, LogicCaptureAssumption
  <1> QED
    BY <1>1, <1>2, <1>3, <1>4 DEF Typed, TypeOK

(* ... and always. *)
LEMMA TypedStays == Typed /\ [Next]_vars => Typed'
  BY DriverTyped, BegunStays, DeviceTaskTyped, DecoderTaskTyped, CountersTyped DEF Typed, TypeOK

(* Every variable of the acquisition keeps its type: the driver, the two     *)
(* tasks, the queues between them and the flags the window shows.            *)
THEOREM TypeCorrect == Spec => []TypeOK
  <1>1. Typed => TypeOK
    BY DEF Typed
  <1> QED
    BY <1>1, InitTyped, TypedStays, PTL DEF Spec

-----------------------------------------------------------------------------
(* What holds while streams are started, paused, stopped and removed *)

(* a command that a queue holds, and holds at most once *)
AskedIn(queue, code) == \E i \in DOMAIN queue : queue[i].code = code
Asked(code) == AskedIn(deviceCommands, code)

OnceIn(queue, code) ==
  \A i, j \in DOMAIN queue : queue[i].code = code /\ queue[j].code = code => i = j

(* the decoder has a session, or is about to have one *)
Open == logicDecoderStatus = "Streaming" \/ cpc = "starting"

(* no sample of the stream comes any more *)
Dead ==
  /\ bus = <<>> /\ usb.pc = "wait"
  /\ lpc \notin {"acquire", "acquired"}
  /\ \/ driver.status \in {"READY", "STOP", "ERROR", "INIT"} /\ lpc # "pausing"
     \/ ~driver.attached

(* the transfers of a stream whose header is still to come, and afterwards   *)
Fresh(transfers) ==
  /\ Len(transfers) > 2
  /\ \A i \in 1 .. Len(transfers) :
       transfers[i].kind = (IF i = 1 THEN "header" ELSE "data") /\ ~transfers[i].cancelled

Flowing(transfers) ==
  \A i \in 1 .. Len(transfers) : transfers[i].kind = "data" /\ ~transfers[i].cancelled

(* a transfer whose callback runs *)
Busied == IF usb.pc \in {"handler", "resend"} THEN 1 ELSE 0

(* between the header transfer of start() and the acquisition command        *)
Armed ==
  lpc = "acquire" /\ driver.attached =>
    /\ fpga.state = "armed" /\ usb.pc = "wait"
    /\ Fresh(bus)
    /\ driver.status \in {"INIT", "PAUSE"}

(* the analyser runs and has still to send the header of the stream, ...     *)
HeaderOwed ==
  /\ fpga.header
  /\ usb.pc = "wait" /\ Fresh(bus)
  /\ IF lpc = "acquired" THEN driver.status \in {"INIT", "PAUSE"} ELSE driver.status = "START"

(* ... or has sent it: then transfers of data are all there are *)
Flows ==
  /\ ~fpga.header
  /\ Flowing(bus)
  /\ \/ usb.pc = "headerOK"
        /\ driver.status \in (IF lpc = "acquired" THEN {"ERROR"} ELSE {"ERROR", "START"})
     \/ usb.pc \in {"wait", "handler", "resend"}
        /\ driver.status \in (IF lpc = "acquired" THEN {"DATA"} ELSE {"DATA", "START"})
  /\ IF lpc = "acquired" THEN Len(bus) + Busied > 1
     ELSE bus # <<>> \/ (Busied = 1 /\ driver.status = "DATA")

(* while the analyser runs nobody stops it, and the stream is in one of these *)
Runs ==
  fpga.state = "runs" =>
    /\ driver.attached /\ driver.open
    /\ lpc \notin {"acquire", "stopping", "pausing", "closing"}
    /\ HeaderOwed \/ Flows

(* while it does not, nothing streams but what is being stopped *)
RunsNot ==
  /\ fpga.state = "armed" => lpc = "acquire" /\ driver.attached
  /\ driver.attached /\ lpc = "acquired" => fpga.state = "runs"
  /\ driver.attached /\ fpga.state # "runs" =>
       /\ usb.pc # "headerOK"
       /\ driver.status \in {"START", "DATA"} => lpc \in {"stopping", "pausing"}
  /\ ~driver.open => bus = <<>> /\ usb.pc = "wait"

(* the stages of a stream, as the device and the driver go through them      *)
Hardware == Armed /\ Runs /\ RunsNot

(* who asks for a stream finds no transfer of another one *)
Ready == Asked("Start") \/ Asked("Resume") => bus = <<>> /\ usb.pc = "wait"

(* A stream begins with its header transfer and at least two of data.        *)
LEMMA FreshOnes ==
  ASSUME NEW stream \in Nat, bus = <<>>, Transfers > 1
  PROVE  Fresh(BeginTransfers(stream))
  <1> DEFINE data == [i \in 1..Transfers |-> Submitted("data", stream)]
  <1>1. Transfers \in Nat
    BY DSLogicAssumption
  <1>2. data \in Seq(Transfer) /\ Len(data) = Transfers /\ <<Submitted("header", stream)>> \in Seq(Transfer)
    BY <1>1 DEF Submitted, Transfer
  <1>3. BeginTransfers(stream) = <<Submitted("header", stream)>> \o data
    BY <1>2 DEF BeginTransfers
  <1>4. \A i \in 1..Transfers : data[i] = Submitted("data", stream)
    OBVIOUS
  <1> HIDE DEF data
  <1>5. /\ Len(<<Submitted("header", stream)>> \o data) = Transfers + 1
        /\ \A i \in 1 .. Transfers + 1 : (<<Submitted("header", stream)>> \o data)[i] =
             IF i = 1 THEN Submitted("header", stream) ELSE data[i - 1]
    BY <1>1, <1>2
  <1>6. \A i \in 1 .. Transfers + 1 : BeginTransfers(stream)[i] =
             IF i = 1 THEN Submitted("header", stream) ELSE Submitted("data", stream)
    BY <1>1, <1>3, <1>4, <1>5
  <1> QED
    BY <1>1, <1>3, <1>5, <1>6 DEF Fresh, Submitted

(* Once the header is back the others are data, ... *)
LEMMA FreshFlows ==
  ASSUME NEW transfers \in Seq(Transfer), Fresh(transfers)
  PROVE  Flowing(Tail(transfers)) /\ Len(Tail(transfers)) = Len(transfers) - 1
  BY DEF Fresh, Flowing

(* ... and remain data when one comes back or is submitted again.            *)
LEMMA FlowingFlows ==
  ASSUME NEW transfers \in Seq(Transfer), Flowing(transfers)
  PROVE  /\ transfers # <<>> => Flowing(Tail(transfers)) /\ Len(Tail(transfers)) = Len(transfers) - 1
         /\ \A stream \in Nat : LET more == Append(transfers, Submitted("data", stream)) IN
              Flowing(more) /\ Len(more) = Len(transfers) + 1 /\ more # <<>>
  <1>1. transfers # <<>> => Flowing(Tail(transfers)) /\ Len(Tail(transfers)) = Len(transfers) - 1
    BY DEF Flowing
  <1>2. ASSUME NEW stream \in Nat
        PROVE  LET more == Append(transfers, Submitted("data", stream)) IN
               Flowing(more) /\ Len(more) = Len(transfers) + 1 /\ more # <<>>
    <2> DEFINE more == Append(transfers, Submitted("data", stream))
    <2>1. Submitted("data", stream).kind = "data" /\ ~Submitted("data", stream).cancelled
      BY DEF Submitted
    <2>2. Len(more) = Len(transfers) + 1 /\ Len(transfers) \in Nat
          /\ \A i \in 1 .. Len(transfers) + 1 :
               more[i] = IF i = Len(transfers) + 1 THEN Submitted("data", stream) ELSE transfers[i]
      OBVIOUS
    <2>3. more # <<>>
      BY <2>2
    <2> QED
      BY <2>1, <2>2, <2>3 DEF Flowing
  <1> QED
    BY <1>1, <1>2

(* Without transfers nothing is cancelled. *)
LEMMA NothingCancelled ==
  ASSUME bus = <<>>
  PROVE  [i \in DOMAIN bus |-> [bus[i] EXCEPT !.cancelled = TRUE]] = <<>>
  OBVIOUS

(* Every step takes a stream on in its stages. *)
LEMMA HardwareStep ==
  ASSUME Transfers > 1, Typed, Hardware, Ready, [Next]_vars
  PROVE  Hardware'
  <1> USE DEF Hardware, Armed, Runs, RunsNot
  <1>0. /\ driver \in Driver /\ bus \in Seq(Transfer) /\ deviceCommands \in Seq(Command)
        /\ fpga \in Analyser
        /\ usb \in [pc : {"wait", "headerOK", "headerBad", "handler", "resend"}, samples : Samples]
        /\ driver.stream \in Nat
    BY DEF Typed, TypeOK, DriverTypeOK, DeviceTaskTypeOK, Driver, Analyser
  <1>1. CASE UNCHANGED <<driver, fpga, bus, usb, lpc>>
    BY <1>1 DEF HeaderOwed, Flows, Busied
  <1> DEFINE Apart == {"acquire", "acquired", "stopping", "pausing", "closing"}
  <1>2. ASSUME UNCHANGED <<driver, fpga, bus, usb>>, lpc \notin Apart, lpc' \notin Apart
        PROVE  Hardware'
    BY <1>2 DEF HeaderOwed, Flows, Busied
  <1>3. ASSUME Halt, UNCHANGED usb, driver.open, driver'.open, driver'.status \in {driver.status, "STOP"},
               lpc' \in {"stopping", "pausing"} \/ (lpc' = "closing" /\ driver'.status = "STOP"),
               driver'.attached = driver.attached
        PROVE  Hardware'
    <2>1. fpga'.state = "off" /\ usb'.pc # "headerOK"
      BY <1>0, <1>3 DEF Halt, Analyser
    <2> QED
      BY <2>1, <1>3
  <1>4. ASSUME NEW code, Handling(code) PROVE Asked(code) /\ lpc = "command"
    BY <1>0, <1>4, HeadTailProperties DEF Handling, Asked, AskedIn
  <1>5. ASSUME Begin(TRUE) \/ (Begin(FALSE) /\ IsPaused), UNCHANGED usb, driver.open,
               bus = <<>> /\ usb.pc = "wait",
               lpc' = IF driver.attached THEN "acquire" ELSE "report"
        PROVE  Hardware'
    <2>1. /\ driver'.open /\ driver'.attached = driver.attached /\ driver'.status \in {"INIT", "PAUSE"}
          /\ driver'.stream \in Nat
      <3>1. CASE Begin(TRUE)
        BY <3>1, <1>0, <1>5 DEF Begin, Driver
      <3>2. CASE Begin(FALSE) /\ IsPaused
        BY <3>2, <1>0, <1>5 DEF Begin, Driver, IsPaused
      <3> QED
        BY <3>1, <3>2, <1>5
    <2>2. /\ fpga'.state = IF driver.attached THEN "armed" ELSE "off"
          /\ driver.attached => bus' = BeginTransfers(driver'.stream)
      <3>1. CASE Begin(TRUE)
        BY <3>1 DEF Begin
      <3>2. CASE Begin(FALSE)
        BY <3>2 DEF Begin
      <3> QED
        BY <3>1, <3>2, <1>5
    <2>3. CASE driver.attached
      <3>1. Fresh(bus')
        BY <2>1, <2>2, <2>3, <1>5, FreshOnes
      <3> QED
        BY <2>1, <2>2, <2>3, <3>1, <1>5
    <2>4. CASE ~driver.attached
      BY <2>1, <2>2, <2>4, <1>5
    <2> QED
      BY <2>3, <2>4
  <1>6. CASE StartDevice
    BY <1>4, <1>5, <1>6 DEF StartDevice, Accepted, Ready
  <1>7. CASE ResumeDevice
    <2>1. CASE ~IsPaused
      BY <1>2, <1>4, <1>7, <2>1 DEF ResumeDevice, Accepted
    <2>2. CASE IsPaused
      BY <1>4, <1>5, <1>7, <2>2 DEF ResumeDevice, Accepted, Ready
    <2> QED
      BY <2>1, <2>2
  <1>8. CASE StartAcquisition
    <2>1. CASE driver.attached
      <3>1. fpga'.state = "runs" /\ fpga'.header /\ UNCHANGED <<driver, bus, usb>> /\ lpc' = "acquired"
        BY <1>0, <1>8, <2>1 DEF StartAcquisition, Acquire, Analyser
      <3>2. lpc = "acquire" /\ driver.open
        BY <1>8, <2>1 DEF StartAcquisition, Fresh
      <3> QED
        BY <3>1, <3>2, <2>1 DEF HeaderOwed
    <2>2. CASE ~driver.attached
      <3>1. UNCHANGED <<fpga, bus, usb>> /\ ~driver'.attached /\ driver'.open = driver.open /\ lpc' = "report"
        BY <1>0, <1>8, <2>2 DEF StartAcquisition, Acquire, Driver
      <3> QED
        BY <3>1, <2>2
    <2> QED
      BY <2>1, <2>2
  <1>9. CASE CallReturns
    <2>1. /\ UNCHANGED <<fpga, bus, usb>> /\ lpc' = "report"
          /\ driver'.attached = driver.attached /\ driver'.open = driver.open
      BY <1>0, <1>9 DEF CallReturns, SetStatus, Driver
    <2>2. CASE lpc = "acquired"
      <3>1. driver'.status = "START"
        BY <1>0, <1>9, <2>2 DEF CallReturns, SetStatus, Driver
      <3>2. Len(bus) \in Nat /\ (Len(bus) > 0 => bus # <<>>)
        BY <1>0
      <3>3. Flows => Flows'
        BY <2>1, <2>2, <3>1, <3>2 DEF Flows, Busied
      <3>4. HeaderOwed => HeaderOwed'
        BY <2>1, <2>2, <3>1 DEF HeaderOwed
      <3> QED
        BY <2>1, <2>2, <3>1, <3>3, <3>4
    <2>3. CASE lpc \in {"stopping", "pausing"}
      <3>1. driver'.status \in {"STOP", "PAUSE"}
        BY <1>0, <1>9, <2>3 DEF CallReturns, SetStatus, Driver
      <3> QED
        BY <2>1, <2>3, <3>1
    <2> QED
      BY <1>9, <2>2, <2>3 DEF CallReturns
  <1>10. CASE StopDevice
    <2>1. lpc = "command" /\ driver.open /\ UNCHANGED <<driver, usb>>
      BY <1>4, <1>10 DEF StopDevice, Accepted
    <2>2. CASE IsPaused
      BY <2>1, <2>2, <1>2, <1>10 DEF StopDevice
    <2>3. CASE ~IsPaused
      BY <2>1, <2>3, <1>3, <1>10 DEF StopDevice
    <2> QED
      BY <2>2, <2>3
  <1>11. CASE PauseDevice
    <2>1. lpc = "command" /\ driver.open /\ UNCHANGED <<driver, usb>>
      BY <1>4, <1>11 DEF PauseDevice, Accepted
    <2>2. CASE driver.status # "DATA"
      BY <2>1, <2>2, <1>2, <1>11 DEF PauseDevice
    <2>3. CASE driver.status = "DATA"
      BY <2>1, <2>3, <1>3, <1>11 DEF PauseDevice
    <2> QED
      BY <2>2, <2>3
  <1>12. CASE ConfigDevice
    <2>1. lpc = "command" /\ UNCHANGED <<driver, usb>>
      BY <1>4, <1>12 DEF ConfigDevice
    <2>2. CASE UNCHANGED <<fpga, bus>> /\ lpc' = "report"
      BY <2>1, <2>2, <1>2
    <2>3. CASE lpc' = "stopping" /\ Halt /\ driver.open
      BY <2>1, <2>3, <1>3
    <2> QED
      BY <2>2, <2>3, <1>12 DEF ConfigDevice
  <1>13. CASE Attach
    <2>1. /\ driver' = Opened(driver.stream) /\ UNCHANGED <<fpga, bus, usb>>
          /\ lpc = "refresh" /\ lpc' = "queue" /\ ~driver.open
      BY <1>13 DEF Attach, Refreshing
    <2>2. driver'.attached /\ driver'.open /\ driver'.status = "READY"
      BY <2>1 DEF Opened
    <2> QED
      BY <2>1, <2>2
  <1>14. CASE Close
    <2>1. lpc = "close" /\ lpc' = "closing" /\ UNCHANGED usb
      BY <1>14 DEF Close
    <2>2. CASE IsPaused
      <3>1. UNCHANGED <<driver, fpga, bus>> /\ fpga.state # "runs"
        BY <2>1, <2>2, <1>14 DEF Close, IsPaused, HeaderOwed, Flows
      <3> QED
        BY <2>1, <2>2, <3>1 DEF IsPaused
    <2>3. CASE ~IsPaused
      <3>1. /\ Halt
            /\ driver'.status = "STOP" /\ driver'.open = driver.open /\ driver'.attached = driver.attached
        BY <1>0, <1>14, <2>3 DEF Close, SetStatus, Driver
      <3>2. CASE driver.open
        BY <1>3, <2>1, <3>1, <3>2
      <3>3. CASE ~driver.open
        <4>1. bus' = <<>> /\ usb'.pc = "wait" /\ fpga'.state = "off"
          BY <1>0, <2>1, <3>1, <3>3, NothingCancelled DEF Halt, Analyser
        <4> QED
          BY <2>1, <3>1, <3>3, <4>1
      <3> QED
        BY <3>2, <3>3
    <2> QED
      BY <2>2, <2>3
  <1>15. CASE Closed
    <2>1. /\ UNCHANGED <<fpga, bus, usb>> /\ bus = <<>> /\ usb.pc = "wait"
          /\ lpc = "closing" /\ lpc' = "queue"
          /\ ~driver'.open /\ driver'.attached = driver.attached /\ driver'.status = driver.status
      BY <1>0, <1>15 DEF Closed, Driver
    <2> QED
      BY <2>1
  <1>16. ASSUME EventThread, UNCHANGED lpc PROVE Hardware'
    <2>1. ASSUME NEW status, SetStatus(status)
          PROVE  /\ driver'.attached = driver.attached /\ driver'.open = driver.open
                 /\ driver'.status = status
      BY <1>0, <2>1 DEF SetStatus, Driver
    <2>2. ASSUME NEW completed, NEW isHeader, HeaderBack(completed, isHeader)
          PROVE  /\ driver'.attached = driver.attached /\ driver'.open = driver.open
                 /\ driver'.status = "ERROR"
                 /\ usb'.pc = IF completed /\ isHeader THEN "headerOK" ELSE "headerBad"
      BY <1>0, <2>1, <2>2 DEF HeaderBack
    <2>3. ASSUME NEW status, NEW stream, NEW rest, Deliver(status, stream, rest)
          PROVE  /\ driver'.attached = driver.attached /\ driver'.open = driver.open
                 /\ driver'.status = status
                 /\ usb'.pc \in {"handler", "resend"}
      BY <1>0, <2>3 DEF Deliver, Driver
    <2>4. ASSUME NEW filled \in BOOLEAN, NEW failed \in BOOLEAN, NEW stream,
                 DataBack(filled, failed, stream), usb.pc = "wait"
          PROVE  /\ driver'.attached = driver.attached /\ driver'.open = driver.open
                 /\ driver'.status = IF failed THEN "ERROR"
                                     ELSE IF driver.status = "START" THEN "DATA" ELSE driver.status
                 /\ usb'.pc \in {"wait", "handler", "resend"}
                 /\ driver'.status = "DATA" /\ filled => usb'.pc \in {"handler", "resend"}
      <3> DEFINE status == IF failed THEN "ERROR"
                           ELSE IF driver.status = "START" THEN "DATA" ELSE driver.status
      <3>1. CASE status = "DATA" /\ filled
        <4>1. PICK rest \in Rests : Deliver(status, stream, rest)
          BY <2>4, <3>1 DEF DataBack
        <4> HIDE DEF status
        <4>2. /\ driver'.attached = driver.attached /\ driver'.open = driver.open
              /\ driver'.status = status /\ usb'.pc \in {"handler", "resend"}
          BY <2>3, <4>1
        <4> QED
          BY <4>2 DEF status
      <3>2. CASE ~(status = "DATA" /\ filled)
        <4>1. SetStatus(status) /\ UNCHANGED usb
          BY <2>4, <3>2 DEF DataBack
        <4> HIDE DEF status
        <4>2. /\ driver'.attached = driver.attached /\ driver'.open = driver.open
              /\ driver'.status = status
          BY <2>1, <4>1
        <4> QED
          BY <2>4, <3>2, <4>1, <4>2 DEF status
      <3> QED
        BY <3>1, <3>2
    <2>5. CASE Complete
      <3>1. /\ usb.pc = "wait" /\ bus # <<>> /\ bus' = Tail(bus) /\ Head(bus) = bus[1] /\ Len(bus) > 0
            /\ fpga.state = "runs" /\ driver.attached /\ driver.open /\ Len(bus) \in Nat
        BY <1>0, <2>5 DEF Complete, Waiting
      <3>2. fpga'.state = "runs" /\ ~fpga'.header
        BY <1>0, <3>1, <2>5 DEF Complete, Analyser
      <3>3. CASE HeaderOwed
        <4>1. Head(bus).kind = "header"
          BY <3>1, <3>3 DEF HeaderOwed, Fresh
        <4>2. HeaderBack(TRUE, fpga.header) /\ fpga.header
          BY <2>5, <3>3, <4>1 DEF Complete, HeaderOwed
        <4>3. /\ driver'.attached /\ driver'.open /\ driver'.status = "ERROR" /\ usb'.pc = "headerOK"
          BY <2>2, <3>1, <4>2
        <4>4. Flowing(bus') /\ Len(bus') > 1 /\ bus' # <<>>
          <5>1. Fresh(bus) /\ Len(bus) > 2
            BY <3>3 DEF HeaderOwed, Fresh
          <5>2. Flowing(bus') /\ Len(bus') = Len(bus) - 1
            BY <1>0, <3>1, <5>1, FreshFlows
          <5>3. Len(bus') > 1
            BY <3>1, <5>1, <5>2
          <5> QED
            BY <5>2, <5>3
        <4> QED
          BY <1>16, <3>1, <3>2, <4>3, <4>4 DEF Flows, Busied
      <3>4. CASE Flows
        <4>1. Head(bus).kind = "data"
          BY <3>1, <3>4 DEF Flows, Flowing
        <4>2. DataBack(TRUE, FALSE, driver.stream)
          BY <2>5, <4>1 DEF Complete
        <4>3. /\ driver'.attached /\ driver'.open /\ driver'.status = "DATA"
              /\ usb'.pc \in {"handler", "resend"}
          BY <2>4, <3>1, <3>4, <4>2 DEF Flows
        <4>4. Flowing(bus') /\ Len(bus') = Len(bus) - 1
          BY <1>0, <3>1, <3>4, FlowingFlows DEF Flows
        <4> QED
          BY <1>16, <3>1, <3>2, <3>4, <4>3, <4>4 DEF Flows, Busied
      <3> QED
        BY <3>1, <3>3, <3>4
    <2>6. CASE CancelBack \/ FailBack
      <3>1. usb.pc = "wait" /\ bus # <<>> /\ UNCHANGED fpga
        BY <2>6 DEF CancelBack, FailBack, Waiting
      <3>2. bus[1] = Head(bus) /\ 1 \in 1 .. Len(bus)
        BY <1>0, <3>1
      <3>3. bus[1].cancelled \/ (~bus[1].cancelled /\ (fpga.state = "off" \/ ~driver.attached))
        BY <2>6, <3>2 DEF CancelBack, FailBack
      <3>4. fpga.state # "runs" /\ ~(lpc = "acquire" /\ driver.attached)
        <4>1. Fresh(bus) \/ Flowing(bus) => ~bus[1].cancelled
          BY <3>2 DEF Fresh, Flowing
        <4> QED
          BY <3>3, <4>1 DEF HeaderOwed, Flows
      <3>5. /\ driver'.attached = driver.attached /\ driver'.open = driver.open
            /\ \/ driver'.status \in {driver.status, "ERROR"}
               \/ driver.status = "START" /\ driver'.status = "DATA"
            /\ usb'.pc # "headerOK"
        <4>1. CASE HeaderBack(FALSE, FALSE)
          <5>1. SetStatus("ERROR") /\ usb' = [usb EXCEPT !.pc = "headerBad"]
            BY <4>1 DEF HeaderBack
          <5> QED
            BY <1>0, <2>1, <5>1
        <4>2. ASSUME NEW filled \in BOOLEAN, NEW failed \in BOOLEAN, NEW stream,
                     DataBack(filled, failed, stream)
              PROVE  /\ driver'.attached = driver.attached /\ driver'.open = driver.open
                     /\ \/ driver'.status \in {driver.status, "ERROR"}
                        \/ driver.status = "START" /\ driver'.status = "DATA"
                     /\ usb'.pc # "headerOK"
          BY <2>4, <3>1, <4>2
        <4>3. CASE CancelBack
          BY <4>1, <4>2, <4>3 DEF CancelBack
        <4>4. CASE FailBack
          <5>1. (~driver.attached) \in BOOLEAN
            OBVIOUS
          <5> QED
            BY <4>1, <4>2, <4>4, <5>1 DEF FailBack
        <4> QED
          BY <2>6, <4>3, <4>4
      <3> QED
        BY <1>16, <3>1, <3>3, <3>4, <3>5
    <2>7. CASE HeaderDone
      <3>1. /\ usb.pc \in {"headerOK", "headerBad"} /\ usb'.pc = "wait" /\ UNCHANGED <<fpga, bus>>
            /\ driver'.attached = driver.attached /\ driver'.open = driver.open
            /\ driver'.status = IF usb.pc = "headerOK" THEN "DATA" ELSE driver.status
        BY <1>0, <2>7 DEF HeaderDone, Driver
      <3> QED
        BY <1>16, <3>1 DEF HeaderOwed, Flows, Busied
    <2>8. CASE Handle
      <3>1. usb.pc = "handler" /\ usb'.pc = "resend" /\ UNCHANGED <<driver, fpga, bus>>
        BY <1>0, <2>8 DEF Handle
      <3> QED
        BY <1>16, <3>1 DEF HeaderOwed, Flows, Busied
    <2>9. CASE Resend
      <3>1. usb.pc = "resend" /\ usb'.pc = "wait" /\ UNCHANGED <<driver, fpga>>
        BY <2>9 DEF Resend
      <3>2. driver.attached => bus' = IF driver.status = "DATA"
                                     THEN Append(bus, Submitted("data", driver.stream)) ELSE bus
        BY <2>9 DEF Resend
      <3>3. Len(bus) \in Nat
        BY <1>0
      <3>4. Flows /\ driver.attached => Flows'
        <4>1. CASE driver.status = "DATA"
          <5> SUFFICES ASSUME Flows, driver.attached PROVE Flows'
            OBVIOUS
          <5>1. Flowing(bus)
            BY DEF Flows
          <5>2. Flowing(bus') /\ Len(bus') = Len(bus) + 1 /\ bus' # <<>>
            BY <1>0, <3>2, <4>1, <5>1, FlowingFlows
          <5>3. Busied = 1 /\ Busied' = 0
            BY <3>1 DEF Busied
          <5>4. lpc = "acquired" => Len(bus') + Busied' > 1
            BY <3>3, <5>2, <5>3 DEF Flows
          <5> QED
            BY <1>16, <3>1, <4>1, <5>2, <5>4 DEF Flows
        <4>2. CASE driver.status # "DATA"
          BY <1>16, <3>1, <3>2, <4>2 DEF Flows, Busied
        <4> QED
          BY <4>1, <4>2
      <3> QED
        BY <1>16, <3>1, <3>4 DEF HeaderOwed
    <2> QED
      BY <1>16, <2>5, <2>6, <2>7, <2>8, <2>9 DEF EventThread
  <1>17. CASE Unplug
    <2>1. /\ UNCHANGED <<bus, usb>> /\ fpga'.state = "off"
          /\ ~driver'.attached /\ driver'.open = driver.open
      BY <1>0, <1>17 DEF Unplug, Driver, Analyser
    <2> QED
      BY <2>1
  <1>18. CASE DeviceTaskStep
    <2>1. CASE DropCommand \/ Report \/ Pass("refresh") \/ Pass("queue") \/ NoRefresh
               \/ PublishEnd \/ NothingQueued \/ Published
      BY <1>2, <1>4, <2>1 DEF DropCommand, Report, Pass, NoRefresh, PublishEnd, NothingQueued, Published,
                        driverVars
    <2>2. CASE Detach \/ ReportStatus \/ PublishBuffer
      BY <1>2, <2>2 DEF Detach, ReportStatus, Refreshing, PublishBuffer
    <2> QED
      BY <1>6, <1>7, <1>8, <1>9, <1>10, <1>11, <1>12, <1>13, <1>14, <1>15, <1>18, <2>1, <2>2, Zenon
         DEF DeviceTaskStep, RefreshStep
  <1>19. CASE DeliverRaw \/ EnqueueRaw
    BY <1>2, <1>19 DEF DeliverRaw, EnqueueRaw, RawOnly, driverVars
  <1>20. CASE DeviceThread
    BY <1>18, <1>19, <1>20 DEF DeviceThread
  <1>21. CASE Usb
    BY <1>16, <1>21 DEF Usb, deviceTaskVars
  <1> QED
    BY <1>1, <1>17, <1>20, <1>21
       DEF Next, DecoderThread, User, Environment, Plug, DecoderStarted, Start, Stop, Pause, Resume, Switch,
           Ask, UserOnly, vars, driverVars, deviceTaskVars

-----------------------------------------------------------------------------
(* What is asked for, and what the user waits for before asking *)

(* one start at a time, made when no stream is asked for, of none but the last *)
Requests ==
  /\ decoderCommands # <<>> =>
       /\ Len(decoderCommands) = 1
       /\ ~Open /\ ~Asked("Start") /\ ~Asked("Resume")
  /\ since <= driver.stream
  /\ OnceIn(deviceCommands, "Start") /\ OnceIn(deviceCommands, "Resume")
  /\ Asked("Resume") => bus = <<>> /\ usb.pc = "wait" /\ ~Asked("Start")
  /\ Asked("Start") /\ Open => driver.stream = since

(* a session for which no sample has come yet *)
Phase == decoderCommands # <<>> \/ Asked("Start") \/ (Open /\ driver.stream = since)

(* a buffer is being published *)
OnItsWay == lpc \in {"publish", "enqueue"} /\ IsValid(raw)

(* no sample of the stream is on its way to the decoder *)
Still == Dead /\ signalQueue = <<>> /\ ~OnItsWay

(* who waits for samples of a new stream waits for all of the old to be gone *)
Awaited == Phase => Still

(* where loop() is between one command and the next *)
Calm == {"command", "refresh", "queue", "publish", "enqueue", "published"}

(* once the task has reported, a paused device shows as paused, or as one that is off *)
Shown ==
  lpc \in Calm /\ driver.attached /\ driver.status = "PAUSE"
    => control.shown \in {"paused", "disabled", "absent"} \/ Asked("Configure")

(* A command that is taken is asked for no more; the others remain.          *)
LEMMA TakingOne ==
  ASSUME NEW queue \in Seq(Command), queue # <<>>, NEW code
  PROVE  /\ AskedIn(Tail(queue), code) => AskedIn(queue, code)
         /\ OnceIn(queue, code) => OnceIn(Tail(queue), code)
         /\ OnceIn(queue, code) /\ Head(queue).code = code => ~AskedIn(Tail(queue), code)
         /\ Head(queue).code # code /\ AskedIn(queue, code) => AskedIn(Tail(queue), code)
         /\ AskedIn(queue, Head(queue).code)
  <1>1. /\ Len(queue) \in Nat /\ Len(queue) > 0 /\ Head(queue) = queue[1]
        /\ DOMAIN queue = 1 .. Len(queue) /\ DOMAIN Tail(queue) = 1 .. Len(queue) - 1
        /\ \A i \in 1 .. Len(queue) - 1 : Tail(queue)[i] = queue[i + 1]
    OBVIOUS
  <1>2. AskedIn(Tail(queue), code) => AskedIn(queue, code)
    BY <1>1 DEF AskedIn
  <1>3. OnceIn(queue, code) => OnceIn(Tail(queue), code)
    BY <1>1 DEF OnceIn
  <1>4. OnceIn(queue, code) /\ Head(queue).code = code => ~AskedIn(Tail(queue), code)
    BY <1>1 DEF OnceIn, AskedIn
  <1>5. ASSUME Head(queue).code # code, AskedIn(queue, code) PROVE AskedIn(Tail(queue), code)
    <2>1. PICK i \in 1 .. Len(queue) : queue[i].code = code
      BY <1>1, <1>5 DEF AskedIn
    <2>2. i # 1 /\ i - 1 \in 1 .. Len(queue) - 1
      BY <1>1, <1>5, <2>1
    <2>3. Tail(queue)[i - 1] = queue[i]
      BY <1>1, <2>2
    <2> QED
      BY <1>1, <2>1, <2>2, <2>3 DEF AskedIn
  <1>6. AskedIn(queue, Head(queue).code)
    BY <1>1 DEF AskedIn
  <1> QED
    BY <1>2, <1>3, <1>4, <1>5, <1>6

(* A command that is sent is asked for; it displaces no other. *)
LEMMA AskingOne ==
  ASSUME NEW queue \in Seq(Command), NEW command \in Command, NEW code
  PROVE  /\ AskedIn(queue, code) => AskedIn(Append(queue, command), code)
         /\ command.code # code /\ AskedIn(Append(queue, command), code) => AskedIn(queue, code)
         /\ ~AskedIn(queue, code) => OnceIn(Append(queue, command), code)
         /\ command.code # code /\ OnceIn(queue, code) => OnceIn(Append(queue, command), code)
         /\ AskedIn(Append(queue, command), command.code)
  <1> DEFINE more == Append(queue, command)
  <1>1. /\ Len(queue) \in Nat /\ DOMAIN queue = 1 .. Len(queue) /\ DOMAIN more = 1 .. Len(queue) + 1
        /\ more[Len(queue) + 1] = command
        /\ \A i \in 1 .. Len(queue) : more[i] = queue[i] /\ i \in 1 .. Len(queue) + 1
        /\ \A i \in 1 .. Len(queue) + 1 : i = Len(queue) + 1 \/ i \in 1 .. Len(queue)
    OBVIOUS
  <1> HIDE DEF more
  <1>2. AskedIn(queue, code) => AskedIn(more, code)
    BY <1>1 DEF AskedIn
  <1>3. command.code # code /\ AskedIn(more, code) => AskedIn(queue, code)
    BY <1>1 DEF AskedIn
  <1>4. ~AskedIn(queue, code) => OnceIn(more, code)
    BY <1>1 DEF AskedIn, OnceIn
  <1>5. command.code # code /\ OnceIn(queue, code) => OnceIn(more, code)
    BY <1>1 DEF OnceIn
  <1>6. AskedIn(more, command.code)
    BY <1>1 DEF AskedIn
  <1> QED
    BY <1>2, <1>3, <1>4, <1>5, <1>6 DEF more

(* A stream that is dead stays so until the next one starts. *)
LEMMA DeadStays ==
  ASSUME Typed, Hardware, Dead, [Next]_vars, ~StartDevice
  PROVE  Dead'
  <1> USE DEF Dead
  <1>0. driver \in Driver
    BY DEF Typed, TypeOK, DriverTypeOK
  <1>1. ASSUME UNCHANGED <<driver, bus, usb>>, lpc' \notin {"acquire", "acquired", "pausing"} PROVE Dead'
    BY <1>1
  <1>2. CASE UNCHANGED <<driver, bus, usb, lpc>>
    BY <1>2
  <1>3. ASSUME Halt, UNCHANGED <<driver.attached, usb>>,
               driver'.status \in {driver.status, "STOP"},
               lpc' \notin {"acquire", "acquired"} /\ (lpc' = "pausing" => driver.status = "DATA")
        PROVE  Dead'
    BY <1>3, NothingCancelled DEF Halt
  <1>4. CASE StopDevice \/ PauseDevice \/ ConfigDevice
    BY <1>1, <1>3, <1>4 DEF StopDevice, PauseDevice, ConfigDevice
  <1>5. CASE ResumeDevice
    <2>1. CASE ~IsPaused
      BY <1>1, <1>5, <2>1 DEF ResumeDevice
    <2>2. CASE IsPaused
      <3>1. ~driver.attached
        BY <2>2 DEF IsPaused
      <3>2. bus' = bus /\ lpc' = "report" /\ UNCHANGED usb /\ ~driver'.attached
        BY <1>0, <1>5, <2>2, <3>1 DEF ResumeDevice, Begin, Driver
      <3> QED
        BY <3>2
    <2> QED
      BY <2>1, <2>2
  <1>6. CASE CallReturns
    <2>1. /\ lpc \in {"stopping", "pausing"} /\ lpc' = "report" /\ UNCHANGED <<bus, usb>>
          /\ driver'.attached = driver.attached
          /\ lpc = "stopping" => driver'.status = "STOP"
      BY <1>0, <1>6 DEF CallReturns, SetStatus, Driver
    <2> QED
      BY <2>1
  <1>7. CASE Attach
    <2>1. driver'.status = "READY" /\ lpc' = "queue" /\ UNCHANGED <<bus, usb>>
      BY <1>7 DEF Attach, Refreshing, Opened
    <2> QED
      BY <2>1
  <1>8. CASE Close
    <2>1. CASE IsPaused
      BY <1>1, <1>8, <2>1 DEF Close
    <2>2. CASE ~IsPaused
      <3>1. Halt /\ driver'.attached = driver.attached /\ driver'.status = "STOP" /\ lpc' = "closing"
            /\ UNCHANGED usb
        BY <1>0, <1>8, <2>2 DEF Close, SetStatus, Driver
      <3> QED
        BY <1>3, <3>1
    <2> QED
      BY <2>1, <2>2
  <1>9. CASE Closed
    <2>1. /\ driver'.status = driver.status /\ driver'.attached = driver.attached /\ lpc' = "queue"
          /\ UNCHANGED <<bus, usb>> /\ lpc = "closing"
      BY <1>0, <1>9 DEF Closed, Driver
    <2> QED
      BY <2>1
  <1>10. CASE Usb
    BY <1>10 DEF Usb, EventThread, Complete, CancelBack, FailBack, Waiting, HeaderDone, Handle, Resend
  <1>11. CASE Unplug /\ UNCHANGED lpc
    <2>1. ~driver'.attached /\ UNCHANGED <<bus, usb>>
      BY <1>0, <1>11 DEF Unplug, Driver
    <2> QED
      BY <2>1, <1>11
  <1>12. CASE DeviceThread
    <2>1. CASE DropCommand \/ Report \/ Pass("refresh") \/ Pass("queue") \/ NoRefresh
               \/ PublishEnd \/ NothingQueued \/ Published \/ Detach \/ ReportStatus \/ PublishBuffer
               \/ DeliverRaw \/ EnqueueRaw
      BY <1>1, <2>1 DEF DropCommand, Report, Pass, NoRefresh, PublishEnd, NothingQueued, Published,
                        Detach, ReportStatus, Refreshing, PublishBuffer, DeliverRaw, EnqueueRaw, RawOnly,
                        driverVars
    <2>2. CASE StartAcquisition
      BY <2>2 DEF StartAcquisition
    <2> QED
      BY <1>4, <1>5, <1>6, <1>7, <1>8, <1>9, <1>12, <2>1, <2>2, Zenon
         DEF DeviceThread, DeviceTaskStep, RefreshStep
  <1> QED
    BY <1>2, <1>10, <1>11, <1>12
       DEF Next, DecoderThread, User, Environment, Plug, DecoderStarted, Start, Stop, Pause, Resume, Switch,
           Ask, UserOnly, vars, driverVars, deviceTaskVars

(* ... and nothing of it is queued or published. *)
LEMMA StillStays ==
  ASSUME Typed, Hardware, Still, [Next]_vars, ~StartDevice
  PROVE  Still'
  <1>1. Dead'
    BY DeadStays DEF Still
  <1>2. signalQueue' = signalQueue
    BY DEF Still, Dead, Next, DeviceThread, DeviceTaskStep, DropCommand, StartAcquisition, CallReturns,
           StopDevice, PauseDevice, ResumeDevice, ConfigDevice, Report, Pass, RefreshStep, Attach, Detach,
           ReportStatus, Refreshing, NoRefresh, Close, Closed, PublishBuffer, PublishEnd, NothingQueued,
           Published, DeliverRaw, EnqueueRaw, RawOnly, DecoderThread, DecoderStarted, User, Start, Stop,
           Pause, Resume, Switch, Ask, UserOnly, Usb, EventThread, Complete, CancelBack, FailBack, Waiting,
           HeaderDone, Handle, Resend, Environment, Unplug, Plug, vars, driverVars
  <1>3. ~OnItsWay'
    <2>1. CASE UNCHANGED <<lpc, raw>>
      BY <2>1 DEF Still, OnItsWay, IsValid
    <2>2. CASE lpc' \notin {"publish", "enqueue"}
      BY <2>2 DEF OnItsWay
    <2>3. CASE DeliverRaw
      BY <2>3 DEF DeliverRaw, RawOnly, Still, OnItsWay, IsValid
    <2>4. CASE Detach \/ PublishEnd
      BY <2>4 DEF Detach, PublishEnd, OnItsWay, IsValid, EndOfStream
    <2>5. CASE DeviceTaskStep
      <3>1. CASE DropCommand \/ Report \/ Pass("refresh") \/ Pass("queue") \/ NoRefresh
                 \/ NothingQueued \/ Published \/ ReportStatus \/ Attach
        BY <2>2, <3>1 DEF DropCommand, Report, Pass, NoRefresh, NothingQueued, Published, ReportStatus, Attach
      <3>2. CASE StartAcquisition \/ CallReturns \/ StopDevice \/ PauseDevice \/ ResumeDevice
                 \/ ConfigDevice \/ Close \/ Closed
        BY <2>2, <3>2 DEF StartAcquisition, CallReturns, StopDevice, PauseDevice, ResumeDevice,
                 ConfigDevice, Close, Closed
      <3>3. ~PublishBuffer
        BY DEF PublishBuffer, Still
      <3> QED
        BY <2>4, <2>5, <3>1, <3>2, <3>3, Zenon DEF DeviceTaskStep, RefreshStep
    <2>6. CASE EnqueueRaw
      BY <2>2, <2>6 DEF EnqueueRaw
    <2> QED
      BY <2>1, <2>3, <2>5, <2>6
         DEF Next, DeviceThread, DecoderThread, DecoderStarted, User, Start, Stop, Pause, Resume, Switch,
             Ask, UserOnly, Usb, Environment, vars, deviceTaskVars
  <1> QED
    BY <1>1, <1>2, <1>3 DEF Still

(* What a step of the receiver task does to what the others rely on. *)
LEMMA DeviceTaskSteps ==
  ASSUME Typed, DeviceTaskStep
  PROVE  /\ UNCHANGED usb
         /\ bus = <<>> => bus' = <<>> \/ StartDevice \/ ResumeDevice
         /\ driver'.stream = driver.stream \/ StartDevice
         /\ \/ UNCHANGED deviceCommands
            \/ deviceCommands' = Append(deviceCommands, [code |-> "Configure", enabled |-> TRUE])
            \/ deviceCommands # <<>> /\ deviceCommands' = Tail(deviceCommands)
  <1>0. driver \in Driver
    BY DEF Typed, TypeOK, DriverTypeOK
  <1>1. ASSUME NEW status, NEW d, UpdateDeviceStatus(status, d)
        PROVE  \/ UNCHANGED deviceCommands
               \/ deviceCommands' = Append(deviceCommands, [code |-> "Configure", enabled |-> TRUE])
    BY <1>1 DEF UpdateDeviceStatus, LogicDeviceStatusChange
  <1>2. ASSUME NEW code, Handling(code)
        PROVE  deviceCommands # <<>> /\ deviceCommands' = Tail(deviceCommands)
    BY <1>2 DEF Handling
  <1>3. CASE DropCommand \/ Report \/ Pass("refresh") \/ Pass("queue") \/ NoRefresh
             \/ PublishEnd \/ NothingQueued \/ Published
    BY <1>1, <1>2, <1>3 DEF DropCommand, Report, Pass, NoRefresh, PublishEnd, NothingQueued, Published,
                            driverVars
  <1>4. CASE Detach \/ ReportStatus \/ PublishBuffer
    BY <1>1, <1>4 DEF Detach, ReportStatus, Refreshing, PublishBuffer
  <1>5. CASE StartDevice \/ ResumeDevice
    <2>1. ResumeDevice => driver'.stream = driver.stream
      BY <1>0 DEF ResumeDevice, Begin, Driver
    <2> QED
      BY <1>2, <1>5, <2>1 DEF StartDevice, ResumeDevice, Accepted
  <1>6. CASE StopDevice \/ PauseDevice \/ ConfigDevice
    <2>1. Halt \/ UNCHANGED bus
      BY <1>6 DEF StopDevice, PauseDevice, ConfigDevice
    <2>2. bus = <<>> => bus' = <<>>
      BY <2>1, NothingCancelled DEF Halt
    <2> QED
      BY <1>2, <1>6, <2>2 DEF StopDevice, PauseDevice, ConfigDevice, Accepted
  <1>7. CASE Close
    <2>1. Halt \/ UNCHANGED bus
      BY <1>7 DEF Close
    <2>2. bus = <<>> => bus' = <<>>
      BY <2>1, NothingCancelled DEF Halt
    <2>3. driver'.stream = driver.stream
      BY <1>0, <1>7 DEF Close, SetStatus, Driver
    <2> QED
      BY <1>7, <2>2, <2>3 DEF Close
  <1>8. CASE StartAcquisition
    <2>1. driver'.stream = driver.stream
      BY <1>0, <1>8 DEF StartAcquisition, Acquire, Driver
    <2> QED
      BY <1>8, <2>1 DEF StartAcquisition
  <1>9. CASE CallReturns
    <2>1. driver'.stream = driver.stream
      BY <1>0, <1>9 DEF CallReturns, SetStatus, Driver
    <2> QED
      BY <1>9, <2>1 DEF CallReturns
  <1>10. CASE Attach
    <2>1. driver'.stream = driver.stream
      BY <1>10 DEF Attach, Opened
    <2> QED
      BY <1>1, <1>10, <2>1 DEF Attach, Refreshing
  <1>11. CASE Closed
    <2>1. driver'.stream = driver.stream /\ UNCHANGED <<usb, bus>>
      BY <1>0, <1>11 DEF Closed, Driver
    <2> DEFINE closed == [driver EXCEPT !.open = FALSE]
    <2>2. UpdateDeviceStatus("Absent", closed)
      BY <1>11 DEF Closed
    <2> HIDE DEF closed
    <2> QED
      BY <1>1, <2>1, <2>2
  <1> QED
    BY <1>3, <1>4, <1>5, <1>6, <1>7, <1>8, <1>9, <1>10, <1>11, Zenon DEF DeviceTaskStep, RefreshStep

(* The event thread neither begins a stream nor removes the device.          *)
LEMMA EventThreadSteps ==
  ASSUME Typed, EventThread
  PROVE  driver'.stream = driver.stream /\ driver'.attached = driver.attached
  <1>0. driver \in Driver
    BY DEF Typed, TypeOK, DriverTypeOK
  <1>1. ASSUME NEW status, SetStatus(status)
        PROVE  driver'.stream = driver.stream /\ driver'.attached = driver.attached
    BY <1>0, <1>1 DEF SetStatus, Driver
  <1>2. ASSUME NEW status, NEW stream, NEW rest, Deliver(status, stream, rest)
        PROVE  driver'.stream = driver.stream /\ driver'.attached = driver.attached
    BY <1>0, <1>2 DEF Deliver, Driver
  <1>3. ASSUME NEW filled, NEW failed, NEW stream, DataBack(filled, failed, stream)
        PROVE  driver'.stream = driver.stream /\ driver'.attached = driver.attached
    BY <1>1, <1>2, <1>3, Zenon DEF DataBack
  <1>4. ASSUME NEW completed, NEW isHeader, HeaderBack(completed, isHeader)
        PROVE  driver'.stream = driver.stream /\ driver'.attached = driver.attached
    BY <1>1, <1>4 DEF HeaderBack
  <1>5. CASE HeaderDone \/ Handle \/ Resend
    BY <1>0, <1>5 DEF HeaderDone, Handle, Resend, Driver
  <1> QED
    BY <1>3, <1>4, <1>5 DEF EventThread, Complete, CancelBack, FailBack

(* The user asks when nothing else is asked for. *)
LEMMA UserAsks ==
  ASSUME NEW command, Ask(command)
  PROVE  /\ deviceCommands = <<>> /\ decoderCommands = <<>>
         /\ deviceCommands' \in {<<>>, Append(<<>>, command)}
         /\ UNCHANGED <<driverVars, cpc, logicDecoderStatus, decoderCommands, since, lpc, raw>>
  BY DEF Ask, Underway, UserOnly

(* What is asked for stays in order. *)
LEMMA RequestsStep ==
  ASSUME Waits, Typed, Hardware, Requests, [Next]_vars
  PROVE  Requests'
  <1> USE DEF Requests
  <1>0. /\ deviceCommands \in Seq(Command) /\ decoderCommands \in Seq({"Start"})
        /\ driver.stream \in Nat /\ since \in Nat /\ driver \in Driver
    BY DEF Typed, TypeOK, DriverTypeOK, DeviceTaskTypeOK, DecoderTaskTypeOK, Driver
  <1>1. CASE UNCHANGED <<deviceCommands, decoderCommands, cpc, logicDecoderStatus, driver, bus, usb, since>>
    BY <1>1 DEF Open, Asked
  <1>2. ASSUME deviceCommands # <<>>, deviceCommands' = Tail(deviceCommands)
        PROVE  /\ Asked("Start")' => Asked("Start")
               /\ Asked("Resume")' => Asked("Resume")
               /\ Head(deviceCommands).code = "Start" => ~Asked("Start")'
               /\ Head(deviceCommands).code = "Resume" => ~Asked("Resume")'
               /\ OnceIn(deviceCommands', "Start") /\ OnceIn(deviceCommands', "Resume")
    BY <1>0, <1>2, TakingOne DEF Asked
  <1>3. ASSUME deviceCommands' = Append(deviceCommands, [code |-> "Configure", enabled |-> TRUE])
        PROVE  /\ Asked("Start")' => Asked("Start")
               /\ Asked("Resume")' => Asked("Resume")
               /\ OnceIn(deviceCommands', "Start") /\ OnceIn(deviceCommands', "Resume")
    <2>1. [code |-> "Configure", enabled |-> TRUE] \in Command
      BY DEF Command
    <2> QED
      BY <1>0, <1>3, <2>1, AskingOne DEF Asked
  <1>4. CASE DeviceTaskStep /\ UNCHANGED <<decoderTaskVars, since>>
    <2>1. /\ UNCHANGED <<decoderCommands, Open, since>>
      BY <1>4 DEF decoderTaskVars, Open
    <2>2. /\ Asked("Start")' => Asked("Start")
          /\ Asked("Resume")' => Asked("Resume")
          /\ OnceIn(deviceCommands', "Start") /\ OnceIn(deviceCommands', "Resume")
      BY <1>2, <1>3, <1>4, DeviceTaskSteps DEF Asked
    <2>3. CASE StartDevice
      <3>1. Head(deviceCommands).code = "Start" /\ deviceCommands # <<>> /\ deviceCommands' = Tail(deviceCommands)
        BY <2>3 DEF StartDevice, Accepted, Handling
      <3>2. Asked("Start") /\ ~Asked("Start")'
        BY <1>0, <1>2, <3>1, TakingOne DEF Asked
      <3>3. driver'.stream = driver.stream + 1
        BY <1>0, <2>3 DEF StartDevice, Begin, Driver
      <3> QED
        BY <1>0, <2>1, <2>2, <3>2, <3>3
    <2>4. CASE ~StartDevice
      <3>1. driver'.stream = driver.stream /\ UNCHANGED usb
        BY <1>4, <2>4, DeviceTaskSteps
      <3>2. Asked("Resume")' => bus' = <<>>
        <4>1. CASE ResumeDevice
          BY <1>2, <4>1 DEF ResumeDevice, Accepted, Handling
        <4>2. CASE ~ResumeDevice
          BY <1>4, <2>2, <2>4, <4>2, DeviceTaskSteps
        <4> QED
          BY <4>1, <4>2
      <3> QED
        BY <2>1, <2>2, <3>1, <3>2
    <2> QED
      BY <2>3, <2>4
  <1>5. CASE DecoderStarted
    <2>1. /\ decoderCommands # <<>> /\ decoderCommands' = Tail(decoderCommands)
          /\ deviceCommands' = Append(deviceCommands, [code |-> "Start"])
          /\ since' = driver.stream /\ UNCHANGED <<driver, bus, usb>>
      BY <1>5 DEF DecoderStarted, StartDecoder, driverVars
    <2>2. decoderCommands' = <<>>
      BY <1>0, <2>1
    <2>3. [code |-> "Start"] \in Command
      BY DEF Command
    <2>4. ~Asked("Resume")' /\ OnceIn(deviceCommands', "Start") /\ OnceIn(deviceCommands', "Resume")
      BY <1>0, <2>1, <2>3, AskingOne DEF Asked
    <2> QED
      BY <1>0, <2>1, <2>2, <2>4
  <1>6. CASE DecoderTaskStep /\ UNCHANGED <<driverVars, deviceTaskVars, since>>
    <2>1. UNCHANGED decoderCommands /\ (Open' => Open)
      BY <1>6 DEF DecoderTaskStep, DecoderStreaming, DecodeBuffer, FinishDecoding, NothingToDecode, Open
    <2> QED
      BY <1>6, <2>1 DEF driverVars, deviceTaskVars, Asked
  <1>7. CASE Start
    <2>1. /\ ~Open /\ deviceCommands = <<>> /\ decoderCommands = <<>> /\ decoderCommands' = <<"Start">>
          /\ UNCHANGED <<deviceCommands, cpc, logicDecoderStatus, driver, bus, usb, since>>
      <3>1. ~Open /\ deviceCommands = <<>> /\ decoderCommands = <<>>
        BY <1>7 DEF Start, Busy, Underway, Open
      <3>2. decoderCommands' = Append(<<>>, "Start")
        BY <1>7, <3>1 DEF Start
      <3> QED
        BY <1>7, <3>1, <3>2 DEF Start, UserOnly, driverVars
    <2> QED
      BY <2>1 DEF Asked, AskedIn, OnceIn, Open
  <1>8. ASSUME NEW command \in Command, Ask(command), command.code # "Start",
               command.code = "Resume" => bus = <<>> /\ usb.pc = "wait"
        PROVE  Requests'
    <2>1. /\ deviceCommands = <<>> /\ decoderCommands = <<>>
          /\ deviceCommands' \in {<<>>, Append(<<>>, command)}
          /\ UNCHANGED <<driver, bus, usb, cpc, logicDecoderStatus, decoderCommands, since>>
      BY <1>8, UserAsks DEF driverVars
    <2>2. \A code : ~AskedIn(<<>>, code) /\ OnceIn(<<>>, code)
      BY DEF AskedIn, OnceIn
    <2>3. /\ ~AskedIn(deviceCommands', "Start")
          /\ AskedIn(deviceCommands', "Resume") => command.code = "Resume"
          /\ OnceIn(deviceCommands', "Start") /\ OnceIn(deviceCommands', "Resume")
      <3>1. CASE deviceCommands' = <<>>
        BY <2>2, <3>1
      <3>2. CASE deviceCommands' = Append(<<>>, command)
        BY <1>0, <1>8, <2>1, <2>2, <3>2, AskingOne
      <3> QED
        BY <2>1, <3>1, <3>2
    <2> QED
      BY <1>8, <2>1, <2>3 DEF Asked, Open
  <1>9. CASE Stop \/ Pause \/ Switch \/ Resume
    <2>1. /\ \A code \in {"Stop", "Pause", "Resume"} : [code |-> code] \in Command
          /\ [code |-> "Configure", enabled |-> control.shown = "disabled"] \in Command
      BY DEF Command
    <2> QED
      BY <1>8, <1>9, <2>1 DEF Stop, Pause, Resume, Switch, TransfersBack
  <1>10. CASE Usb
    <2>1. UNCHANGED <<deviceCommands, decoderCommands, cpc, logicDecoderStatus, since>>
      BY <1>10 DEF Usb, deviceTaskVars, decoderTaskVars
    <2>2. bus # <<>> \/ usb.pc # "wait"
      BY <1>10 DEF Usb, EventThread, Complete, CancelBack, FailBack, Waiting, HeaderDone, Handle, Resend
    <2>3. driver'.stream = driver.stream
      BY <1>10, EventThreadSteps DEF Usb
    <2> QED
      BY <2>1, <2>2, <2>3 DEF Asked, Open
  <1>11. CASE Environment
    <2>1. UNCHANGED <<deviceCommands, decoderCommands, cpc, logicDecoderStatus, since, bus, usb>>
          /\ driver'.stream = driver.stream
      BY <1>0, <1>11 DEF Environment, Unplug, Plug, deviceTaskVars, decoderTaskVars, Driver
    <2> QED
      BY <2>1 DEF Asked, Open
  <1>12. CASE DeliverRaw \/ EnqueueRaw
    BY <1>1, <1>12 DEF DeliverRaw, EnqueueRaw, RawOnly, driverVars
  <1> QED
    BY <1>1, <1>4, <1>5, <1>6, <1>7, <1>9, <1>10, <1>11, <1>12
       DEF Next, DeviceThread, DecoderThread, User, vars, driverVars, deviceTaskVars, decoderTaskVars

(* Whoever starts a session starts it on a stream that is dead. *)
LEMMA AwaitedStep ==
  ASSUME Waits, Typed, Hardware, Requests, Awaited, Shown, [Next]_vars
  PROVE  Awaited'
  <1>0. /\ deviceCommands \in Seq(Command) /\ decoderCommands \in Seq({"Start"})
        /\ driver \in Driver /\ driver.stream \in Nat /\ since \in Nat /\ bus \in Seq(Transfer)
        /\ lpc \in DevicePc
    BY DEF Typed, TypeOK, DriverTypeOK, DeviceTaskTypeOK, DecoderTaskTypeOK, Driver
  <1>1. CASE StartDevice /\ UNCHANGED <<decoderTaskVars, since>>
    <2>1. /\ Head(deviceCommands).code = "Start" /\ deviceCommands # <<>>
          /\ deviceCommands' = Tail(deviceCommands)
      BY <1>1 DEF StartDevice, Accepted, Handling
    <2>2. Asked("Start") /\ ~Asked("Start")'
      BY <1>0, <2>1, TakingOne DEF Asked, Requests
    <2>3. driver'.stream = driver.stream + 1
      BY <1>0, <1>1 DEF StartDevice, Begin, Driver
    <2>4. decoderCommands' = <<>> /\ since' # driver'.stream
      BY <1>0, <1>1, <2>2, <2>3 DEF Requests, decoderTaskVars
    <2> QED
      BY <2>2, <2>4 DEF Awaited, Phase
  <1>2. CASE Start
    <2>1. /\ ~Busy /\ ~Underway /\ TransfersBack /\ control.shown \notin {"absent", "disabled"}
          /\ UNCHANGED <<driverVars, lpc, raw>>
      BY <1>2 DEF Start, UserOnly
    <2>2. /\ lpc \in Calm /\ lpc \notin {"publish", "enqueue"} /\ ~Asked("Configure")
          /\ bus = <<>> /\ usb.pc = "wait" /\ signalQueue = <<>>
      BY <1>0, <2>1 DEF Underway, TransfersBack, Calm, DevicePc, Asked, AskedIn
    <2>3. driver.attached => driver.status # "PAUSE"
      BY <2>1, <2>2 DEF Shown, Busy
    <2>4. ASSUME driver.attached PROVE driver.status \notin {"START", "DATA"}
      <3>1. fpga.state # "runs"
        <4>1. Len(bus) = 0
          BY <2>2
        <4> QED
          BY <2>2, <4>1 DEF Hardware, Runs, HeaderOwed, Flows, Fresh, Busied, Calm
      <3> QED
        BY <2>2, <2>4, <3>1 DEF Hardware, RunsNot, Calm
    <2>5. Still
      BY <1>0, <2>2, <2>3, <2>4 DEF Still, Dead, OnItsWay, Driver, DeviceStatus, Calm
    <2> QED
      BY <2>1, <2>5 DEF Awaited, Still, Dead, OnItsWay, driverVars
  <1>3. CASE ~StartDevice /\ ~Start
    <2>1. Phase' => Phase
      <3>1. CASE UNCHANGED <<deviceCommands, decoderCommands, cpc, logicDecoderStatus, driver, since>>
        BY <3>1 DEF Phase, Asked, Open
      <3>2. CASE DeviceTaskStep /\ UNCHANGED <<decoderTaskVars, since>>
        <4>1. Asked("Start")' => Asked("Start")
          <5>1. [code |-> "Configure", enabled |-> TRUE] \in Command
            BY DEF Command
          <5>2. deviceCommands' = Append(deviceCommands, [code |-> "Configure", enabled |-> TRUE])
                  => (AskedIn(deviceCommands', "Start") => AskedIn(deviceCommands, "Start"))
            BY <1>0, <5>1, AskingOne
          <5>3. deviceCommands # <<>> /\ deviceCommands' = Tail(deviceCommands)
                  => (AskedIn(deviceCommands', "Start") => AskedIn(deviceCommands, "Start"))
            BY <1>0, TakingOne
          <5> QED
            BY <3>2, <5>2, <5>3, DeviceTaskSteps DEF Asked
        <4>2. driver'.stream = driver.stream
          BY <1>3, <3>2, DeviceTaskSteps
        <4> QED
          BY <3>2, <4>1, <4>2 DEF Phase, Open, decoderTaskVars
      <3>3. CASE DecoderStarted
        BY <3>3 DEF DecoderStarted, StartDecoder, Phase
      <3>4. CASE DecoderTaskStep /\ UNCHANGED <<driverVars, deviceTaskVars, since>>
        <4>1. UNCHANGED decoderCommands /\ (Open' => Open)
          BY <3>4 DEF DecoderTaskStep, DecoderStreaming, DecodeBuffer, FinishDecoding, NothingToDecode, Open
        <4> QED
          BY <3>4, <4>1 DEF Phase, Asked, driverVars, deviceTaskVars
      <3>5. ASSUME NEW command \in Command, Ask(command), command.code # "Start"
            PROVE  Phase' => Phase
        <4>1. /\ UNCHANGED <<driver, cpc, logicDecoderStatus, decoderCommands, since>>
              /\ deviceCommands = <<>> /\ deviceCommands' \in {<<>>, Append(<<>>, command)}
          BY <3>5, UserAsks DEF driverVars
        <4>2. ~AskedIn(<<>>, "Start")
          BY DEF AskedIn
        <4>3. ~AskedIn(Append(<<>>, command), "Start")
          BY <3>5, <4>2, <1>0, <4>1, AskingOne
        <4> QED
          BY <4>1, <4>2, <4>3 DEF Phase, Open, Asked
      <3>6. CASE Stop \/ Pause \/ Switch \/ Resume
        <4>1. /\ \A code \in {"Stop", "Pause", "Resume"} : [code |-> code] \in Command
              /\ [code |-> "Configure", enabled |-> control.shown = "disabled"] \in Command
          BY DEF Command
        <4> QED
          BY <3>5, <3>6, <4>1 DEF Stop, Pause, Resume, Switch
      <3>7. CASE Usb \/ Environment
        <4>1. driver'.stream = driver.stream
          BY <1>0, <3>7, EventThreadSteps DEF Usb, Environment, Unplug, Plug, Driver
        <4> QED
          BY <3>7, <4>1 DEF Usb, Environment, Phase, Open, Asked, deviceTaskVars, decoderTaskVars
      <3>8. CASE DeliverRaw \/ EnqueueRaw
        BY <3>1, <3>8 DEF DeliverRaw, EnqueueRaw, RawOnly, driverVars
      <3> QED
        BY <1>3, <3>1, <3>2, <3>3, <3>4, <3>6, <3>7, <3>8
           DEF Next, DeviceThread, DecoderThread, User, vars, driverVars, deviceTaskVars, decoderTaskVars
    <2> QED
      BY <1>3, <2>1, StillStays DEF Awaited
  <1>4. StartDevice => UNCHANGED <<decoderTaskVars, since>>
    <2> SUFFICES ASSUME StartDevice PROVE UNCHANGED <<decoderTaskVars, since>>
      OBVIOUS
    <2>1. lpc = "command" /\ lpc' # lpc
      BY DEF StartDevice, Accepted, Handling
    <2> QED
      BY <2>1 DEF Next, DeviceThread, DecoderThread, DecoderStarted, User, Usb, Environment,
         DeliverRaw, EnqueueRaw, Start, Stop, Pause, Resume, Switch, Ask, UserOnly, vars, deviceTaskVars
  <1> QED
    BY <1>1, <1>2, <1>3, <1>4

(* A paused device shows as paused. *)
LEMMA ShownStep ==
  ASSUME Typed, Shown, [Next]_vars
  PROVE  Shown'
  <1>0. /\ driver \in Driver /\ deviceCommands \in Seq(Command) /\ lpc \in DevicePc
        /\ control \in [named : BOOLEAN, shown : Words]
    BY DEF Typed, TypeOK, DriverTypeOK, DeviceTaskTypeOK
  <1> DEFINE Tells == control.shown \in {"paused", "disabled", "absent"} \/ Asked("Configure")
             Paused == driver.attached /\ driver.status = "PAUSE"
  <1>1. ASSUME lpc \in Calm, Paused' => Paused, Tells => Tells' PROVE Shown'
    BY <1>1 DEF Shown
  <1>2. CASE UNCHANGED <<lpc, driver, control, deviceCommands>>
    BY <1>2 DEF Shown, Asked
  <1>3. CASE lpc' \notin Calm
    BY <1>3 DEF Shown
  <1>4. ASSUME NEW status, NEW d, UpdateDeviceStatus(status, d), d.status = "PAUSE" PROVE Tells'
    <2>1. CASE control.named # d.open
      <3>1. deviceCommands' = Append(deviceCommands, [code |-> "Configure", enabled |-> TRUE])
        BY <1>4, <2>1 DEF UpdateDeviceStatus, LogicDeviceStatusChange
      <3>2. [code |-> "Configure", enabled |-> TRUE] \in Command
        BY DEF Command
      <3>3. AskedIn(deviceCommands', "Configure")
        BY <1>0, <3>1, <3>2, AskingOne
      <3> QED
        BY <3>3 DEF Asked
    <2>2. CASE control.named = d.open
      <3>1. control' = [control EXCEPT !.shown = WordOf(logicReceiverEnabled, d, status)]
        BY <1>4, <2>2 DEF UpdateDeviceStatus, LogicDeviceStatusChange
      <3>2. WordOf(logicReceiverEnabled, d, status) \in {"paused", "disabled", "absent"}
        BY <1>4 DEF WordOf
      <3> QED
        BY <1>0, <3>1, <3>2
    <2> QED
      BY <2>1, <2>2
  <1>5. ASSUME NEW command \in Command, deviceCommands' \in {deviceCommands, Append(deviceCommands, command)},
               UNCHANGED <<lpc, driver, control>>
        PROVE  Shown'
    <2>1. AskedIn(deviceCommands, "Configure") => AskedIn(Append(deviceCommands, command), "Configure")
      BY <1>0, AskingOne
    <2>2. Asked("Configure") => Asked("Configure")'
      BY <1>5, <2>1 DEF Asked
    <2> QED
      BY <1>5, <2>2 DEF Shown
  <1>6. CASE DropCommand
    <2>1. /\ lpc = "command" /\ deviceCommands # <<>> /\ deviceCommands' = Tail(deviceCommands)
          /\ Head(deviceCommands).code # "Configure" /\ UNCHANGED <<driver, control>>
      BY <1>6 DEF DropCommand, Handling, driverVars
    <2>2. Asked("Configure") => Asked("Configure")'
      BY <1>0, <2>1, TakingOne DEF Asked
    <2> QED
      BY <2>1, <2>2 DEF Shown, Calm
  <1>7. CASE StartDevice \/ StartAcquisition \/ CallReturns \/ StopDevice \/ PauseDevice \/ ResumeDevice
             \/ ConfigDevice \/ Close
    BY <1>3, <1>7 DEF StartDevice, StartAcquisition, CallReturns, StopDevice, PauseDevice, ResumeDevice,
                      ConfigDevice, Close, Calm
  <1>8. CASE Report \/ ReportStatus
    BY <1>4, <1>8 DEF Report, ReportStatus, Shown, driverVars
  <1>9. CASE Attach
    BY <1>9 DEF Attach, Opened, Shown
  <1>10. CASE Closed
    <2> DEFINE closed == [driver EXCEPT !.open = FALSE]
    <2>1. closed.status = driver.status
      BY <1>0 DEF Driver
    <2>2. UpdateDeviceStatus("Absent", closed) /\ driver' = closed
      BY <1>10 DEF Closed
    <2> HIDE DEF closed
    <2> QED
      BY <1>4, <2>1, <2>2 DEF Shown
  <1>11. CASE Pass("refresh") \/ Pass("queue") \/ NoRefresh \/ Detach \/ PublishBuffer \/ PublishEnd
              \/ NothingQueued \/ DeliverRaw \/ EnqueueRaw
    BY <1>11 DEF Pass, NoRefresh, Detach, Refreshing, PublishBuffer, PublishEnd, NothingQueued,
                 DeliverRaw, EnqueueRaw, RawOnly, driverVars, Shown, Calm, Asked
  <1>12. CASE Published
    <2>1. lpc = "published" /\ UNCHANGED driver
      BY <1>12 DEF Published, driverVars
    <2>2. CASE UNCHANGED <<logicReceiverStatus, deviceCommands, control>>
      BY <2>1, <2>2 DEF Shown, Calm, Asked
    <2>3. CASE UpdateDeviceStatus("Idle", driver)
      BY <1>4, <2>1, <2>3 DEF Shown
    <2> QED
      BY <1>12, <2>2, <2>3 DEF Published
  <1>13. CASE DecoderStarted
    <2>1. [code |-> "Start"] \in Command
      BY DEF Command
    <2> QED
      BY <1>5, <1>13, <2>1 DEF DecoderStarted, driverVars
  <1>14. ASSUME NEW command \in Command, Ask(command) PROVE Shown'
    BY <1>5, <1>14 DEF Ask, UserOnly, driverVars
  <1>15. CASE User
    <2>1. /\ \A code \in {"Stop", "Pause", "Resume"} : [code |-> code] \in Command
          /\ [code |-> "Configure", enabled |-> control.shown = "disabled"] \in Command
      BY DEF Command
    <2>2. CASE Start
      BY <1>2, <2>2 DEF Start, UserOnly, driverVars
    <2> QED
      BY <1>14, <1>15, <2>1, <2>2 DEF User, Stop, Pause, Resume, Switch
  <1>16. CASE Usb
    <2>1. UNCHANGED <<lpc, control, deviceCommands>>
      BY <1>16 DEF Usb, deviceTaskVars
    <2>2. Paused' => Paused
      <3>1. ASSUME NEW status, SetStatus(status), status \in {"ERROR", "DATA", driver.status} 
            PROVE  Paused' => Paused
        BY <1>0, <3>1 DEF SetStatus, Driver
      <3>2. ASSUME NEW status, NEW stream, NEW rest, Deliver(status, stream, rest), status = "DATA"
            PROVE  Paused' => Paused
        BY <1>0, <3>2 DEF Deliver, Driver
      <3>3. ASSUME NEW filled, NEW failed, NEW stream, DataBack(filled, failed, stream)
            PROVE  Paused' => Paused
        <4> DEFINE status == IF failed THEN "ERROR"
                             ELSE IF driver.status = "START" THEN "DATA" ELSE driver.status
        <4>1. status \in {"ERROR", "DATA", driver.status}
          OBVIOUS
        <4>2. SetStatus(status) \/ (status = "DATA" /\ \E rest \in Rests : Deliver(status, stream, rest))
          BY <3>3 DEF DataBack
        <4> HIDE DEF status
        <4> QED
          BY <3>1, <3>2, <4>1, <4>2, Zenon
      <3>4. ASSUME NEW completed, NEW isHeader, HeaderBack(completed, isHeader) PROVE Paused' => Paused
        BY <3>1, <3>4 DEF HeaderBack
      <3>5. CASE HeaderDone
        BY <1>0, <3>5 DEF HeaderDone, Driver
      <3>6. CASE Handle \/ Resend
        BY <3>6 DEF Handle, Resend
      <3> QED
        BY <1>16, <3>3, <3>4, <3>5, <3>6 DEF Usb, EventThread, Complete, CancelBack, FailBack
    <2> QED
      BY <2>1, <2>2 DEF Shown, Asked
  <1>17. CASE Environment
    <2>1. UNCHANGED <<lpc, control, deviceCommands>> /\ (Paused' => Paused)
      BY <1>0, <1>17 DEF Environment, Unplug, Plug, deviceTaskVars, Driver
    <2> QED
      BY <2>1 DEF Shown, Asked
  <1>18. CASE DeviceThread
    BY <1>6, <1>7, <1>8, <1>9, <1>10, <1>11, <1>12, <1>18, Zenon DEF DeviceThread, DeviceTaskStep, RefreshStep
  <1> QED
    BY <1>2, <1>13, <1>15, <1>16, <1>17, <1>18
       DEF Next, DecoderThread, vars, driverVars, deviceTaskVars

(* the inductive invariant *)
Inv == Typed /\ Hardware /\ Requests /\ Awaited /\ Shown

(* It holds in every behaviour. *)
LEMMA Invariance ==
  ASSUME Waits, Transfers > 1
  PROVE  Spec => []Inv
  <1>1. Init => Inv
    <2> SUFFICES ASSUME Init PROVE Inv
      OBVIOUS
    <2>1. /\ driver = Opened(0) /\ fpga.state = "off" /\ bus = <<>> /\ usb.pc = "wait"
          /\ lpc = "command" /\ deviceCommands = <<>> /\ decoderCommands = <<>>
          /\ logicDecoderStatus = "Idle" /\ cpc = "command" /\ since = 0
      BY DEF Init, DriverInit, DeviceTaskInit, DecoderTaskInit
    <2>2. \A code : ~Asked(code) /\ OnceIn(deviceCommands, code)
      BY <2>1 DEF Asked, AskedIn, OnceIn
    <2>3. driver.open /\ driver.status = "READY" /\ driver.stream = 0
      BY <2>1 DEF Opened
    <2>4. Hardware
      BY <2>1, <2>3 DEF Hardware, Armed, Runs, RunsNot
    <2>5. Requests /\ Awaited /\ Shown
      BY <2>1, <2>2, <2>3 DEF Requests, Awaited, Phase, Open, Shown
    <2> QED
      BY <2>4, <2>5, InitTyped DEF Inv
  <1>2. Inv /\ [Next]_vars => Inv'
    <2> SUFFICES ASSUME Inv, [Next]_vars PROVE Inv'
      OBVIOUS
    <2>1. Ready
      BY DEF Inv, Ready, Requests, Awaited, Phase, Still, Dead
    <2> QED
      BY <2>1, TypedStays, HardwareStep, RequestsStep, AwaitedStep, ShownStep DEF Inv
  <1> QED
    BY <1>1, <1>2, PTL DEF Spec

(* usbProcessHeader, which sets the error before it looks at the header,     *)
(* always finds the header in the transfer made for it: when its callback    *)
(* has returned, an analyser that runs and is there is not in error,         *)
(* whatever was paused, resumed or cancelled before.  What the task does     *)
(* while the callback runs is not spoken of: it may take the analyser for a  *)
(* disconnected one.                                                         *)
THEOREM HeaderErrorsPass ==
  ASSUME Waits, Transfers > 1
  PROVE  Spec => []HeaderErrorPasses
  <1>1. Inv => HeaderErrorPasses
    BY DEF Inv, Hardware, Runs, HeaderOwed, Flows, HeaderErrorPasses
  <1> QED
    BY <1>1, Invariance, PTL

-----------------------------------------------------------------------------
(***************************************************************************)
(* What the window shows.  A status that brings another name is not shown: *)
(* QtControl sends the configuration first, and the report that follows it *)
(* is.  A command is reported when it is done, so that in between the      *)
(* status is a step behind; the event thread only ever sets an error or    *)
(* takes it back, which is not a state the device rests in.                *)
(***************************************************************************)

(* where a command is being carried out and its report has yet to come *)
Midway == {"acquire", "acquired", "stopping", "pausing", "report"}

ShowsSwitch == control.shown = "disabled" <=> ~logicReceiverEnabled

(* states in which an analyser that answers does not stream *)
Resting == {"READY", "STOP", "PAUSE"}

ShowsDevice ==
  logicReceiverEnabled /\ ~Asked("Configure") =>
    /\ control.shown = "absent" <=> ~driver.open
    /\ driver.open /\ driver.attached /\ driver.status \in Resting =>
         /\ control.shown = "paused" <=> IsPaused
         /\ control.shown # "streaming"

Told ==
  /\ control.named = driver.open
  /\ lpc \notin Midway => ShowsSwitch
  /\ lpc \in Calm => ShowsDevice
  /\ driver.status = "INIT" /\ driver.attached => lpc \in {"acquire", "acquired"}

(* A status that is published is shown, unless it asks for a configuration.  *)
LEMMA StatusIsTold ==
  ASSUME TypeOK, NEW status, NEW d \in Driver, UpdateDeviceStatus(status, d), driver' = d,
         UNCHANGED logicReceiverEnabled, control.named = d.open \/ ShowsSwitch
  PROVE  control'.named = d.open /\ ShowsSwitch' /\ ShowsDevice'
  <1>0. /\ control \in [named : BOOLEAN, shown : Words] /\ deviceCommands \in Seq(Command)
        /\ logicReceiverEnabled \in BOOLEAN /\ d.open \in BOOLEAN
    BY DEF TypeOK, DeviceTaskTypeOK, Driver
  <1>1. CASE control.named # d.open
    <2>1. /\ control' = [control EXCEPT !.named = d.open]
          /\ deviceCommands' = Append(deviceCommands, [code |-> "Configure", enabled |-> TRUE])
      BY <1>1 DEF UpdateDeviceStatus, LogicDeviceStatusChange
    <2>2. [code |-> "Configure", enabled |-> TRUE] \in Command
      BY DEF Command
    <2>3. AskedIn(deviceCommands', "Configure")
      BY <1>0, <2>1, <2>2, AskingOne
    <2>4. control'.named = d.open /\ control'.shown = control.shown
      BY <1>0, <2>1
    <2> QED
      BY <1>1, <2>3, <2>4 DEF ShowsSwitch, ShowsDevice, Asked
  <1>2. CASE control.named = d.open
    <2>1. control' = [control EXCEPT !.shown = WordOf(logicReceiverEnabled, d, status)]
      BY <1>2 DEF UpdateDeviceStatus, LogicDeviceStatusChange
    <2>2. control'.named = d.open /\ control'.shown = WordOf(logicReceiverEnabled, d, status)
      BY <1>0, <1>2, <2>1
    <2>3. ShowsSwitch'
      BY <2>2 DEF ShowsSwitch, WordOf
    <2>4. ShowsDevice'
      BY <2>2 DEF ShowsDevice, WordOf, IsPaused, Resting
    <2> QED
      BY <2>2, <2>3, <2>4
  <1> QED
    BY <1>1, <1>2

(* The event thread leaves the state of the driver alone, or sets an error   *)
(* or data: what QtControl was told is still so where it matters.            *)
LEMMA EventThreadTells ==
  ASSUME TypeOK, EventThread
  PROVE  /\ driver'.open = driver.open /\ driver'.attached = driver.attached
         /\ driver'.status \in {"ERROR", "DATA", driver.status}
  <1> DEFINE Same == /\ driver'.open = driver.open /\ driver'.attached = driver.attached
                     /\ driver'.status \in {"ERROR", "DATA", driver.status}
  <1>0. driver \in Driver
    BY DEF TypeOK, DriverTypeOK
  <1>1. ASSUME NEW status, SetStatus(status), status \in {"ERROR", "DATA", driver.status}
        PROVE  Same
    BY <1>0, <1>1 DEF SetStatus, Driver
  <1>2. ASSUME NEW status, NEW stream, NEW rest, Deliver(status, stream, rest), status = "DATA"
        PROVE  Same
    BY <1>0, <1>2 DEF Deliver, Driver
  <1>3. ASSUME NEW filled, NEW failed, NEW stream, DataBack(filled, failed, stream)
        PROVE  Same
    <2> DEFINE status == IF failed THEN "ERROR"
                         ELSE IF driver.status = "START" THEN "DATA" ELSE driver.status
    <2>1. status \in {"ERROR", "DATA", driver.status}
      OBVIOUS
    <2>2. SetStatus(status) \/ (status = "DATA" /\ \E rest \in Rests : Deliver(status, stream, rest))
      BY <1>3 DEF DataBack
    <2> HIDE DEF status, Same
    <2> QED
      BY <1>1, <1>2, <2>1, <2>2, Zenon
  <1>4. ASSUME NEW completed, NEW isHeader, HeaderBack(completed, isHeader) PROVE Same
    BY <1>1, <1>4 DEF HeaderBack
  <1>5. CASE HeaderDone
    BY <1>0, <1>5 DEF HeaderDone, Driver
  <1>6. CASE Handle \/ Resend
    BY <1>6 DEF Handle, Resend
  <1> QED
    BY <1>3, <1>4, <1>5, <1>6 DEF EventThread, Complete, CancelBack, FailBack

(* What the window shows stays true. *)
LEMMA ToldStep ==
  ASSUME TypeOK, Told, [Next]_vars
  PROVE  Told'
  <1>0. /\ driver \in Driver /\ deviceCommands \in Seq(Command) /\ lpc \in DevicePc
        /\ control \in [named : BOOLEAN, shown : Words]
    BY DEF TypeOK, DriverTypeOK, DeviceTaskTypeOK
  <1>1. ASSUME Asked("Configure") => Asked("Configure")', UNCHANGED <<control, logicReceiverEnabled>>,
               lpc' \in Midway => lpc = lpc', lpc \in Midway => lpc = lpc', lpc' \in Calm => lpc \in Calm,
               driver'.open = driver.open, driver'.attached => driver.attached,
               driver'.status \in {"ERROR", "DATA", driver.status}
        PROVE  Told'
    <2>1. ShowsSwitch => ShowsSwitch'
      BY <1>1 DEF ShowsSwitch
    <2>2. ShowsDevice => ShowsDevice'
      BY <1>1 DEF ShowsDevice, IsPaused, Resting
    <2>3. control'.named = driver'.open
      BY <1>1 DEF Told
    <2>4. driver'.status = "INIT" /\ driver'.attached => lpc' \in {"acquire", "acquired"}
      BY <1>1 DEF Told, Midway
    <2> QED
      BY <1>1, <2>1, <2>2, <2>3, <2>4 DEF Told
  <1>2. ASSUME Asked("Configure") => Asked("Configure")',
               UNCHANGED <<lpc, driver, control, logicReceiverEnabled>>
        PROVE  Told'
    BY <1>1, <1>2
  <1>3. CASE UNCHANGED <<lpc, driver, control, logicReceiverEnabled, deviceCommands>>
    BY <1>2, <1>3 DEF Asked
  <1>4. ASSUME NEW command \in Command, deviceCommands' \in {deviceCommands, Append(deviceCommands, command)},
               UNCHANGED <<lpc, driver, control, logicReceiverEnabled>>
        PROVE  Told'
    <2>1. AskedIn(deviceCommands, "Configure") => AskedIn(Append(deviceCommands, command), "Configure")
      BY <1>0, AskingOne
    <2> QED
      BY <1>2, <1>4, <2>1 DEF Asked
  <1>5. CASE DropCommand
    <2>1. /\ lpc = "command" /\ deviceCommands # <<>> /\ deviceCommands' = Tail(deviceCommands)
          /\ Head(deviceCommands).code # "Configure"
          /\ lpc' = "refresh" /\ UNCHANGED <<driver, control, logicReceiverEnabled>>
      BY <1>5 DEF DropCommand, Handling, driverVars
    <2>2. Asked("Configure") => Asked("Configure")'
      BY <1>0, <2>1, TakingOne DEF Asked
    <2> QED
      BY <1>1, <2>1, <2>2 DEF Midway, Calm
  <1>6. ASSUME lpc' \in Midway, driver'.open = driver.open, UNCHANGED control,
               driver'.status = "INIT" /\ driver'.attached => lpc' \in {"acquire", "acquired"}
        PROVE  Told'
    BY <1>6 DEF Told, Midway, Calm
  <1>7. CASE StartDevice
    <2>1. /\ driver'.open = driver.open /\ driver'.attached = driver.attached /\ UNCHANGED control
          /\ lpc' = IF driver.attached THEN "acquire" ELSE "report"
      BY <1>0, <1>7 DEF StartDevice, Accepted, Begin, Driver
    <2> QED
      BY <1>6, <2>1 DEF Midway
  <1>8. CASE StartAcquisition
    <2>1. /\ driver'.open = driver.open /\ driver'.attached = driver.attached /\ UNCHANGED control
          /\ lpc' = IF driver.attached THEN "acquired" ELSE "report"
      BY <1>0, <1>8 DEF StartAcquisition, Acquire, Driver
    <2> QED
      BY <1>6, <2>1 DEF Midway
  <1>9. CASE CallReturns
    <2>1. /\ driver'.open = driver.open /\ UNCHANGED control
          /\ driver'.status \in {"START", "STOP", "PAUSE"} /\ lpc' = "report"
      BY <1>0, <1>9 DEF CallReturns, SetStatus, Driver
    <2> QED
      BY <1>6, <2>1 DEF Midway
  <1>10. CASE StopDevice \/ PauseDevice \/ ConfigDevice
    <2>1. /\ lpc = "command" /\ UNCHANGED <<driver, control>>
          /\ lpc' \in {"report", "stopping", "pausing"}
      BY <1>10 DEF StopDevice, PauseDevice, ConfigDevice, Accepted, Handling
    <2>2. driver.status # "INIT" \/ ~driver.attached
      BY <2>1 DEF Told
    <2> QED
      BY <1>6, <2>1, <2>2 DEF Midway
  <1>11. CASE ResumeDevice
    <2>1. /\ driver'.open = driver.open /\ driver'.status = driver.status /\ lpc = "command"
          /\ driver'.attached = driver.attached
          /\ UNCHANGED control /\ lpc' \in {"acquire", "report"}
      BY <1>0, <1>11 DEF ResumeDevice, Accepted, Handling, Begin, Driver
    <2>2. driver.status # "INIT" \/ ~driver.attached
      BY <2>1 DEF Told
    <2> QED
      BY <1>6, <2>1, <2>2 DEF Midway
  <1>12. CASE Report \/ ReportStatus
    <2>1. /\ lpc \in {"report", "refresh"} /\ lpc' \in {"refresh", "queue"}
          /\ UpdateDeviceStatus(logicReceiverStatus, driver) /\ UNCHANGED <<driver, logicReceiverEnabled>>
      BY <1>12 DEF Report, ReportStatus, Refreshing, driverVars
    <2>2. control.named = driver.open /\ (driver.status # "INIT" \/ ~driver.attached)
      BY <2>1 DEF Told
    <2>3. control'.named = driver.open /\ ShowsSwitch' /\ ShowsDevice'
      BY <1>0, <2>1, <2>2, StatusIsTold
    <2> QED
      BY <2>1, <2>2, <2>3 DEF Told
  <1>13. CASE Attach
    <2>1. /\ lpc = "refresh" /\ lpc' = "queue" /\ driver' = Opened(driver.stream)
          /\ UpdateDeviceStatus("Idle", Opened(driver.stream)) /\ UNCHANGED logicReceiverEnabled
      BY <1>13 DEF Attach, Refreshing
    <2>2. Opened(driver.stream) \in Driver /\ Opened(driver.stream).status = "READY"
      BY <1>0 DEF Opened, Driver, DeviceStatus
    <2>3. ShowsSwitch
      BY <2>1 DEF Told, Midway
    <2>4. control'.named = driver'.open /\ ShowsSwitch' /\ ShowsDevice'
      BY <2>1, <2>2, <2>3, StatusIsTold
    <2> QED
      BY <2>1, <2>2, <2>4 DEF Told
  <1>14. CASE Closed
    <2> DEFINE closed == [driver EXCEPT !.open = FALSE]
    <2>1. closed \in Driver /\ closed.status = driver.status /\ closed.attached = driver.attached
      BY <1>0 DEF Driver
    <2>2. /\ UpdateDeviceStatus("Absent", closed) /\ driver' = closed
          /\ lpc = "closing" /\ lpc' = "queue" /\ UNCHANGED logicReceiverEnabled
      BY <1>14 DEF Closed
    <2> HIDE DEF closed
    <2>3. ShowsSwitch /\ (driver.status # "INIT" \/ ~driver.attached)
      BY <2>2 DEF Told, Midway
    <2>4. control'.named = closed.open /\ ShowsSwitch' /\ ShowsDevice'
      BY <2>1, <2>2, <2>3, StatusIsTold
    <2> QED
      BY <2>1, <2>2, <2>3, <2>4 DEF Told
  <1>15. CASE Pass("refresh") \/ Pass("queue") \/ NoRefresh \/ Detach \/ PublishBuffer \/ PublishEnd
              \/ NothingQueued \/ DeliverRaw \/ EnqueueRaw
    <2>1. /\ lpc \in Calm /\ lpc' \in Calm
          /\ UNCHANGED <<driver, control, logicReceiverEnabled, deviceCommands>>
      BY <1>15 DEF Pass, NoRefresh, Detach, Refreshing, PublishBuffer, PublishEnd, NothingQueued,
                   DeliverRaw, EnqueueRaw, RawOnly, driverVars, Calm
    <2> QED
      BY <1>1, <2>1 DEF Asked, Calm, Midway
  <1>16. CASE Close
    <2>1. lpc = "close" /\ lpc' = "closing" /\ UNCHANGED <<control, logicReceiverEnabled>>
      BY <1>16 DEF Close
    <2>2. driver'.open = driver.open /\ (driver'.status = "STOP" \/ driver' = driver)
      BY <1>0, <1>16 DEF Close, SetStatus, Driver
    <2> QED
      BY <2>1, <2>2 DEF Told, Midway, Calm, ShowsSwitch
  <1>17. CASE Published
    <2>1. /\ lpc = "published" /\ lpc' \in {"command", "close"}
          /\ UNCHANGED <<driver, logicReceiverEnabled>>
      BY <1>17 DEF Published, driverVars
    <2>2. CASE UNCHANGED <<logicReceiverStatus, deviceCommands, control>>
      BY <1>1, <2>1, <2>2 DEF Asked, Midway, Calm
    <2>3. CASE UpdateDeviceStatus("Idle", driver)
      <3>1. control.named = driver.open /\ (driver.status # "INIT" \/ ~driver.attached)
        BY <2>1 DEF Told
      <3>2. control'.named = driver.open /\ ShowsSwitch' /\ ShowsDevice'
        BY <1>0, <2>1, <2>3, <3>1, StatusIsTold
      <3> QED
        BY <2>1, <3>1, <3>2 DEF Told
    <2> QED
      BY <1>17, <2>2, <2>3 DEF Published
  <1>18. CASE DecoderStarted
    <2>1. [code |-> "Start"] \in Command
      BY DEF Command
    <2> QED
      BY <1>4, <1>18, <2>1 DEF DecoderStarted, driverVars
  <1>19. ASSUME NEW command \in Command, Ask(command) PROVE Told'
    BY <1>4, <1>19 DEF Ask, UserOnly, driverVars
  <1>20. CASE User
    <2>1. /\ \A code \in {"Stop", "Pause", "Resume"} : [code |-> code] \in Command
          /\ [code |-> "Configure", enabled |-> control.shown = "disabled"] \in Command
      BY DEF Command
    <2>2. CASE Start
      BY <1>3, <2>2 DEF Start, UserOnly, driverVars
    <2> QED
      BY <1>19, <1>20, <2>1, <2>2 DEF User, Stop, Pause, Resume, Switch
  <1>21. CASE Usb
    <2>1. UNCHANGED <<lpc, control, logicReceiverEnabled, deviceCommands>>
      BY <1>21 DEF Usb, deviceTaskVars
    <2>2. /\ driver'.open = driver.open /\ driver'.attached = driver.attached
          /\ driver'.status \in {"ERROR", "DATA", driver.status}
      BY <1>21, EventThreadTells DEF Usb
    <2> QED
      BY <1>1, <2>1, <2>2 DEF Asked
  <1>22. CASE Environment
    <2>1. UNCHANGED <<lpc, control, logicReceiverEnabled, deviceCommands>>
      BY <1>22 DEF Environment, deviceTaskVars
    <2>2. /\ driver'.open = driver.open /\ (driver'.attached => driver.attached)
          /\ driver'.status = driver.status
      BY <1>0, <1>22 DEF Environment, Unplug, Plug, Driver
    <2> QED
      BY <1>1, <2>1, <2>2 DEF Asked
  <1>23. CASE DeviceThread
    BY <1>5, <1>7, <1>8, <1>9, <1>10, <1>11, <1>12, <1>13, <1>14, <1>15, <1>16, <1>17, <1>23, Zenon
       DEF DeviceThread, DeviceTaskStep, RefreshStep
  <1> QED
    BY <1>3, <1>18, <1>20, <1>21, <1>22, <1>23
       DEF Next, DecoderThread, vars, driverVars, deviceTaskVars

(* Whatever the user does and whenever the analyser is removed or comes      *)
(* back, updateDeviceStatus and QtControl::logicDeviceStatusChange leave the *)
(* window with the truth: once nothing is on its way and no stream runs, the *)
(* name is the device's, and absent, disabled and paused show exactly when   *)
(* they are so.                                                              *)
THEOREM TruthShown == Spec => []WindowTellsTruth
  <1>1. Init => Told
    <2> SUFFICES ASSUME Init PROVE Told
      OBVIOUS
    <2>1. /\ driver = Opened(0) /\ lpc = "command" /\ logicReceiverEnabled = TRUE
          /\ control = [named |-> TRUE, shown |-> "idle"]
      BY DEF Init, DriverInit, DeviceTaskInit
    <2>2. driver.open /\ driver.status = "READY"
      BY <2>1 DEF Opened
    <2>3. control.named = TRUE /\ control.shown = "idle"
      BY <2>1
    <2> QED
      BY <2>1, <2>2, <2>3 DEF Opened, Told, ShowsSwitch, ShowsDevice, IsPaused, Midway
  <1>2. TypeOK /\ Told /\ [Next]_vars => Told'
    BY ToldStep
  <1>3. TypeOK /\ Told => WindowTellsTruth
    <2> SUFFICES ASSUME TypeOK, Told, Quiet, ~IsStreaming PROVE WindowTellsTruth
      BY DEF WindowTellsTruth
    <2>1. /\ lpc = "command" /\ ~Asked("Configure") /\ (driver.open => IsReady)
      BY DEF Quiet, Asked, AskedIn
    <2>2. ShowsSwitch /\ ShowsDevice /\ control.named = driver.open
      BY <2>1 DEF Told, Midway, Calm
    <2>3. driver.open => driver.attached /\ driver.status \in Resting
      <3>1. driver.status \in DeviceStatus
        BY DEF TypeOK, DriverTypeOK, Driver
      <3>2. driver.open => driver.attached /\ driver.status \notin {"ERROR", "START", "DATA", "INIT"}
        BY <2>1 DEF Told, IsReady, IsStreaming
      <3> QED
        BY <3>1, <3>2 DEF DeviceStatus, Resting
    <2> QED
      BY <2>1, <2>2, <2>3 DEF WindowTellsTruth, ShowsSwitch, ShowsDevice
  <1> QED
    BY <1>1, <1>2, <1>3, TypeCorrect, PTL DEF Spec

-----------------------------------------------------------------------------
(* The logic decoder keeps the promise of CaptureSession, under the same two *)
(* conditions.  The samples are followed from the driver through the event   *)
(* thread, signalQueue, the subject and the queue of the decoder (Order):    *)
(* each of these holds samples of one stream in order, and what comes next   *)
(* out of one follows what is last in the next.                              *)

(* samples of the stream that follow the last may still come *)
Linked == ~Dead \/ driver.partial

(* the offset of the samples the driver delivers next *)
NextOffset == IF driver.partial THEN driver.samples - 1 ELSE driver.samples
NextSamples == [stream |-> driver.stream, offset |-> NextOffset]

(* samples of the stream that has begun last, or of any stream, before the   *)
(* next ones                                                                 *)
At(stream, linked, next, samples) ==
  samples.stream = stream /\ (linked => samples.offset < next)

Behind(stream, linked, next, samples) ==
  samples.stream < stream \/ At(stream, linked, next, samples)

(* the place of samples in a stream without the ones gone, and the samples   *)
(* that follow others there                                                  *)
PlaceOf(gone, samples) ==
  samples.offset
    - Cardinality({d \in gone : d.stream = samples.stream /\ d.offset < samples.offset})

Follows(gone, before, after) ==
  /\ before.stream = after.stream /\ before.offset < after.offset
  /\ PlaceOf(gone, after) = PlaceOf(gone, before) + 1

(* the data of a queue follow one another, and, if more comes, that follows *)
Line(gone, queue, more, next) ==
  /\ \A i \in 1 .. Len(queue) - 1 :
       IsValid(queue[i]) /\ IsValid(queue[i + 1])
         => Follows(gone, queue[i].samples, queue[i + 1].samples)
  /\ queue # <<>> /\ IsValid(queue[Len(queue)]) /\ more
       => Follows(gone, queue[Len(queue)].samples, next)

(* what comes next out of the event thread, of signalQueue and of the task *)
HeadD == IF usb.pc = "handler" THEN usb.samples ELSE NextSamples
HeadQ == IF signalQueue # <<>> THEN signalQueue[1].samples ELSE HeadD
HeadR == IF OnItsWay THEN raw.samples ELSE HeadQ
MoreQ == signalQueue # <<>> \/ Linked
MoreR == OnItsWay \/ MoreQ

(* a queue with nothing but ends of streams *)
NoData(queue) == \A i \in DOMAIN queue : ~IsValid(queue[i])

(* a decoder that is about to stream has nothing yet, and is offered nothing *)
Starting ==
  /\ cpc = "decode" => logicDecoderStatus = "Streaming"
  /\ cpc = "starting" =>
       /\ logicDecoderStatus = "Idle" /\ decoded = NoSamples
       /\ NoData(logicSignalQueue)
       /\ lpc = "enqueue" => ~IsValid(raw)

(* nothing of an earlier stream is decoded in a session that waits for the next *)
Unstarted ==
  Open /\ driver.stream = since => decoded = NoSamples /\ NoData(logicSignalQueue)

(* all that is on its way is of one stream, and comes before what comes next *)
Before ==
  /\ \A i \in DOMAIN bus : bus[i].stream = driver.stream
  /\ usb.pc = "handler" => At(driver.stream, Linked, NextOffset, usb.samples)
  /\ \A i \in DOMAIN signalQueue :
       /\ IsValid(signalQueue[i])
       /\ At(driver.stream, Linked, NextOffset, signalQueue[i].samples)
  /\ OnItsWay => At(driver.stream, Linked, NextOffset, raw.samples)
  /\ Open => \A i \in DOMAIN logicSignalQueue :
       IsValid(logicSignalQueue[i])
         => At(driver.stream, Linked, NextOffset, logicSignalQueue[i].samples)
  /\ IsFiniteSet(dropped)
  /\ \A d \in dropped : Behind(driver.stream, Linked, NextOffset, d)
  /\ decoded # NoSamples => Behind(driver.stream, Linked, NextOffset, decoded)

(* the samples are in order from the event thread to the subject ... *)
Upstream ==
  /\ usb.pc = "handler" => Follows(dropped, usb.samples, NextSamples)
  /\ Line(dropped, signalQueue, Linked, HeadD)
  /\ OnItsWay /\ MoreQ => Follows(dropped, raw.samples, HeadQ)

(* ... and from there to the decoder, once it has a session *)
Downstream ==
  Open =>
    /\ Line(dropped, logicSignalQueue, MoreR, HeadR)
    /\ decoded # NoSamples =>
         /\ logicSignalQueue # <<>> /\ IsValid(logicSignalQueue[1])
              => Follows(dropped, decoded, logicSignalQueue[1].samples)
         /\ logicSignalQueue = <<>> /\ MoreR => Follows(dropped, decoded, HeadR)

(* Samples that come next follow, when no later ones were dropped. *)
LEMMA PlaceAfter ==
  ASSUME NEW gone, gone \subseteq Samples, IsFiniteSet(gone), NEW stream \in Nat, NEW n \in Nat,
         \A d \in gone : d.stream = stream => d.offset < n
  PROVE  Follows(gone, [stream |-> stream, offset |-> n], [stream |-> stream, offset |-> n + 1])
  <1> DEFINE below == {d \in gone : d.stream = stream /\ d.offset < n}
             upto == {d \in gone : d.stream = stream /\ d.offset < n + 1}
  <1>1. upto = below
    <2>1. \A d \in gone : d.stream = stream => (d.offset < n <=> d.offset < n + 1)
      BY DEF Samples
    <2> QED
      BY <2>1
  <1>2. IsFiniteSet(below) /\ Cardinality(below) \in Nat
    BY FS_Subset, FS_CardinalityType
  <1>3. /\ PlaceOf(gone, [stream |-> stream, offset |-> n]) = n - Cardinality(below)
        /\ PlaceOf(gone, [stream |-> stream, offset |-> n + 1]) = n + 1 - Cardinality(upto)
    <2>1. ASSUME NEW s, NEW k, NEW some, s.stream = stream, s.offset = k,
                 some = {d \in gone : d.stream = stream /\ d.offset < k}
          PROVE  PlaceOf(gone, s) = k - Cardinality(some)
      <3>1. some = {d \in gone : d.stream = s.stream /\ d.offset < s.offset}
        BY <2>1
      <3> QED
        BY <2>1, <3>1, Zenon DEF PlaceOf
    <2> DEFINE here == [stream |-> stream, offset |-> n]
               next == [stream |-> stream, offset |-> n + 1]
               m == n + 1
    <2>2. /\ here.stream = stream /\ here.offset = n
          /\ next.stream = stream /\ next.offset = m
      OBVIOUS
    <2>3. below = {d \in gone : d.stream = stream /\ d.offset < n}
          /\ upto = {d \in gone : d.stream = stream /\ d.offset < m}
      OBVIOUS
    <2>6. /\ here = [stream |-> stream, offset |-> n] /\ m = n + 1
          /\ next = [stream |-> stream, offset |-> n + 1]
      OBVIOUS
    <2> HIDE DEF below, upto, here, next, m
    <2>4. PlaceOf(gone, here) = n - Cardinality(below)
      BY <2>1, <2>2, <2>3, Zenon
    <2>5. PlaceOf(gone, next) = m - Cardinality(upto)
      BY <2>1, <2>2, <2>3, Zenon
    <2> QED
      BY <2>4, <2>5, <2>6, <1>1, <1>2
  <1> HIDE DEF below, upto
  <1>4. n + 1 - Cardinality(upto) = n - Cardinality(below) + 1
    BY <1>1, <1>2
  <1> QED
    BY <1>3, <1>4 DEF Follows

(* When samples are dropped the next ones take their place. *)
LEMMA PlaceGone ==
  ASSUME NEW gone, gone \subseteq Samples, IsFiniteSet(gone), NEW stream \in Nat, NEW n \in Nat,
         \A d \in gone : d.stream = stream => d.offset < n
  PROVE  LET here == [stream |-> stream, offset |-> n]
             next == [stream |-> stream, offset |-> n + 1]
         IN /\ PlaceOf(gone \cup {here}, next) = PlaceOf(gone, here)
            /\ \A s \in Samples : s.stream # stream \/ s.offset <= n =>
                 PlaceOf(gone \cup {here}, s) = PlaceOf(gone, s)
  <1> DEFINE here == [stream |-> stream, offset |-> n]
             next == [stream |-> stream, offset |-> n + 1]
             below == {d \in gone : d.stream = stream /\ d.offset < n}
             after == {d \in gone \cup {here} : d.stream = stream /\ d.offset < n + 1}
  <1>1. here \notin below /\ here.stream = stream /\ here.offset = n
    OBVIOUS
  <1>2. after = below \cup {here}
    <2>1. \A d \in gone : d.stream = stream => (d.offset < n <=> d.offset < n + 1)
      BY DEF Samples
    <2>2. here.stream = stream /\ here.offset < n + 1
      OBVIOUS
    <2> HIDE DEF here
    <2> QED
      BY <2>1, <2>2
  <1>3. IsFiniteSet(below) /\ Cardinality(below) \in Nat
    BY FS_Subset, FS_CardinalityType
  <1>4. Cardinality(after) = Cardinality(below) + 1
    <2> HIDE DEF below, here, after
    <2> QED
      BY <1>1, <1>2, <1>3, FS_AddElement
  <1>5. PlaceOf(gone, here) = n - Cardinality(below) /\ PlaceOf(gone \cup {here}, next) = n + 1 - Cardinality(after)
    <2>1. ASSUME NEW s, NEW k, NEW part, s.stream = stream, s.offset = k,
                 part = {d \in gone : d.stream = stream /\ d.offset < k}
          PROVE  PlaceOf(gone, s) = k - Cardinality(part)
      <3>1. part = {d \in gone : d.stream = s.stream /\ d.offset < s.offset}
        BY <2>1
      <3> QED
        BY <2>1, <3>1, Zenon DEF PlaceOf
    <2> DEFINE both == gone \cup {here}
    <2> HIDE DEF both
    <2>7. ASSUME NEW s, NEW k, NEW part, s.stream = stream, s.offset = k,
                 part = {d \in both : d.stream = stream /\ d.offset < k}
          PROVE  PlaceOf(both, s) = k - Cardinality(part)
      <3>1. part = {d \in both : d.stream = s.stream /\ d.offset < s.offset}
        BY <2>7
      <3> QED
        BY <2>7, <3>1, Zenon DEF PlaceOf
    <2> DEFINE m == n + 1
    <2>2. /\ here.stream = stream /\ here.offset = n
          /\ next.stream = stream /\ next.offset = m
      OBVIOUS
    <2>3. below = {d \in gone : d.stream = stream /\ d.offset < n}
          /\ after = {d \in both : d.stream = stream /\ d.offset < m}
      BY DEF both
    <2>6. m = n + 1 /\ both = gone \cup {here}
      BY DEF both
    <2> HIDE DEF below, after, here, next, m
    <2>4. PlaceOf(gone, here) = n - Cardinality(below)
      BY <2>1, <2>2, <2>3, Zenon
    <2>5. PlaceOf(both, next) = m - Cardinality(after)
      BY <2>2, <2>3, <2>7, Zenon
    <2> QED
      BY <2>4, <2>5, <2>6, <1>3, <1>4
  <1>6. PlaceOf(gone \cup {here}, next) = PlaceOf(gone, here)
    <2> HIDE DEF below, after
    <2> QED
      BY <1>3, <1>4, <1>5
  <1>7. ASSUME NEW s \in Samples, s.stream # stream \/ s.offset <= n
        PROVE  PlaceOf(gone \cup {here}, s) = PlaceOf(gone, s)
    <2>1. ~(here.stream = s.stream /\ here.offset < s.offset)
      BY <1>7 DEF Samples
    <2> HIDE DEF here
    <2>2. {d \in gone \cup {here} : d.stream = s.stream /\ d.offset < s.offset}
            = {d \in gone : d.stream = s.stream /\ d.offset < s.offset}
      BY <2>1
    <2> QED
      BY <2>2 DEF PlaceOf
  <1> QED
    BY <1>6, <1>7

(* What goes through a queue keeps its order. *)
LEMMA LineTail ==
  ASSUME NEW gone, NEW queue \in Seq(Buffer), NEW more \in BOOLEAN, NEW next,
         Line(gone, queue, more, next), queue # <<>>
  PROVE  /\ Line(gone, Tail(queue), more, next)
         /\ IsValid(queue[1]) =>
              /\ Tail(queue) # <<>> /\ IsValid(Tail(queue)[1])
                   => Follows(gone, queue[1].samples, Tail(queue)[1].samples)
              /\ Tail(queue) = <<>> /\ more => Follows(gone, queue[1].samples, next)
  <1> DEFINE rest == Tail(queue)
  <1>1. /\ Len(queue) \in Nat /\ Len(queue) >= 1 /\ Len(rest) = Len(queue) - 1
        /\ \A i \in 1 .. Len(queue) - 1 : rest[i] = queue[i + 1]
        /\ rest = <<>> => Len(queue) = 1
        /\ rest # <<>> => Len(queue) > 1
    <2>1. /\ Len(queue) \in Nat /\ Len(queue) >= 1 /\ Len(rest) = Len(queue) - 1
          /\ \A i \in 1 .. Len(queue) - 1 : rest[i] = queue[i + 1]
      OBVIOUS
    <2>2. rest \in Seq(Buffer)
      OBVIOUS
    <2> HIDE DEF rest
    <2>3. rest # <<>> => Len(rest) > 0
      BY <2>2
    <2>4. rest = <<>> => Len(rest) = 0
      OBVIOUS
    <2> QED
      BY <2>1, <2>3, <2>4
  <1> HIDE DEF rest
  <1>2. ASSUME NEW i \in 1 .. Len(rest) - 1, IsValid(rest[i]), IsValid(rest[i + 1])
        PROVE  Follows(gone, rest[i].samples, rest[i + 1].samples)
    <2>1. rest[i] = queue[i + 1] /\ rest[i + 1] = queue[i + 2] /\ i + 1 \in 1 .. Len(queue) - 1
          /\ i + 2 = (i + 1) + 1
      BY <1>1
    <2> QED
      BY <1>2, <2>1 DEF Line
  <1>3. ASSUME rest # <<>>, IsValid(rest[Len(rest)]), more
        PROVE  Follows(gone, rest[Len(rest)].samples, next)
    <2>1. rest[Len(rest)] = queue[Len(queue)]
      BY <1>1, <1>3
    <2> QED
      BY <1>3, <2>1 DEF Line
  <1>4. ASSUME IsValid(queue[1]), rest # <<>>, IsValid(rest[1])
        PROVE  Follows(gone, queue[1].samples, rest[1].samples)
    <2>1. rest[1] = queue[2] /\ 1 \in 1 .. Len(queue) - 1 /\ 2 = 1 + 1
      BY <1>1, <1>4
    <2> QED
      BY <1>4, <2>1 DEF Line
  <1>5. ASSUME IsValid(queue[1]), rest = <<>>, more
        PROVE  Follows(gone, queue[1].samples, next)
    BY <1>1, <1>5 DEF Line
  <1> QED
    BY <1>2, <1>3, <1>4, <1>5 DEF Line, rest

(* What is added to a queue follows the last there. *)
LEMMA LineAppend ==
  ASSUME NEW gone, NEW queue \in Seq(Buffer), NEW buffer \in Buffer, NEW more \in BOOLEAN, NEW next,
         \/ IsValid(buffer) /\ Line(gone, queue, TRUE, buffer.samples)
            /\ (more => Follows(gone, buffer.samples, next))
         \/ ~IsValid(buffer) /\ \E m, n : Line(gone, queue, m, n)
  PROVE  Line(gone, Append(queue, buffer), more, next)
  <1> DEFINE longer == Append(queue, buffer)
  <1>1. /\ Len(queue) \in Nat /\ Len(longer) = Len(queue) + 1 /\ longer[Len(queue) + 1] = buffer
        /\ \A i \in 1 .. Len(queue) : longer[i] = queue[i]
        /\ Len(queue) > 0 => queue # <<>>
    OBVIOUS
  <1> HIDE DEF longer
  <1>2. ASSUME NEW i \in 1 .. Len(longer) - 1, IsValid(longer[i]), IsValid(longer[i + 1])
        PROVE  Follows(gone, longer[i].samples, longer[i + 1].samples)
    <2>1. CASE i = Len(queue)
      <3>1. longer[i] = queue[Len(queue)] /\ longer[i + 1] = buffer /\ queue # <<>>
        BY <1>1, <1>2, <2>1
      <3> QED
        BY <1>2, <3>1 DEF Line
    <2>2. CASE i # Len(queue)
      <3>1. i \in 1 .. Len(queue) - 1 /\ longer[i] = queue[i] /\ longer[i + 1] = queue[i + 1]
        BY <1>1, <1>2, <2>2
      <3> QED
        BY <1>2, <3>1 DEF Line
    <2> QED
      BY <2>1, <2>2
  <1>3. longer[Len(longer)] = buffer
    BY <1>1
  <1> QED
    BY <1>2, <1>3 DEF Line, longer

(* ... and so it does when samples are dropped that come after it. *)
LEMMA LineMoves ==
  ASSUME NEW gone, NEW queue \in Seq(Buffer), NEW more, NEW next, NEW gone2, NEW more2, NEW next2,
         Line(gone, queue, more, next),
         \A i \in 1 .. Len(queue) : IsValid(queue[i]) =>
           PlaceOf(gone2, queue[i].samples) = PlaceOf(gone, queue[i].samples),
         queue # <<>> /\ IsValid(queue[Len(queue)]) /\ more2 =>
           more /\ (Follows(gone, queue[Len(queue)].samples, next)
                      => Follows(gone2, queue[Len(queue)].samples, next2))
  PROVE  Line(gone2, queue, more2, next2)
  <1>1. Len(queue) \in Nat
    OBVIOUS
  <1>2. ASSUME NEW i \in 1 .. Len(queue) - 1, IsValid(queue[i]), IsValid(queue[i + 1])
        PROVE  Follows(gone2, queue[i].samples, queue[i + 1].samples)
    <2>1. i \in 1 .. Len(queue) /\ i + 1 \in 1 .. Len(queue)
      BY <1>1
    <2> QED
      BY <1>2, <2>1 DEF Line, Follows
  <1> QED
    BY <1>2 DEF Line

-----------------------------------------------------------------------------
(* What a step does to the samples that come next ... *)

(* resume() drops the buffer that has begun, ... *)
Skips ==
  /\ driver.partial /\ usb.pc = "wait" /\ UNCHANGED usb
  /\ driver'.stream = driver.stream
  /\ dropped' = dropped \cup {NextSamples}
  /\ NextOffset' = NextOffset + 1

(* ... interleave completes one for the handler, ... *)
Delivers ==
  /\ ~Dead /\ usb.pc = "wait"
  /\ usb' = [pc |-> "handler", samples |-> NextSamples]
  /\ driver'.stream = driver.stream /\ UNCHANGED dropped
  /\ NextOffset' = NextOffset + 1

(* ... or neither happens *)
Keeps ==
  /\ driver'.stream = driver.stream /\ UNCHANGED dropped
  /\ Linked' => Linked /\ NextOffset' = NextOffset
  /\ usb'.pc = "handler" => usb.pc = "handler" /\ UNCHANGED usb
  /\ usb.pc = "handler" /\ usb'.pc # "handler" => Handle

(* ... and to those on their way. *)
Passes ==
  /\ UNCHANGED <<signalQueue, cpc, logicDecoderStatus, logicSignalQueue, decoded, since>>
  /\ OnItsWay' = OnItsWay /\ (OnItsWay => UNCHANGED raw)
  /\ lpc' = "enqueue" => lpc = "enqueue" /\ UNCHANGED raw

(* the transfers in flight are of the stream that was started last *)
OfStream == \A i \in DOMAIN bus : bus[i].stream = driver.stream

(* They always are. *)
LEMMA BusStep ==
  ASSUME Typed, Ready, Awaited, OfStream, [Next]_vars
  PROVE  OfStream'
  <1>0. driver \in Driver /\ driver.stream \in Nat /\ bus \in Seq(Transfer)
    BY DEF Typed, TypeOK, DriverTypeOK, Driver
  <1>1. CASE UNCHANGED bus /\ driver'.stream = driver.stream
    BY <1>1 DEF OfStream
  <1>2. CASE Halt /\ driver'.stream = driver.stream
    <2>1. \A t \in Transfer : [t EXCEPT !.cancelled = TRUE].stream = t.stream
      BY DEF Transfer
    <2>2. \A i \in DOMAIN bus : bus[i] \in Transfer
      BY <1>0, ElementOfSeq
    <2>3. DOMAIN bus' = DOMAIN bus /\ \A i \in DOMAIN bus : bus'[i] = [bus[i] EXCEPT !.cancelled = TRUE]
      BY <1>2 DEF Halt
    <2> QED
      BY <1>2, <2>1, <2>2, <2>3 DEF OfStream
  <1>3. ASSUME NEW stream \in Nat, bus = <<>>, driver'.stream = stream,
               bus' = bus \/ bus' = BeginTransfers(stream)
        PROVE  OfStream'
    <2>1. \A i \in DOMAIN BeginTransfers(stream) : BeginTransfers(stream)[i].stream = stream
      <3> DEFINE data == [i \in 1..Transfers |-> Submitted("data", stream)]
      <3>1. Transfers \in Nat
        BY DSLogicAssumption
      <3>2. data \in Seq(Transfer) /\ Len(data) = Transfers /\ <<Submitted("header", stream)>> \in Seq(Transfer)
        BY <3>1 DEF Submitted, Transfer
      <3>3. BeginTransfers(stream) = <<Submitted("header", stream)>> \o data
        BY <1>3, <3>2 DEF BeginTransfers
      <3>4. \A i \in 1..Transfers : data[i].stream = stream
        BY DEF Submitted
      <3>5. Submitted("header", stream).stream = stream
        BY DEF Submitted
      <3> HIDE DEF data
      <3>6. /\ DOMAIN (<<Submitted("header", stream)>> \o data) = 1 .. Transfers + 1
            /\ \A i \in 1 .. Transfers + 1 : (<<Submitted("header", stream)>> \o data)[i] =
                 IF i = 1 THEN Submitted("header", stream) ELSE data[i - 1]
        BY <3>1, <3>2
      <3>7. \A i \in 1 .. Transfers + 1 : i = 1 \/ i - 1 \in 1 .. Transfers
        BY <3>1
      <3> QED
        BY <3>3, <3>4, <3>5, <3>6, <3>7
    <2>2. \A i \in DOMAIN bus : FALSE
      BY <1>3
    <2> QED
      BY <1>3, <2>1, <2>2 DEF OfStream
  <1>4. CASE StartDevice
    <2>1. Asked("Start")
      <3>1. deviceCommands \in Seq(Command)
        BY DEF Typed, TypeOK, DeviceTaskTypeOK
      <3> QED
        BY <1>4, <3>1, TakingOne DEF StartDevice, Accepted, Handling, Asked
    <2>2. driver'.stream = driver.stream + 1 /\ (bus' = bus \/ bus' = BeginTransfers(driver'.stream))
      BY <1>0, <1>4 DEF StartDevice, Begin, Driver
    <2> QED
      BY <1>0, <1>3, <2>1, <2>2 DEF Ready
  <1>5. CASE ResumeDevice
    <2>1. Asked("Resume")
      <3>1. deviceCommands \in Seq(Command)
        BY DEF Typed, TypeOK, DeviceTaskTypeOK
      <3> QED
        BY <1>5, <3>1, TakingOne DEF ResumeDevice, Accepted, Handling, Asked
    <2>2. driver'.stream = driver.stream /\ (bus' = bus \/ bus' = BeginTransfers(driver'.stream))
      BY <1>0, <1>5 DEF ResumeDevice, Begin, Driver
    <2> QED
      BY <1>0, <1>3, <2>1, <2>2 DEF Ready
  <1>6. CASE StopDevice \/ PauseDevice \/ ConfigDevice
    BY <1>1, <1>2, <1>6 DEF StopDevice, PauseDevice, ConfigDevice
  <1>7. CASE Close
    <2>1. driver'.stream = driver.stream
      BY <1>0, <1>7 DEF Close, SetStatus, Driver
    <2> QED
      BY <1>1, <1>2, <1>7, <2>1 DEF Close
  <1>8. CASE StartAcquisition \/ CallReturns \/ Attach \/ Closed
    <2>1. driver'.stream = driver.stream
      BY <1>0, <1>8 DEF StartAcquisition, Acquire, CallReturns, SetStatus, Attach, Opened, Closed, Driver
    <2> QED
      BY <1>1, <1>8, <2>1 DEF StartAcquisition, CallReturns, Attach, Refreshing, Closed
  <1>9. CASE Usb
    <2>1. driver'.stream = driver.stream
      BY <1>9, EventThreadSteps DEF Usb
    <2>2. CASE bus # <<>> /\ bus' = Tail(bus)
      <3>1. /\ DOMAIN Tail(bus) = 1 .. Len(bus) - 1 /\ Len(bus) \in Nat /\ DOMAIN bus = 1 .. Len(bus)
            /\ \A i \in 1 .. Len(bus) - 1 : Tail(bus)[i] = bus[i + 1] /\ i + 1 \in 1 .. Len(bus)
        BY <1>0, <2>2
      <3> QED
        BY <2>1, <2>2, <3>1 DEF OfStream
    <2>3. CASE Resend
      <3>1. CASE bus' = bus
        BY <1>1, <2>1, <3>1
      <3>2. CASE bus' = Append(bus, Submitted("data", driver.stream))
        <4> DEFINE transfer == Submitted("data", driver.stream)
        <4>1. transfer.stream = driver.stream
          BY DEF Submitted
        <4> HIDE DEF transfer
        <4>2. /\ DOMAIN Append(bus, transfer) = 1 .. Len(bus) + 1 /\ Len(bus) \in Nat
              /\ DOMAIN bus = 1 .. Len(bus)
              /\ \A i \in 1 .. Len(bus) + 1 :
                   \/ i = Len(bus) + 1 /\ Append(bus, transfer)[i] = transfer
                   \/ i \in 1 .. Len(bus) /\ Append(bus, transfer)[i] = bus[i]
          BY <1>0
        <4>3. bus' = Append(bus, transfer)
          BY <3>2 DEF transfer
        <4>4. ASSUME NEW i \in DOMAIN bus' PROVE bus'[i].stream = driver.stream
          BY <4>1, <4>2, <4>3, <4>4 DEF OfStream
        <4> QED
          BY <2>1, <4>4 DEF OfStream
      <3> QED
        BY <2>3, <3>1, <3>2 DEF Resend
    <2> QED
      BY <1>1, <1>9, <2>1, <2>2, <2>3
         DEF Usb, EventThread, Complete, CancelBack, FailBack, Waiting, HeaderDone, Handle
  <1>10. CASE Environment
    <2>1. driver'.stream = driver.stream /\ UNCHANGED bus
      BY <1>0, <1>10 DEF Environment, Unplug, Plug, Driver
    <2> QED
      BY <1>1, <2>1
  <1>11. CASE DeviceThread
    <2>1. CASE DropCommand \/ Report \/ Pass("refresh") \/ Pass("queue") \/ NoRefresh
               \/ PublishEnd \/ NothingQueued \/ Published \/ Detach \/ ReportStatus \/ PublishBuffer
               \/ DeliverRaw \/ EnqueueRaw
      BY <1>1, <2>1 DEF DropCommand, Report, Pass, NoRefresh, PublishEnd, NothingQueued, Published,
                        Detach, ReportStatus, Refreshing, PublishBuffer, DeliverRaw, EnqueueRaw, RawOnly,
                        driverVars
    <2> QED
      BY <1>4, <1>5, <1>6, <1>7, <1>8, <1>11, <2>1, Zenon DEF DeviceThread, DeviceTaskStep, RefreshStep
  <1> QED
    BY <1>1, <1>9, <1>10, <1>11
       DEF Next, DecoderThread, User, DecoderStarted, Start, Stop, Pause, Resume, Switch,
           Ask, UserOnly, vars, driverVars

(* What the receiver task leaves of the buffer the driver fills. *)
LEMMA TaskMovements ==
  ASSUME Typed, DeviceTaskStep
  PROVE  \/ UNCHANGED <<driver.partial, driver.samples, dropped>>
         \/ StartDevice \/ Attach
         \/ ResumeDevice /\ IsPaused /\ driver.partial
              /\ dropped' = dropped \cup {[stream |-> driver.stream, offset |-> driver.samples - 1]}
              /\ driver'.partial = FALSE /\ driver'.samples = driver.samples
  <1>0. driver \in Driver
    BY DEF Typed, TypeOK, DriverTypeOK
  <1>1. CASE DropCommand \/ Report \/ Pass("refresh") \/ Pass("queue") \/ NoRefresh
             \/ PublishEnd \/ NothingQueued \/ Published
    BY <1>1 DEF DropCommand, Report, Pass, NoRefresh, PublishEnd, NothingQueued, Published, driverVars
  <1>2. CASE Detach \/ ReportStatus \/ PublishBuffer
    BY <1>2 DEF Detach, ReportStatus, PublishBuffer, Refreshing
  <1>3. CASE StopDevice \/ PauseDevice \/ ConfigDevice
    BY <1>3 DEF StopDevice, PauseDevice, ConfigDevice
  <1>4. CASE Close \/ StartAcquisition \/ CallReturns \/ Closed
    BY <1>0, <1>4 DEF Close, StartAcquisition, Acquire, CallReturns, Closed, SetStatus, Driver
  <1>5. CASE ResumeDevice
    <2>1. CASE ~IsPaused
      BY <1>5, <2>1 DEF ResumeDevice
    <2>2. CASE IsPaused
      <3>1. driver' = [driver EXCEPT !.partial = FALSE]
            /\ dropped' = IF driver.partial
                THEN dropped \cup {[stream |-> driver.stream, offset |-> driver.samples - 1]}
                ELSE dropped
        BY <1>5, <2>2 DEF ResumeDevice, Begin
      <3>2. driver'.partial = FALSE /\ driver'.samples = driver.samples /\ driver.partial \in BOOLEAN
        BY <1>0, <3>1 DEF Driver
      <3>3. CASE driver.partial
        BY <1>5, <2>2, <3>1, <3>2, <3>3
      <3>4. CASE ~driver.partial
        BY <3>1, <3>2, <3>4
      <3> QED
        BY <3>3, <3>4
    <2> QED
      BY <2>1, <2>2
  <1> QED
    BY <1>1, <1>2, <1>3, <1>4, <1>5, Zenon DEF DeviceTaskStep, RefreshStep

(* What the event thread makes of the samples of a transfer. *)
LEMMA DeliverMoves ==
  ASSUME Typed, usb.pc = "wait", bus # <<>>, NEW status, NEW rest \in BOOLEAN, UNCHANGED dropped,
         Deliver(status, driver.stream, rest)
  PROVE  \/ Delivers
         \/ /\ driver'.stream = driver.stream /\ NextOffset' = NextOffset /\ usb'.pc = "resend"
  <1>0. /\ driver \in Driver /\ driver.samples \in Nat /\ driver.partial \in BOOLEAN
        /\ usb \in [pc : {"wait", "headerOK", "headerBad", "handler", "resend"}, samples : Samples]
    BY DEF Typed, TypeOK, DriverTypeOK, Driver
  <1> DEFINE result == Interleave(rest)
  <1>1. /\ driver' = [driver EXCEPT !.status = status, !.samples = result.samples, !.partial = rest]
        /\ usb' = IF result.complete
             THEN [pc |-> "handler", samples |-> [stream |-> driver.stream, offset |-> result.offset]]
             ELSE [usb EXCEPT !.pc = "resend"]
    BY DEF Deliver
  <1>2. driver'.samples = result.samples /\ driver'.partial = rest /\ driver'.stream = driver.stream
    BY <1>0, <1>1 DEF Driver
  <1>3. CASE result.complete
    <2>1. result.offset = NextOffset
      BY <1>0, <1>3 DEF Interleave, NextOffset
    <2>2. driver.partial => driver.samples > 0
      BY DEF Typed, Begun
    <2>3. NextOffset' = NextOffset + 1
      <3>1. CASE driver.partial /\ rest
        <4>1. result.samples = driver.samples + 1
          BY <3>1 DEF Interleave
        <4> HIDE DEF result
        <4> QED
          BY <1>0, <1>2, <3>1, <4>1 DEF NextOffset
      <3>2. CASE driver.partial /\ ~rest
        <4>1. result.samples = driver.samples
          BY <1>0, <3>2 DEF Interleave
        <4> HIDE DEF result
        <4> QED
          BY <1>0, <1>2, <3>2, <4>1 DEF NextOffset
      <3>3. CASE ~driver.partial
        <4>1. result.samples = driver.samples + 1 /\ ~rest
          BY <1>3, <3>3 DEF Interleave
        <4> HIDE DEF result
        <4> QED
          BY <1>0, <1>2, <3>3, <4>1 DEF NextOffset
      <3> QED
        BY <3>1, <3>2, <3>3, <1>0
    <2>4. usb' = [pc |-> "handler", samples |-> NextSamples]
      BY <1>1, <1>3, <2>1 DEF NextSamples
    <2> QED
      BY <1>2, <2>3, <2>4 DEF Delivers, Dead
  <1>4. CASE ~result.complete
    <2>1. result.samples = driver.samples + 1 /\ ~driver.partial /\ rest
      BY <1>0, <1>4 DEF Interleave
    <2>2. usb'.pc = "resend"
      BY <1>0, <1>1, <1>4
    <2> HIDE DEF result
    <2>3. NextOffset' = NextOffset
      BY <1>0, <1>2, <2>1 DEF NextOffset
    <2> QED
      BY <1>2, <2>2, <2>3
  <1> QED
    BY <1>3, <1>4

(* The event thread delivers samples or leaves them to come. *)
LEMMA ThreadMovements ==
  ASSUME Typed, EventThread, OfStream, Linked' => Linked
  PROVE  Delivers \/ Keeps
  <1>0. /\ driver \in Driver /\ bus \in Seq(Transfer)
        /\ usb \in [pc : {"wait", "headerOK", "headerBad", "handler", "resend"}, samples : Samples]
    BY DEF Typed, TypeOK, DriverTypeOK
  <1>1. driver'.stream = driver.stream /\ UNCHANGED dropped
    BY EventThreadSteps DEF EventThread
  <1>2. ASSUME NextOffset' = NextOffset, usb.pc # "handler", usb'.pc # "handler" PROVE Keeps
    BY <1>1, <1>2 DEF Keeps
  <1>3. ASSUME NEW status \in DeviceStatus, SetStatus(status) PROVE NextOffset' = NextOffset
    BY <1>0, <1>3 DEF SetStatus, NextOffset, Driver
  <1>4. ASSUME Waiting, NEW completed, NEW isHeader, HeaderBack(completed, isHeader) PROVE Keeps
    <2>1. NextOffset' = NextOffset
      BY <1>3, <1>4 DEF HeaderBack, DeviceStatus
    <2>2. usb'.pc \in {"headerOK", "headerBad"}
      BY <1>0, <1>4 DEF HeaderBack
    <2> QED
      BY <1>2, <1>4, <2>1, <2>2 DEF Waiting
  <1>5. ASSUME Waiting, NEW filled, NEW failed, DataBack(filled, failed, driver.stream)
        PROVE  Delivers \/ Keeps
    <2> DEFINE status == IF failed THEN "ERROR"
                         ELSE IF driver.status = "START" THEN "DATA" ELSE driver.status
    <2>1. status \in DeviceStatus
      BY <1>0 DEF Driver, DeviceStatus
    <2>2. \/ SetStatus(status) /\ UNCHANGED usb
          \/ \E rest \in Rests : Deliver(status, driver.stream, rest)
      BY <1>5 DEF DataBack
    <2> HIDE DEF status
    <2>3. CASE SetStatus(status) /\ UNCHANGED usb
      <3>1. NextOffset' = NextOffset
        BY <1>3, <2>1, <2>3
      <3> QED
        BY <1>2, <1>5, <2>3, <3>1 DEF Waiting
    <2>4. ASSUME NEW rest \in Rests, Deliver(status, driver.stream, rest)
          PROVE  Delivers \/ Keeps
      <3>1. rest \in BOOLEAN /\ usb.pc = "wait" /\ bus # <<>>
        BY <1>5 DEF DSLogicAssumption, Waiting
      <3>2. \/ Delivers
            \/ driver'.stream = driver.stream /\ NextOffset' = NextOffset /\ usb'.pc = "resend"
        BY <1>1, <2>4, <3>1, DeliverMoves
      <3> QED
        BY <1>2, <3>1, <3>2
    <2> QED
      BY <2>2, <2>3, <2>4, Zenon
  <1>6. ASSUME Waiting PROVE Head(bus).stream = driver.stream
    BY <1>0, <1>6 DEF Waiting, OfStream
  <1>7. CASE Complete
    BY <1>4, <1>5, <1>7 DEF Complete
  <1>8. CASE CancelBack \/ FailBack
    <2>1. Waiting
      BY <1>8 DEF CancelBack, FailBack
    <2>2. \/ HeaderBack(FALSE, FALSE)
          \/ \E filled \in BOOLEAN : DataBack(filled, FALSE, driver.stream)
          \/ DataBack(FALSE, ~driver.attached, driver.stream)
      BY <1>6, <1>8, <2>1 DEF CancelBack, FailBack
    <2> QED
      BY <1>4, <1>5, <2>1, <2>2, Zenon
  <1>9. CASE HeaderDone
    <2>1. NextOffset' = NextOffset
      BY <1>0, <1>9 DEF HeaderDone, NextOffset, Driver
    <2>2. usb.pc # "handler" /\ usb'.pc = "wait"
      BY <1>0, <1>9 DEF HeaderDone
    <2> QED
      BY <1>2, <2>1, <2>2
  <1>10. CASE Handle
    <2>1. NextOffset' = NextOffset
      BY <1>10 DEF Handle, NextOffset
    <2>2. usb'.pc = "resend"
      BY <1>0, <1>10 DEF Handle
    <2> QED
      BY <1>1, <1>10, <2>1, <2>2 DEF Keeps
  <1>11. CASE Resend
    <2>1. NextOffset' = NextOffset
      BY <1>11 DEF Resend, NextOffset
    <2>2. usb.pc # "handler" /\ usb'.pc = "wait"
      BY <1>11 DEF Resend
    <2> QED
      BY <1>2, <2>1, <2>2
  <1> QED
    BY <1>7, <1>8, <1>9, <1>10, <1>11 DEF EventThread

(* No step but the start of a stream makes more of it come than would have. *)
LEMMA LinkStays ==
  ASSUME Typed, Hardware, [Next]_vars, ~StartDevice
  PROVE  Linked' => Linked
  <1> SUFFICES ASSUME ~Linked PROVE ~Linked'
    OBVIOUS
  <1>0. Dead /\ ~driver.partial /\ bus = <<>> /\ usb.pc = "wait"
    BY DEF Linked, Dead
  <1>1. Dead'
    BY <1>0, DeadStays
  <1>2. driver'.partial = driver.partial \/ driver'.partial = FALSE
    <2>1. driver \in Driver
      BY DEF Typed, TypeOK, DriverTypeOK
    <2>2. CASE DeviceTaskStep
      <3>1. Attach => driver'.partial = FALSE
        BY DEF Attach, Opened
      <3> QED
        BY <2>2, <3>1, TaskMovements
    <2>3. CASE Usb
      BY <1>0, <2>3 DEF Usb, EventThread, Complete, CancelBack, FailBack, Waiting, HeaderDone, Handle, Resend
    <2>4. CASE Environment
      BY <2>1, <2>4 DEF Environment, Unplug, Plug, Driver
    <2> QED
      BY <2>2, <2>3, <2>4
         DEF Next, DeviceThread, DeliverRaw, EnqueueRaw, RawOnly, DecoderThread, DecoderStarted, User,
             Start, Stop, Pause, Resume, Switch, Ask, UserOnly, vars, driverVars
  <1> QED
    BY <1>0, <1>1, <1>2 DEF Linked

(* Every step starts a stream, or skips, delivers or keeps samples. *)
LEMMA Movements ==
  ASSUME Typed, Hardware, Ready, OfStream, [Next]_vars
  PROVE  StartDevice \/ Skips \/ Delivers \/ Keeps
  <1> SUFFICES ASSUME ~StartDevice PROVE Skips \/ Delivers \/ Keeps
    OBVIOUS
  <1>0. driver \in Driver /\ driver.samples \in Nat
    BY DEF Typed, TypeOK, DriverTypeOK, Driver
  <1>1. Linked' => Linked
    BY LinkStays
  <1>2. CASE Usb
    BY <1>1, <1>2, ThreadMovements DEF Usb
  <1>3. ASSUME UNCHANGED <<usb, driver.stream, driver.partial, driver.samples, dropped>> PROVE Keeps
    BY <1>1, <1>3 DEF Keeps, NextOffset
  <1>4. CASE Environment
    BY <1>0, <1>3, <1>4 DEF Environment, Unplug, Plug, Driver
  <1>5. CASE DeviceTaskStep
    <2>1. UNCHANGED usb /\ driver'.stream = driver.stream
      BY <1>5, DeviceTaskSteps
    <2>2. CASE UNCHANGED <<driver.partial, driver.samples, dropped>>
      BY <1>3, <2>1, <2>2
    <2>3. CASE Attach
      <3>1. bus = <<>> /\ usb.pc = "wait"
        BY <2>3 DEF Attach, Hardware, RunsNot
      <3>2. driver'.status = "READY" /\ driver'.partial = FALSE /\ lpc' = "queue"
            /\ UNCHANGED <<bus, dropped>>
        BY <2>3 DEF Attach, Opened, Refreshing
      <3>3. ~Linked'
        BY <2>1, <3>1, <3>2 DEF Linked, Dead
      <3> QED
        BY <2>1, <3>2, <3>3 DEF Keeps
    <2>4. CASE /\ ResumeDevice /\ IsPaused /\ driver.partial
               /\ dropped' = dropped \cup {[stream |-> driver.stream, offset |-> driver.samples - 1]}
               /\ driver'.partial = FALSE /\ driver'.samples = driver.samples
      <3>1. usb.pc = "wait"
        <4>1. deviceCommands \in Seq(Command)
          BY DEF Typed, TypeOK, DeviceTaskTypeOK
        <4>2. Asked("Resume")
          BY <2>4, <4>1, TakingOne DEF ResumeDevice, Accepted, Handling, Asked
        <4> QED
          BY <4>2 DEF Ready
      <3>2. NextOffset' = NextOffset + 1
        BY <1>0, <2>4 DEF NextOffset
      <3>3. NextSamples = [stream |-> driver.stream, offset |-> driver.samples - 1]
        BY <2>4 DEF NextSamples, NextOffset
      <3> QED
        BY <2>1, <2>4, <3>1, <3>2, <3>3 DEF Skips
    <2> QED
      BY <1>5, <2>2, <2>3, <2>4, TaskMovements
  <1> QED
    BY <1>2, <1>3, <1>4, <1>5
       DEF Next, DeviceThread, DeliverRaw, EnqueueRaw, RawOnly, DecoderThread, DecoderStarted, User,
           Start, Stop, Pause, Resume, Switch, Ask, UserOnly, vars, driverVars

(* the steps that take samples on: of the decoder, the receiver and the event thread *)
Decodes == DecoderTaskStep /\ UNCHANGED <<driverVars, deviceTaskVars, since>>
Publishes == PublishBuffer /\ UNCHANGED <<decoderTaskVars, since>>
Handles == Handle /\ UNCHANGED <<deviceTaskVars, decoderTaskVars, since>>

(* Every other step leaves what is on its way where it is. *)
LEMMA Passages ==
  ASSUME Typed, [Next]_vars
  PROVE  Passes \/ Handles \/ Publishes \/ DeliverRaw \/ EnqueueRaw \/ DecoderStarted \/ Decodes
  <1> USE DEF OnItsWay
  <1>1. ASSUME UNCHANGED <<signalQueue, cpc, logicDecoderStatus, logicSignalQueue, decoded, since, lpc, raw>>
        PROVE  Passes
    BY <1>1 DEF Passes, IsValid
  <1>2. CASE Usb
    <2>1. UNCHANGED signalQueue \/ Handle
      BY <1>2 DEF Usb, EventThread, Complete, CancelBack, FailBack, HeaderBack, DataBack, HeaderDone, Resend
    <2> QED
      BY <1>1, <1>2, <2>1 DEF Usb, deviceTaskVars, decoderTaskVars, Handles
  <1>3. CASE Environment
    BY <1>1, <1>3 DEF Environment, Unplug, Plug, deviceTaskVars, decoderTaskVars
  <1>4. ASSUME DeviceTaskStep, UNCHANGED <<decoderTaskVars, since>> PROVE Passes \/ Publishes
    <2>1. ASSUME UNCHANGED <<signalQueue, raw>>, lpc \notin {"publish", "enqueue"},
                 lpc' \notin {"publish", "enqueue"}
          PROVE  Passes
      BY <1>4, <2>1 DEF Passes, decoderTaskVars
    <2>2. CASE DropCommand \/ Report \/ Pass("refresh") \/ Pass("queue") \/ NoRefresh
               \/ NothingQueued \/ Published
      BY <2>1, <2>2 DEF DropCommand, Handling, Report, Pass, NoRefresh, NothingQueued, Published, driverVars
    <2>3. CASE StartDevice \/ StopDevice \/ PauseDevice \/ ResumeDevice \/ ConfigDevice
      BY <2>1, <2>3 DEF StartDevice, StopDevice, PauseDevice, ResumeDevice, ConfigDevice, Accepted, Handling
    <2>4. CASE StartAcquisition \/ CallReturns \/ Attach \/ ReportStatus \/ Close \/ Closed
      BY <2>1, <2>4 DEF StartAcquisition, CallReturns, Attach, ReportStatus, Refreshing, Close, Closed
    <2>5. CASE Detach \/ PublishEnd
      <3>1. /\ UNCHANGED signalQueue /\ lpc' = "publish" /\ lpc \notin {"publish", "enqueue"}
            /\ ~IsValid(raw')
        BY <2>5 DEF Detach, PublishEnd, Refreshing, driverVars, EndOfStream, IsValid
      <3> QED
        BY <1>4, <3>1 DEF Passes, decoderTaskVars, IsValid
    <2>6. CASE PublishBuffer
      BY <1>4, <2>6 DEF Publishes
    <2> QED
      BY <1>4, <2>2, <2>3, <2>4, <2>5, <2>6, Zenon DEF DeviceTaskStep, RefreshStep
  <1> QED
    BY <1>1, <1>2, <1>3, <1>4
       DEF Next, DeviceThread, DecoderThread, Decodes, User, Start, Stop, Pause, Resume, Switch, Ask, UserOnly,
           vars, driverVars, deviceTaskVars, decoderTaskVars

(* The decoder starts when nothing is on its way to it. *)
LEMMA StartingStep ==
  ASSUME Typed, Requests, Awaited, Starting, [Next]_vars
  PROVE  Starting'
  <1>0. logicSignalQueue \in Seq(Buffer) /\ raw \in Buffer
    BY DEF Typed, TypeOK, DecoderTaskTypeOK, DeviceTaskTypeOK
  <1> USE DEF Starting
  <1>1. CASE Passes
    BY <1>1 DEF Passes, NoData, IsValid
  <1>2. CASE Handles
    BY <1>2 DEF Handles, deviceTaskVars, decoderTaskVars, NoData, IsValid
  <1>3. CASE Publishes
    BY <1>3 DEF Publishes, PublishBuffer, decoderTaskVars, NoData, IsValid
  <1>4. CASE DeliverRaw
    BY <1>4 DEF DeliverRaw, RawOnly, NoData, IsValid
  <1>5. CASE EnqueueRaw
    <2>1. /\ UNCHANGED <<cpc, logicDecoderStatus, decoded>> /\ lpc = "enqueue" /\ lpc' = "published"
          /\ logicSignalQueue' = Append(logicSignalQueue, raw)
      BY <1>5 DEF EnqueueRaw, RawOnly
    <2>2. cpc = "starting" => NoData(logicSignalQueue')
      <3>1. /\ DOMAIN Append(logicSignalQueue, raw) = 1 .. Len(logicSignalQueue) + 1
            /\ Len(logicSignalQueue) \in Nat /\ DOMAIN logicSignalQueue = 1 .. Len(logicSignalQueue)
            /\ \A i \in 1 .. Len(logicSignalQueue) + 1 :
                 \/ i = Len(logicSignalQueue) + 1 /\ Append(logicSignalQueue, raw)[i] = raw
                 \/ i \in 1 .. Len(logicSignalQueue)
                      /\ Append(logicSignalQueue, raw)[i] = logicSignalQueue[i]
        BY <1>0
      <3> QED
        BY <2>1, <3>1 DEF NoData
    <2>3. NoData(logicSignalQueue)' <=> NoData(logicSignalQueue')
      BY DEF NoData
    <2> QED
      BY <2>1, <2>2, <2>3
  <1>6. CASE DecoderStarted
    <2>1. Still /\ ~Open
      BY <1>6 DEF DecoderStarted, StartDecoder, Awaited, Phase, Requests
    <2>2. /\ cpc' = "starting" /\ logicSignalQueue' = <<>> /\ decoded' = NoSamples
          /\ UNCHANGED <<logicDecoderStatus, lpc, raw>>
      BY <1>6 DEF DecoderStarted, StartDecoder
    <2>3. logicDecoderStatus = "Idle"
      BY <2>1 DEF Open, Typed, TypeOK, DecoderTaskTypeOK
    <2> QED
      BY <2>1, <2>2, <2>3 DEF Still, OnItsWay, NoData, IsValid
  <1>7. CASE Decodes
    BY <1>7 DEF Decodes, DecoderTaskStep, DecoderStreaming, DecodeBuffer, FinishDecoding, NothingToDecode
  <1> QED
    BY <1>1, <1>2, <1>3, <1>4, <1>5, <1>6, <1>7, Passages

(* It decodes nothing before its own stream has started. *)
LEMMA UnstartedStep ==
  ASSUME Typed, Hardware, Requests, Awaited, Ready, OfStream, Starting, Unstarted, [Next]_vars
  PROVE  Unstarted'
  <1>0. logicSignalQueue \in Seq(Buffer) /\ raw \in Buffer /\ driver \in Driver /\ driver.stream \in Nat
        /\ since \in Nat
    BY DEF Typed, TypeOK, DecoderTaskTypeOK, DeviceTaskTypeOK, DriverTypeOK, Driver
  <1> USE DEF Unstarted
  <1>1. CASE StartDevice
    <2>1. driver'.stream = driver.stream + 1
      BY <1>0, <1>1 DEF StartDevice, Begin, Driver
    <2>2. since' = since
      BY <1>1 DEF StartDevice, Accepted, Handling, Next, DeviceThread, DecoderThread, DecoderStarted, User,
         Start, Stop, Pause, Resume, Switch, Ask, UserOnly, Usb, Environment, DeliverRaw, RawOnly, EnqueueRaw, vars
    <2>3. since # driver'.stream
      BY <1>0, <2>1 DEF Requests
    <2> QED
      BY <2>2, <2>3
  <1>2. CASE driver'.stream = driver.stream
    <2>1. CASE UNCHANGED <<cpc, logicDecoderStatus, logicSignalQueue, decoded, since>>
      BY <1>2, <2>1 DEF Open, NoData, IsValid
    <2>2. CASE EnqueueRaw
      <3>1. /\ UNCHANGED <<cpc, logicDecoderStatus, decoded, since>> /\ lpc = "enqueue"
            /\ logicSignalQueue' = Append(logicSignalQueue, raw)
        BY <2>2 DEF EnqueueRaw, RawOnly
      <3>2. ASSUME Open, driver.stream = since PROVE NoData(logicSignalQueue')
        <4>1. ~IsValid(raw)
          BY <3>1, <3>2 DEF Awaited, Phase, Still, OnItsWay
        <4>2. /\ DOMAIN Append(logicSignalQueue, raw) = 1 .. Len(logicSignalQueue) + 1
              /\ Len(logicSignalQueue) \in Nat /\ DOMAIN logicSignalQueue = 1 .. Len(logicSignalQueue)
              /\ \A i \in 1 .. Len(logicSignalQueue) + 1 :
                   \/ i = Len(logicSignalQueue) + 1 /\ Append(logicSignalQueue, raw)[i] = raw
                   \/ i \in 1 .. Len(logicSignalQueue)
                        /\ Append(logicSignalQueue, raw)[i] = logicSignalQueue[i]
          BY <1>0
        <4> QED
          BY <3>1, <3>2, <4>1, <4>2 DEF NoData
      <3>3. NoData(logicSignalQueue)' <=> NoData(logicSignalQueue')
        BY DEF NoData
      <3> QED
        BY <1>2, <3>1, <3>2, <3>3 DEF Open
    <2>3. CASE DecoderStarted
      <3>1. logicSignalQueue' = <<>> /\ decoded' = NoSamples
        BY <2>3 DEF DecoderStarted, StartDecoder
      <3> QED
        BY <3>1 DEF NoData
    <2>4. CASE Decodes
      <3>1. CASE DecoderStreaming \/ NothingToDecode
        BY <1>2, <2>4, <3>1 DEF Decodes, DecoderStreaming, NothingToDecode, Open, NoData, Starting, IsValid
      <3>2. CASE DecodeBuffer
        <4>1. Open
          BY <3>2 DEF DecodeBuffer, Decoding, Open, Starting
        <4>2. logicSignalQueue # <<>> /\ IsValid(logicSignalQueue[1])
          BY <3>2 DEF DecodeBuffer
        <4>3. ~NoData(logicSignalQueue)
          <5>1. 1 \in DOMAIN logicSignalQueue
            BY <1>0, <4>2
          <5> QED
            BY <4>2, <5>1 DEF NoData
        <4> QED
          BY <1>2, <2>4, <4>1, <4>3 DEF Decodes
      <3>3. CASE FinishDecoding
        BY <3>3 DEF FinishDecoding, Open
      <3> QED
        BY <2>4, <3>1, <3>2, <3>3 DEF Decodes, DecoderTaskStep
    <2>5. CASE Passes \/ Handles \/ Publishes \/ DeliverRaw
      BY <2>1, <2>5 DEF Passes, Handles, Publishes, DeliverRaw, RawOnly, decoderTaskVars
    <2> QED
      BY <2>2, <2>3, <2>4, <2>5, Passages
  <1> QED
    BY <1>1, <1>2, Movements DEF Skips, Delivers, Keeps

(* What the proofs below need of the types. *)
LEMMA SamplesTyped ==
  ASSUME Typed
  PROVE  /\ driver \in Driver /\ driver.stream \in Nat /\ NextOffset \in Nat /\ NextSamples \in Samples
         /\ since \in Nat /\ decoded \in Samples /\ dropped \subseteq Samples
         /\ usb.samples \in Samples /\ raw \in Buffer /\ raw.samples \in Samples
         /\ signalQueue \in Seq(Buffer) /\ logicSignalQueue \in Seq(Buffer)
         /\ \A i \in DOMAIN signalQueue : signalQueue[i] \in Buffer /\ signalQueue[i].samples \in Samples
         /\ \A i \in DOMAIN logicSignalQueue :
              logicSignalQueue[i] \in Buffer /\ logicSignalQueue[i].samples \in Samples
  <1>1. /\ driver \in Driver /\ driver.stream \in Nat /\ driver.samples \in Nat
        /\ driver.partial \in BOOLEAN /\ since \in Nat /\ decoded \in Samples
        /\ dropped \subseteq Samples /\ raw \in Buffer
        /\ signalQueue \in Seq(Buffer) /\ logicSignalQueue \in Seq(Buffer)
    BY DEF Typed, TypeOK, DriverTypeOK, DeviceTaskTypeOK, DecoderTaskTypeOK, Driver
  <1>2. usb.samples \in Samples
    BY DEF Typed, TypeOK, DriverTypeOK
  <1>3. \A b \in Buffer : b.samples \in Samples
    BY DEF Buffer
  <1>4. NextOffset \in Nat
    BY <1>1 DEF NextOffset, Typed, Begun
  <1>5. NextSamples \in Samples
    BY <1>1, <1>4 DEF NextSamples, Samples
  <1>6. /\ \A i \in DOMAIN signalQueue : signalQueue[i] \in Buffer
        /\ \A i \in DOMAIN logicSignalQueue : logicSignalQueue[i] \in Buffer
    BY <1>1, ElementOfSeq
  <1> QED
    BY <1>1, <1>2, <1>3, <1>4, <1>5, <1>6

(* The start of a stream finds nothing of another on its way. *)
LEMMA StartSteps ==
  ASSUME Typed, Requests, Awaited, Unstarted, StartDevice, [Next]_vars
  PROVE  /\ Still /\ driver'.stream = driver.stream + 1
         /\ UNCHANGED <<usb, signalQueue, cpc, logicDecoderStatus, logicSignalQueue, decoded, since, dropped>>
         /\ ~OnItsWay'
         /\ Open => NoData(logicSignalQueue) /\ decoded = NoSamples
         /\ driver'.partial = FALSE
  <1>1. Asked("Start")
    <2>1. deviceCommands \in Seq(Command)
      BY DEF Typed, TypeOK, DeviceTaskTypeOK
    <2> QED
      BY <2>1, TakingOne DEF StartDevice, Accepted, Handling, Asked
  <1>2. Still
    BY <1>1 DEF Awaited, Phase
  <1>3. driver'.stream = driver.stream + 1 /\ driver'.partial = FALSE
    BY SamplesTyped DEF StartDevice, Begin, Driver
  <1>4. UNCHANGED <<usb, signalQueue, dropped>>
    BY DEF StartDevice, Begin
  <1>5. lpc = "command" /\ lpc' \in {"acquire", "report"}
    BY DEF StartDevice, Accepted, Handling
  <1>6. UNCHANGED <<cpc, logicDecoderStatus, logicSignalQueue, decoded, since>>
    BY <1>5 DEF Next, DeviceThread, DecoderThread, DecoderStarted, User, decoderTaskVars, deviceTaskVars,
         Start, Stop, Pause, Resume, Switch, Ask, UserOnly, Usb, Environment, DeliverRaw, RawOnly, EnqueueRaw, vars
  <1>7. Open => NoData(logicSignalQueue) /\ decoded = NoSamples
    BY <1>1 DEF Requests, Unstarted
  <1> QED
    BY <1>2, <1>3, <1>4, <1>5, <1>6, <1>7 DEF OnItsWay

(* What has come of the stream stays before what comes. *)
LEMMA EndMoves ==
  ASSUME Typed, Hardware, Ready, OfStream, [Next]_vars, NEW s \in Samples
  PROVE  /\ Behind(driver.stream, Linked, NextOffset, s)
              => Behind(driver'.stream, Linked', NextOffset', s)
         /\ ~StartDevice /\ At(driver.stream, Linked, NextOffset, s)
              => At(driver'.stream, Linked', NextOffset', s)
  <1>0. driver.stream \in Nat /\ NextOffset \in Nat /\ driver \in Driver
    BY SamplesTyped
  <1>1. CASE StartDevice
    <2>1. driver'.stream = driver.stream + 1
      BY <1>0, <1>1 DEF StartDevice, Begin, Driver
    <2> QED
      BY <1>0, <1>1, <2>1 DEF Behind, At, Samples
  <1>2. ASSUME ~StartDevice, Skips \/ Delivers \/ Keeps
        PROVE  /\ driver'.stream = driver.stream
               /\ Linked' => Linked
               /\ Linked' => NextOffset' \in {NextOffset, NextOffset + 1}
    BY <1>2, LinkStays DEF Skips, Delivers, Keeps
  <1>3. CASE ~StartDevice
    <2>1. /\ driver'.stream = driver.stream
          /\ Linked' => Linked
          /\ Linked' => NextOffset' = NextOffset \/ NextOffset' = NextOffset + 1
      BY <1>2, <1>3, Movements
    <2>2. s.offset \in Nat /\ s.stream \in Nat
      BY DEF Samples
    <2>3. At(driver.stream, Linked, NextOffset, s) => At(driver'.stream, Linked', NextOffset', s)
      <3>1. Linked' /\ s.offset < NextOffset => s.offset < NextOffset'
        BY <1>0, <2>1, <2>2
      <3> QED
        BY <2>1, <3>1 DEF At
    <2> QED
      BY <2>1, <2>3 DEF Behind
  <1> QED
    BY <1>1, <1>3

(* One stream at a time is on its way. *)
LEMMA BeforeStep ==
  ASSUME Typed, Hardware, Requests, Awaited, Ready, Starting, Unstarted, Before, [Next]_vars
  PROVE  Before'
  <1> DEFINE AtNow(s) == At(driver.stream, Linked, NextOffset, s)
             AtNext(s) == At(driver'.stream, Linked', NextOffset', s)
             BehindNow(s) == Behind(driver.stream, Linked, NextOffset, s)
             BehindNext(s) == Behind(driver'.stream, Linked', NextOffset', s)
  <1>0. OfStream
    BY DEF Before, OfStream
  <1>1. \A s \in Samples : BehindNow(s) => BehindNext(s)
    BY <1>0, EndMoves
  <1>2. ASSUME ~StartDevice PROVE \A s \in Samples : AtNow(s) => AtNext(s)
    BY <1>0, <1>2, EndMoves
  <1>3. OfStream'
    BY <1>0, BusStep
  <1>4. usb'.pc = "handler" => AtNext(usb'.samples)
    <2>1. CASE StartDevice
      BY <2>1, StartSteps DEF Still, Dead
    <2>2. CASE Skips
      BY <2>2 DEF Skips
    <2>3. CASE Delivers
      <3>1. usb'.samples.stream = driver.stream /\ usb'.samples.offset = NextOffset
        BY <2>3 DEF Delivers, NextSamples
      <3> QED
        BY <2>3, <3>1, SamplesTyped DEF Delivers, At
    <2>4. CASE Keeps /\ ~StartDevice
      <3>1. usb'.pc = "handler" => usb'.samples = usb.samples /\ AtNow(usb.samples)
        BY <2>4 DEF Keeps, Before
      <3> QED
        BY <1>2, <2>4, <3>1, SamplesTyped
    <2> QED
      BY <1>0, <2>1, <2>2, <2>3, <2>4, Movements
  <1>5. \A i \in DOMAIN signalQueue' : IsValid(signalQueue'[i]) /\ AtNext(signalQueue'[i].samples)
    <2>1. CASE StartDevice
      <3>1. signalQueue' = <<>>
        BY <2>1, StartSteps DEF Still
      <3> QED
        BY <3>1
    <2>2. ASSUME ~StartDevice
          PROVE  \A i \in DOMAIN signalQueue : IsValid(signalQueue[i]) /\ AtNext(signalQueue[i].samples)
      BY <1>2, <2>2, SamplesTyped DEF Before
    <2>3. CASE ~StartDevice /\ Handles
      <3> DEFINE buffer == Data(usb.samples.stream, usb.samples.offset)
      <3>1. buffer.samples = usb.samples /\ IsValid(buffer)
        BY SamplesTyped DEF Data, Samples, IsValid
      <3>2. AtNext(usb.samples)
        BY <1>2, <2>3, SamplesTyped DEF Before, Handles, Handle
      <3>3. signalQueue' = Append(signalQueue, buffer)
        BY <2>3 DEF Handles, Handle
      <3> HIDE DEF buffer
      <3>4. /\ DOMAIN Append(signalQueue, buffer) = 1 .. Len(signalQueue) + 1
            /\ Len(signalQueue) \in Nat /\ DOMAIN signalQueue = 1 .. Len(signalQueue)
            /\ \A i \in 1 .. Len(signalQueue) + 1 :
                 \/ i = Len(signalQueue) + 1 /\ Append(signalQueue, buffer)[i] = buffer
                 \/ i \in 1 .. Len(signalQueue) /\ Append(signalQueue, buffer)[i] = signalQueue[i]
        BY SamplesTyped
      <3> HIDE DEF AtNext
      <3> QED
        BY <2>2, <2>3, <3>1, <3>2, <3>3, <3>4
    <2>4. CASE ~StartDevice /\ Publishes
      <3>1. signalQueue # <<>> /\ signalQueue' = Tail(signalQueue)
        BY <2>4 DEF Publishes, PublishBuffer
      <3>2. /\ DOMAIN Tail(signalQueue) = 1 .. Len(signalQueue) - 1 /\ Len(signalQueue) \in Nat
            /\ DOMAIN signalQueue = 1 .. Len(signalQueue)
            /\ \A i \in 1 .. Len(signalQueue) - 1 :
                 Tail(signalQueue)[i] = signalQueue[i + 1] /\ i + 1 \in 1 .. Len(signalQueue)
        BY <3>1, SamplesTyped
      <3> HIDE DEF AtNext
      <3> QED
        BY <2>2, <2>4, <3>1, <3>2
    <2>5. CASE ~StartDevice /\ UNCHANGED signalQueue
      BY <2>2, <2>5
    <2> QED
      BY <2>1, <2>3, <2>4, <2>5, Passages
         DEF Passes, DeliverRaw, EnqueueRaw, RawOnly, DecoderStarted, Decodes, driverVars
  <1>6. OnItsWay' => AtNext(raw'.samples)
    <2>1. CASE StartDevice
      BY <2>1, StartSteps
    <2>2. ASSUME ~StartDevice, OnItsWay, UNCHANGED raw PROVE AtNext(raw'.samples)
      BY <1>2, <2>2, SamplesTyped DEF Before
    <2>3. CASE ~StartDevice /\ Publishes
      <3>1. signalQueue # <<>> /\ raw' = signalQueue[1]
        BY <2>3 DEF Publishes, PublishBuffer
      <3>2. 1 \in DOMAIN signalQueue
        BY <3>1, SamplesTyped
      <3> QED
        BY <1>2, <2>3, <3>1, <3>2, SamplesTyped DEF Before
    <2>4. CASE ~StartDevice /\ ~Publishes
      <3>1. OnItsWay' => OnItsWay /\ UNCHANGED raw
        BY <2>4, Passages DEF Passes, Handles, DeliverRaw, EnqueueRaw, RawOnly, DecoderStarted, Decodes,
                              deviceTaskVars, OnItsWay, IsValid
      <3> QED
        BY <2>2, <2>4, <3>1
    <2> QED
      BY <2>1, <2>3, <2>4
  <1>7. Open' => \A i \in DOMAIN logicSignalQueue' :
          IsValid(logicSignalQueue'[i]) => AtNext(logicSignalQueue'[i].samples)
    <2>1. CASE StartDevice
      <3>1. Open' = Open /\ logicSignalQueue' = logicSignalQueue
        BY <2>1, StartSteps DEF Open
      <3> QED
        BY <2>1, <3>1, StartSteps DEF NoData
    <2>2. ASSUME ~StartDevice, Open
          PROVE  \A i \in DOMAIN logicSignalQueue :
                   IsValid(logicSignalQueue[i]) => AtNext(logicSignalQueue[i].samples)
      BY <1>2, <2>2, SamplesTyped DEF Before
    <2>3. CASE DecoderStarted
      BY <2>3 DEF DecoderStarted, StartDecoder
    <2>4. CASE ~StartDevice /\ EnqueueRaw
      <3>1. /\ Open' = Open /\ lpc = "enqueue"
            /\ logicSignalQueue' = Append(logicSignalQueue, raw)
        BY <2>4 DEF EnqueueRaw, RawOnly, Open
      <3>2. IsValid(raw) => AtNext(raw.samples)
        BY <1>2, <2>4, <3>1, SamplesTyped DEF Before, OnItsWay
      <3>3. /\ DOMAIN Append(logicSignalQueue, raw) = 1 .. Len(logicSignalQueue) + 1
            /\ Len(logicSignalQueue) \in Nat /\ DOMAIN logicSignalQueue = 1 .. Len(logicSignalQueue)
            /\ \A i \in 1 .. Len(logicSignalQueue) + 1 :
                 \/ i = Len(logicSignalQueue) + 1 /\ Append(logicSignalQueue, raw)[i] = raw
                 \/ i \in 1 .. Len(logicSignalQueue)
                      /\ Append(logicSignalQueue, raw)[i] = logicSignalQueue[i]
        BY SamplesTyped
      <3> HIDE DEF AtNext
      <3> QED
        BY <2>2, <2>4, <3>1, <3>2, <3>3
    <2>5. CASE ~StartDevice /\ Decodes
      <3>1. Open' => Open
        BY <2>5 DEF Decodes, DecoderTaskStep, DecoderStreaming, DecodeBuffer, FinishDecoding, NothingToDecode,
                    Open
      <3>2. CASE UNCHANGED logicSignalQueue
        BY <2>2, <2>5, <3>1, <3>2
      <3>3. CASE logicSignalQueue # <<>> /\ logicSignalQueue' = Tail(logicSignalQueue)
        <4>1. /\ DOMAIN Tail(logicSignalQueue) = 1 .. Len(logicSignalQueue) - 1
              /\ Len(logicSignalQueue) \in Nat /\ DOMAIN logicSignalQueue = 1 .. Len(logicSignalQueue)
              /\ \A i \in 1 .. Len(logicSignalQueue) - 1 :
                   /\ Tail(logicSignalQueue)[i] = logicSignalQueue[i + 1]
                   /\ i + 1 \in 1 .. Len(logicSignalQueue)
          BY <3>3, SamplesTyped
        <4> HIDE DEF AtNext
        <4> QED
          BY <2>2, <2>5, <3>1, <3>3, <4>1
      <3> QED
        BY <2>5, <3>2, <3>3
           DEF Decodes, DecoderTaskStep, DecoderStreaming, DecodeBuffer, FinishDecoding, NothingToDecode
    <2>6. CASE ~StartDevice /\ UNCHANGED <<cpc, logicDecoderStatus, logicSignalQueue>>
      BY <2>2, <2>6 DEF Open
    <2> QED
      BY <2>1, <2>3, <2>4, <2>5, <2>6, Passages
         DEF Passes, Handles, Publishes, DeliverRaw, RawOnly, decoderTaskVars
  <1>8. IsFiniteSet(dropped') /\ \A d \in dropped' : BehindNext(d)
    <2>1. IsFiniteSet(dropped) /\ \A d \in dropped : BehindNext(d)
      BY <1>1, SamplesTyped DEF Before
    <2>2. CASE UNCHANGED dropped
      BY <2>1, <2>2
    <2>3. CASE Skips
      <3>1. dropped' = dropped \cup {NextSamples}
        BY <2>3 DEF Skips
      <3>2. IsFiniteSet(dropped')
        BY <2>1, <3>1, FS_AddElement
      <3>3. BehindNext(NextSamples)
        BY <2>3, SamplesTyped DEF Skips, Behind, At, NextSamples
      <3> HIDE DEF BehindNext
      <3> QED
        BY <2>1, <3>1, <3>2, <3>3
    <2> QED
      BY <1>0, <2>2, <2>3, Movements, StartSteps DEF Delivers, Keeps
  <1>9. decoded' # NoSamples => BehindNext(decoded')
    <2>1. CASE UNCHANGED decoded
      BY <1>1, <2>1, SamplesTyped DEF Before
    <2>2. CASE DecoderStarted
      BY <2>2 DEF DecoderStarted, StartDecoder
    <2>3. CASE Decodes /\ DecodeBuffer
      <3>1. Open
        BY <2>3 DEF DecodeBuffer, Decoding, Open, Starting
      <3>2. logicSignalQueue # <<>> /\ IsValid(logicSignalQueue[1]) /\ decoded' = logicSignalQueue[1].samples
        BY <2>3 DEF DecodeBuffer
      <3>3. 1 \in DOMAIN logicSignalQueue
        BY <3>2, SamplesTyped
      <3>4. BehindNow(decoded')
        BY <3>1, <3>2, <3>3 DEF Before, Behind
      <3> QED
        BY <1>1, <3>2, <3>3, <3>4, SamplesTyped
    <2> QED
      BY <2>1, <2>2, <2>3, Passages
         DEF Passes, Handles, Publishes, DeliverRaw, EnqueueRaw, RawOnly, Decodes, DecoderTaskStep,
             DecoderStreaming, FinishDecoding, NothingToDecode, decoderTaskVars
  <1> QED
    BY <1>3, <1>4, <1>5, <1>6, <1>7, <1>8, <1>9 DEF Before, OfStream

(* What was dropped comes before what comes next, ... *)
LEMMA NothingAhead ==
  ASSUME Typed, Before, Linked
  PROVE  \A d \in dropped : d.stream = driver.stream => d.offset < NextOffset
  <1>1. driver.stream \in Nat /\ \A d \in dropped : d.stream \in Nat
    BY SamplesTyped DEF Samples
  <1> QED
    BY <1>1 DEF Before, Behind, At

(* ... and so dropping the next samples moves the place of no others. *)
LEMMA SkippedGone ==
  ASSUME Typed, Before, Linked
  PROVE  /\ PlaceOf(dropped \cup {NextSamples}, [stream |-> driver.stream, offset |-> NextOffset + 1])
              = PlaceOf(dropped, NextSamples)
         /\ \A s \in Samples : s.stream # driver.stream \/ s.offset <= NextOffset =>
              PlaceOf(dropped \cup {NextSamples}, s) = PlaceOf(dropped, s)
  <1>1. IsFiniteSet(dropped) /\ dropped \subseteq Samples
    BY SamplesTyped DEF Before
  <1>2. ASSUME NEW stream \in Nat, NEW n \in Nat, \A d \in dropped : d.stream = stream => d.offset < n
        PROVE  /\ PlaceOf(dropped \cup {[stream |-> stream, offset |-> n]}, [stream |-> stream, offset |-> n + 1])
                    = PlaceOf(dropped, [stream |-> stream, offset |-> n])
               /\ \A s \in Samples : s.stream # stream \/ s.offset <= n =>
                    PlaceOf(dropped \cup {[stream |-> stream, offset |-> n]}, s) = PlaceOf(dropped, s)
    BY <1>1, <1>2, PlaceGone, SMT
  <1>3. driver.stream \in Nat /\ NextOffset \in Nat
    BY SamplesTyped
  <1> QED
    BY <1>2, <1>3, NothingAhead, Zenon DEF NextSamples

(* Samples that are dropped come after those that have passed, ... *)
LEMMA GoneMoves ==
  ASSUME Typed, Hardware, Ready, Before, [Next]_vars, NEW s \in Samples,
         Behind(driver.stream, Linked, NextOffset, s)
  PROVE  PlaceOf(dropped', s) = PlaceOf(dropped, s)
  <1>0. OfStream
    BY DEF Before, OfStream
  <1>1. CASE UNCHANGED dropped
    BY <1>1
  <1>2. CASE Skips
    <2>1. Linked /\ dropped' = dropped \cup {NextSamples}
      BY <1>2 DEF Skips, Linked
    <2>2. s.stream # driver.stream \/ s.offset <= NextOffset
      <3>1. driver.stream \in Nat /\ s.stream \in Nat /\ s.offset \in Nat /\ NextOffset \in Nat
        BY SamplesTyped DEF Samples
      <3> QED
        BY <2>1, <3>1 DEF Behind, At
    <2> QED
      BY <2>1, <2>2, SkippedGone
  <1>3. CASE StartDevice
    BY <1>1, <1>3 DEF StartDevice, Begin
  <1> QED
    BY <1>0, <1>1, <1>2, <1>3, Movements DEF Delivers, Keeps

(* ... and so what followed them there follows them still: out of the event  *)
(* thread, ...                                                               *)
LEMMA HeadDMoves ==
  ASSUME Typed, Hardware, Ready, Before, [Next]_vars, ~StartDevice, ~Handle, NEW s \in Samples,
         Behind(driver.stream, Linked, NextOffset, s), Linked'
  PROVE  Linked /\ (Follows(dropped, s, HeadD) => Follows(dropped', s, HeadD'))
  <1>0. OfStream
    BY DEF Before, OfStream
  <1>1. Linked
    BY LinkStays
  <1>2. CASE Keeps
    <2>1. HeadD' = HeadD
      <3>1. driver'.stream = driver.stream /\ NextOffset' = NextOffset
        BY <1>2 DEF Keeps
      <3>2. CASE usb.pc = "handler"
        BY <1>2, <3>2 DEF Keeps, HeadD
      <3>3. CASE usb.pc # "handler"
        BY <1>2, <3>1, <3>3 DEF Keeps, HeadD, NextSamples
      <3> QED
        BY <3>2, <3>3
    <2> QED
      BY <1>1, <1>2, <2>1 DEF Keeps
  <1>3. CASE Delivers
    BY <1>1, <1>3 DEF Delivers, HeadD
  <1>4. CASE Skips
    <2>1. HeadD = NextSamples /\ HeadD' = NextSamples'
      BY <1>4 DEF Skips, HeadD
    <2>2. NextSamples' = [stream |-> driver.stream, offset |-> NextOffset + 1]
      BY <1>4 DEF Skips, NextSamples
    <2>3. PlaceOf(dropped', s) = PlaceOf(dropped, s)
      BY GoneMoves
    <2>4. PlaceOf(dropped', NextSamples') = PlaceOf(dropped, NextSamples)
      <3>1. dropped' = dropped \cup {NextSamples}
        BY <1>4 DEF Skips
      <3> QED
        BY <1>1, <2>2, <3>1, SkippedGone
    <2>5. s.offset \in Nat /\ NextOffset \in Nat /\ (s.offset < NextOffset => s.offset < NextOffset + 1)
      BY SamplesTyped DEF Samples
    <2>6. /\ NextSamples.stream = driver.stream /\ NextSamples.offset = NextOffset
          /\ NextSamples'.stream = driver.stream /\ NextSamples'.offset = NextOffset + 1
      BY <2>2 DEF NextSamples
    <2> QED
      BY <1>1, <2>1, <2>3, <2>4, <2>5, <2>6 DEF Follows
  <1> QED
    BY <1>0, <1>2, <1>3, <1>4, Movements

(* ... of the queue of the receiver ... *)
LEMMA HeadQMoves ==
  ASSUME Typed, Hardware, Ready, Before, [Next]_vars, ~StartDevice, ~Publishes, NEW s \in Samples,
         Behind(driver.stream, Linked, NextOffset, s), MoreQ'
  PROVE  MoreQ /\ (Follows(dropped, s, HeadQ) => Follows(dropped', s, HeadQ'))
  <1>0. OfStream
    BY DEF Before, OfStream
  <1>1. CASE Handle
    <2> DEFINE buffer == Data(usb.samples.stream, usb.samples.offset)
    <2>1. usb.pc = "handler" /\ signalQueue' = Append(signalQueue, buffer)
      BY <1>1 DEF Handle
    <2>2. Linked /\ buffer.samples = usb.samples
      BY <2>1, SamplesTyped DEF Linked, Dead, Data, Samples
    <2> HIDE DEF buffer
    <2>3. signalQueue' # <<>> /\ signalQueue'[1] = IF signalQueue = <<>> THEN buffer ELSE signalQueue[1]
      BY <2>1, SamplesTyped
    <2>4. HeadQ' = HeadQ
      BY <2>1, <2>2, <2>3 DEF HeadQ, HeadD
    <2>5. UNCHANGED dropped
      BY <1>0, <2>1, Movements DEF Skips, Delivers, Keeps
    <2> QED
      BY <2>2, <2>4, <2>5 DEF MoreQ
  <1>2. CASE ~Handle
    <2>1. UNCHANGED signalQueue
      BY <1>2, Passages DEF Passes, Handles, DeliverRaw, EnqueueRaw, RawOnly, DecoderStarted, Decodes, driverVars
    <2>2. CASE signalQueue = <<>>
      BY <1>2, <2>1, <2>2, HeadDMoves DEF MoreQ, HeadQ
    <2>3. CASE signalQueue # <<>>
      <3>1. 1 \in DOMAIN signalQueue
        BY <2>3, SamplesTyped
      <3>2. /\ signalQueue[1].samples \in Samples
            /\ Behind(driver.stream, Linked, NextOffset, signalQueue[1].samples)
        BY <3>1, SamplesTyped DEF Before, Behind
      <3>3. /\ PlaceOf(dropped', signalQueue[1].samples) = PlaceOf(dropped, signalQueue[1].samples)
            /\ PlaceOf(dropped', s) = PlaceOf(dropped, s)
        BY <3>2, GoneMoves
      <3>4. HeadQ = signalQueue[1].samples /\ HeadQ' = signalQueue[1].samples
        BY <2>1, <2>3 DEF HeadQ
      <3> QED
        BY <2>3, <3>3, <3>4 DEF MoreQ, Follows
    <2> QED
      BY <2>2, <2>3
  <1> QED
    BY <1>1, <1>2

(* ... and of the subject it publishes to. *)
LEMMA HeadRMoves ==
  ASSUME Typed, Hardware, Ready, Before, Upstream, [Next]_vars, ~StartDevice, ~EnqueueRaw,
         DeliverRaw => logicDecoderStatus = "Streaming", NEW s \in Samples,
         Behind(driver.stream, Linked, NextOffset, s), MoreR'
  PROVE  MoreR /\ (Follows(dropped, s, HeadR) => Follows(dropped', s, HeadR'))
  <1>0. OfStream
    BY DEF Before, OfStream
  <1>1. CASE Publishes
    <2>1. /\ signalQueue # <<>> /\ raw' = signalQueue[1] /\ lpc = "queue" /\ lpc' = "publish"
          /\ UNCHANGED dropped
      BY <1>1 DEF Publishes, PublishBuffer
    <2>2. IsValid(signalQueue[1])
      <3>1. 1 \in DOMAIN signalQueue
        BY <2>1, SamplesTyped
      <3> QED
        BY <3>1 DEF Before
    <2>3. ~OnItsWay /\ OnItsWay'
      BY <2>1, <2>2 DEF OnItsWay, IsValid
    <2>4. HeadR = signalQueue[1].samples /\ HeadR' = signalQueue[1].samples
      BY <2>1, <2>3 DEF HeadR, HeadQ
    <2> QED
      BY <2>1, <2>4 DEF MoreR, MoreQ
  <1>2. CASE ~Publishes
    <2>1. OnItsWay' = OnItsWay /\ (OnItsWay => UNCHANGED raw)
      <3>1. CASE DeliverRaw
        BY <3>1 DEF DeliverRaw, RawOnly, OnItsWay, IsValid
      <3> QED
        BY <1>2, <3>1, Passages DEF Passes, Handles, DecoderStarted, Decodes, deviceTaskVars, OnItsWay, IsValid
    <2>2. CASE OnItsWay
      <3>1. HeadR = raw.samples /\ HeadR' = raw.samples
        BY <2>1, <2>2 DEF HeadR
      <3>2. raw.samples \in Samples /\ Behind(driver.stream, Linked, NextOffset, raw.samples)
        BY <2>2, SamplesTyped DEF Before, Behind
      <3>3. /\ PlaceOf(dropped', raw.samples) = PlaceOf(dropped, raw.samples)
            /\ PlaceOf(dropped', s) = PlaceOf(dropped, s)
        BY <3>2, GoneMoves
      <3> QED
        BY <2>2, <3>1, <3>3 DEF MoreR, Follows
    <2>3. CASE ~OnItsWay
      <3>1. MoreQ' /\ HeadR = HeadQ /\ HeadR' = HeadQ' /\ (MoreQ => MoreR)
        BY <2>1, <2>3 DEF MoreR, HeadR
      <3> QED
        BY <1>2, <3>1, HeadQMoves
    <2> QED
      BY <2>2, <2>3
  <1> QED
    BY <1>1, <1>2

(* What streamHandler does with the samples of the event thread. *)
LEMMA HandleStep ==
  ASSUME Typed, Hardware, Ready, OfStream, [Next]_vars, Handles
  PROVE  /\ usb.pc = "handler" /\ usb'.pc # "handler" /\ Linked /\ UNCHANGED dropped
         /\ signalQueue' = Append(signalQueue, Data(usb.samples.stream, usb.samples.offset))
         /\ Data(usb.samples.stream, usb.samples.offset).samples = usb.samples
         /\ Linked' => HeadD' = NextSamples
  <1>1. /\ usb.pc = "handler" /\ usb'.pc # "handler"
        /\ signalQueue' = Append(signalQueue, Data(usb.samples.stream, usb.samples.offset))
        /\ driver'.stream = driver.stream
    BY DEF Handles, Handle, Typed, TypeOK, DriverTypeOK
  <1>2. Linked
    BY <1>1 DEF Linked, Dead
  <1>3. Data(usb.samples.stream, usb.samples.offset).samples = usb.samples
    BY SamplesTyped DEF Data, Samples
  <1>4. Keeps
    <2>1. ~StartDevice
      BY <1>1 DEF StartDevice
    <2> QED
      BY <1>1, <2>1, Movements DEF Skips, Delivers
  <1>5. Linked' => HeadD' = NextSamples
    BY <1>1, <1>4 DEF Keeps, HeadD, NextSamples
  <1> QED
    BY <1>1, <1>2, <1>3, <1>4, <1>5 DEF Keeps

(* What processQueue does with those of signalQueue. *)
LEMMA PublishStep ==
  ASSUME Typed, Hardware, [Next]_vars, Publishes
  PROVE  /\ signalQueue # <<>> /\ signalQueue' = Tail(signalQueue) /\ raw' = signalQueue[1]
         /\ UNCHANGED dropped /\ HeadD' = HeadD /\ (Linked' => Linked)
  <1>1. /\ signalQueue # <<>> /\ signalQueue' = Tail(signalQueue) /\ raw' = signalQueue[1]
        /\ UNCHANGED <<driver, usb, dropped>> /\ lpc = "queue"
    BY DEF Publishes, PublishBuffer
  <1>2. ~StartDevice
    BY <1>1 DEF StartDevice, Accepted, Handling
  <1> QED
    BY <1>1, <1>2, LinkStays DEF HeadD, NextSamples, NextOffset

(* The samples stay in order up to the subject ... *)
LEMMA UpstreamStep ==
  ASSUME Typed, Hardware, Requests, Awaited, Ready, Unstarted, Before, Upstream, [Next]_vars
  PROVE  Upstream'
  <1>0. OfStream
    BY DEF Before, OfStream
  <1>1. CASE StartDevice
    <2>1. usb'.pc = "wait" /\ signalQueue' = <<>> /\ ~OnItsWay'
      BY <1>1, StartSteps DEF Still, Dead
    <2>2. \A gone, more, next : Line(gone, <<>>, more, next)
      BY DEF Line
    <2>3. Line(dropped, signalQueue, Linked, HeadD)' <=> Line(dropped', signalQueue', Linked', HeadD')
      OBVIOUS
    <2> QED
      BY <2>1, <2>2, <2>3 DEF Upstream
  <1>2. ASSUME usb'.pc = "handler", ~StartDevice PROVE Follows(dropped', usb'.samples, NextSamples')
    <2>1. CASE Skips
      BY <1>2, <2>1 DEF Skips
    <2>2. CASE Delivers
      <3>1. driver.stream \in Nat /\ NextOffset \in Nat /\ IsFiniteSet(dropped) /\ dropped \subseteq Samples
        BY SamplesTyped DEF Before
      <3>2. \A d \in dropped : d.stream = driver.stream => d.offset < NextOffset
        BY <2>2, NothingAhead DEF Delivers, Linked
      <3>3. NextSamples' = [stream |-> driver.stream, offset |-> NextOffset + 1]
        BY <2>2 DEF Delivers, NextSamples
      <3>4. Follows(dropped, [stream |-> driver.stream, offset |-> NextOffset],
                             [stream |-> driver.stream, offset |-> NextOffset + 1])
        BY <3>1, <3>2, PlaceAfter
      <3>5. usb'.samples = [stream |-> driver.stream, offset |-> NextOffset] /\ dropped' = dropped
        BY <2>2 DEF Delivers, NextSamples
      <3> QED
        BY <3>3, <3>4, <3>5
    <2>3. CASE Keeps
      <3>1. Linked'
        BY <1>2 DEF Linked, Dead
      <3> QED
        BY <1>2, <2>3, <3>1 DEF Keeps, Upstream, NextSamples
    <2> QED
      BY <1>0, <1>2, <2>1, <2>2, <2>3, Movements
  <1>3. ASSUME ~StartDevice PROVE Line(dropped', signalQueue', Linked', HeadD')
    <2>0. Line(dropped, signalQueue, Linked, HeadD)
      BY DEF Upstream
    <2>1. CASE Handles
      <3> DEFINE buffer == Data(usb.samples.stream, usb.samples.offset)
      <3>1. /\ usb.pc = "handler" /\ Linked /\ UNCHANGED dropped /\ buffer.samples = usb.samples
            /\ signalQueue' = Append(signalQueue, buffer) /\ (Linked' => HeadD' = NextSamples)
        BY <1>0, <2>1, HandleStep
      <3>2. buffer \in Buffer /\ IsValid(buffer)
        BY SamplesTyped, BuffersAreTyped DEF Data, IsValid, Samples
      <3> HIDE DEF buffer
      <3>3. Line(dropped, signalQueue, TRUE, buffer.samples)
        BY <2>0, <3>1 DEF Line, HeadD
      <3>4. Linked' => Follows(dropped, buffer.samples, HeadD')
        BY <3>1 DEF Upstream
      <3>5. Linked' \in BOOLEAN
        BY DEF Linked
      <3>6. Line(dropped, Append(signalQueue, buffer), Linked', HeadD')
        BY <3>2, <3>3, <3>4, <3>5, SamplesTyped, LineAppend
      <3> QED
        BY <3>1, <3>6
    <2>2. CASE Publishes
      <3>1. /\ signalQueue # <<>> /\ signalQueue' = Tail(signalQueue)
            /\ UNCHANGED dropped /\ HeadD' = HeadD /\ (Linked' => Linked)
        BY <2>2, PublishStep
      <3>2. Linked \in BOOLEAN
        BY DEF Linked
      <3>3. Line(dropped, Tail(signalQueue), Linked, HeadD)
        BY <2>0, <3>1, <3>2, SamplesTyped, LineTail
      <3> QED
        BY <3>1, <3>3 DEF Line
    <2>3. CASE ~Handles /\ ~Publishes
      <3>1. UNCHANGED signalQueue /\ ~Handle
        <4>1. UNCHANGED signalQueue
          BY <2>3, Passages DEF Passes, DeliverRaw, EnqueueRaw, RawOnly, DecoderStarted, Decodes, driverVars
        <4>2. Handle => signalQueue' # signalQueue
          <5>1. \A buffer : Len(Append(signalQueue, buffer)) # Len(signalQueue)
            BY SamplesTyped
          <5> QED
            BY <5>1 DEF Handle
        <4> QED
          BY <4>1, <4>2
      <3>2. \A i \in 1 .. Len(signalQueue) :
              /\ signalQueue[i].samples \in Samples
              /\ Behind(driver.stream, Linked, NextOffset, signalQueue[i].samples)
        BY SamplesTyped DEF Before, Behind
      <3>3. \A i \in 1 .. Len(signalQueue) :
              PlaceOf(dropped', signalQueue[i].samples) = PlaceOf(dropped, signalQueue[i].samples)
        BY <3>2, GoneMoves
      <3>4. ASSUME signalQueue # <<>>, Linked'
            PROVE  /\ Linked
                   /\ Follows(dropped, signalQueue[Len(signalQueue)].samples, HeadD)
                        => Follows(dropped', signalQueue[Len(signalQueue)].samples, HeadD')
        <4>1. Len(signalQueue) \in 1 .. Len(signalQueue)
          BY <3>4, SamplesTyped
        <4> QED
          BY <1>3, <3>1, <3>2, <3>4, <4>1, HeadDMoves
      <3>5. Line(dropped', signalQueue, Linked', HeadD')
        BY <2>0, <3>3, <3>4, SamplesTyped, LineMoves
      <3> QED
        BY <3>1, <3>5
    <2> QED
      BY <2>1, <2>2, <2>3
  <1>4. ASSUME OnItsWay', MoreQ', ~StartDevice PROVE Follows(dropped', raw'.samples, HeadQ')
    <2>1. CASE Publishes
      <3>1. /\ signalQueue # <<>> /\ signalQueue' = Tail(signalQueue) /\ raw' = signalQueue[1]
            /\ UNCHANGED dropped /\ HeadD' = HeadD /\ (Linked' => Linked)
        BY <2>1, PublishStep
      <3>2. Linked \in BOOLEAN
        BY DEF Linked
      <3>3. /\ Line(dropped, signalQueue, Linked, HeadD) /\ IsValid(signalQueue[1])
            /\ Tail(signalQueue) # <<>> => IsValid(Tail(signalQueue)[1])
        <4>1. /\ 1 \in DOMAIN signalQueue
              /\ Tail(signalQueue) # <<>> => 2 \in DOMAIN signalQueue /\ Tail(signalQueue)[1] = signalQueue[2]
          BY <3>1, SamplesTyped
        <4> QED
          BY <4>1 DEF Before, Upstream
      <3>4. /\ Tail(signalQueue) # <<>> =>
                 Follows(dropped, signalQueue[1].samples, Tail(signalQueue)[1].samples)
            /\ Tail(signalQueue) = <<>> /\ Linked => Follows(dropped, signalQueue[1].samples, HeadD)
        BY <3>1, <3>2, <3>3, SamplesTyped, LineTail
      <3> QED
        BY <1>4, <3>1, <3>4 DEF MoreQ, HeadQ
    <2>2. CASE ~Publishes
      <3>1. OnItsWay /\ UNCHANGED raw
        BY <1>4, <2>2, Passages DEF Passes, Handles, DeliverRaw, EnqueueRaw, RawOnly, DecoderStarted, Decodes,
                              deviceTaskVars, OnItsWay, IsValid
      <3>2. raw.samples \in Samples /\ Behind(driver.stream, Linked, NextOffset, raw.samples)
        BY <3>1, SamplesTyped DEF Before, Behind
      <3>3. MoreQ /\ (Follows(dropped, raw.samples, HeadQ) => Follows(dropped', raw.samples, HeadQ'))
        BY <1>4, <2>2, <3>2, HeadQMoves
      <3> QED
        BY <3>1, <3>3 DEF Upstream
    <2> QED
      BY <2>1, <2>2
  <1>5. CASE ~StartDevice
    <2>1. Line(dropped, signalQueue, Linked, HeadD)' <=> Line(dropped', signalQueue', Linked', HeadD')
      OBVIOUS
    <2> QED
      BY <1>2, <1>3, <1>4, <1>5, <2>1 DEF Upstream
  <1> QED
    BY <1>1, <1>5

(* Without data a queue is in order. *)
LEMMA NothingLined ==
  ASSUME NEW queue \in Seq(Buffer), NoData(queue), NEW gone, NEW more, NEW next
  PROVE  Line(gone, queue, more, next) /\ (queue # <<>> => ~IsValid(queue[1]))
  <1>1. /\ Len(queue) \in Nat /\ DOMAIN queue = 1 .. Len(queue)
        /\ queue # <<>> => 1 \in DOMAIN queue /\ Len(queue) \in DOMAIN queue
        /\ \A i \in 1 .. Len(queue) - 1 : i \in 1 .. Len(queue)
    OBVIOUS
  <1> QED
    BY <1>1 DEF Line, NoData

(* ... and down to the decoder. *)
LEMMA DownstreamStep ==
  ASSUME Typed, Hardware, Requests, Awaited, Ready, Starting, Unstarted, Before, Upstream, Downstream,
         [Next]_vars
  PROVE  Downstream'
  <1> DEFINE Follower(gone, last, queue, more, head) ==
        last # NoSamples =>
          /\ queue # <<>> /\ IsValid(queue[1]) => Follows(gone, last, queue[1].samples)
          /\ queue = <<>> /\ more => Follows(gone, last, head)
  <1> SUFFICES ASSUME Open'
               PROVE  /\ Line(dropped', logicSignalQueue', MoreR', HeadR')
                      /\ Follower(dropped', decoded', logicSignalQueue', MoreR', HeadR')
    BY DEF Downstream
  <1>0. OfStream /\ logicSignalQueue \in Seq(Buffer)
    BY SamplesTyped DEF Before, OfStream
  <1>1. ASSUME NoData(logicSignalQueue), decoded = NoSamples, UNCHANGED <<logicSignalQueue, decoded>>
        PROVE  /\ Line(dropped', logicSignalQueue', MoreR', HeadR')
               /\ Follower(dropped', decoded', logicSignalQueue', MoreR', HeadR')
    BY <1>0, <1>1, NothingLined
  <1>2. CASE StartDevice
    <2>1. Open
      BY <1>2, StartSteps DEF Open
    <2> QED
      BY <1>1, <1>2, <2>1, StartSteps
  <1>3. CASE DecoderStarted
    <2>1. logicSignalQueue' = <<>> /\ decoded' = NoSamples
      BY <1>3 DEF DecoderStarted, StartDecoder
    <2> QED
      BY <2>1 DEF Line
  <1>4. ASSUME Open
        PROVE  /\ Line(dropped, logicSignalQueue, MoreR, HeadR)
               /\ Follower(dropped, decoded, logicSignalQueue, MoreR, HeadR)
    BY <1>4 DEF Downstream
  <1>5. CASE EnqueueRaw /\ ~StartDevice
    <2>1. /\ Open /\ lpc = "enqueue" /\ lpc' = "published"
          /\ logicSignalQueue' = Append(logicSignalQueue, raw) /\ UNCHANGED <<decoded, dropped>>
      BY <1>5 DEF EnqueueRaw, RawOnly, Open, driverVars
    <2>2. ~OnItsWay' /\ (OnItsWay <=> IsValid(raw)) /\ ~Publishes
      BY <2>1 DEF OnItsWay, Publishes, PublishBuffer
    <2>3. HeadR' = HeadQ' /\ (MoreR' => MoreQ')
      BY <2>2 DEF HeadR, MoreR
    <2>4. raw \in Buffer
      BY SamplesTyped
    <2>5. MoreR' \in BOOLEAN
      BY DEF MoreR
    <2>6. /\ logicSignalQueue' # <<>>
          /\ logicSignalQueue'[1] = IF logicSignalQueue = <<>> THEN raw ELSE logicSignalQueue[1]
      BY <1>0, <2>1, <2>4
    <2>7. CASE ~IsValid(raw)
      <3>1. Line(dropped, Append(logicSignalQueue, raw), MoreR', HeadR')
        BY <1>0, <1>4, <2>1, <2>4, <2>5, <2>7, LineAppend
      <3>2. Follower(dropped', decoded', logicSignalQueue', MoreR', HeadR')
        BY <1>4, <2>1, <2>6, <2>7
      <3> QED
        BY <2>1, <3>1, <3>2
    <2>8. CASE IsValid(raw)
      <3>1. MoreR /\ HeadR = raw.samples
        BY <2>2, <2>8 DEF MoreR, HeadR
      <3>2. raw.samples \in Samples /\ Behind(driver.stream, Linked, NextOffset, raw.samples)
        BY <2>2, <2>8, SamplesTyped DEF Before, Behind
      <3>3. MoreQ' => MoreQ /\ (Follows(dropped, raw.samples, HeadQ) => Follows(dropped', raw.samples, HeadQ'))
        BY <1>5, <2>2, <3>2, HeadQMoves
      <3>4. MoreR' => Follows(dropped, raw.samples, HeadR')
        BY <2>1, <2>2, <2>3, <2>8, <3>3 DEF Upstream
      <3>5. Line(dropped, logicSignalQueue, TRUE, raw.samples)
        BY <1>4, <2>1, <3>1 DEF Line
      <3>6. Line(dropped, Append(logicSignalQueue, raw), MoreR', HeadR')
        BY <1>0, <2>4, <2>5, <2>8, <3>4, <3>5, LineAppend
      <3>7. Follower(dropped', decoded', logicSignalQueue', MoreR', HeadR')
        BY <1>4, <2>1, <2>6, <3>1
      <3> QED
        BY <2>1, <3>6, <3>7
    <2> QED
      BY <2>7, <2>8
  <1>6. CASE DeliverRaw /\ logicDecoderStatus # "Streaming"
    <2>1. Open /\ UNCHANGED <<logicSignalQueue, decoded>>
      BY <1>6 DEF DeliverRaw, RawOnly, Open
    <2>2. NoData(logicSignalQueue) /\ decoded = NoSamples
      BY <1>6, <2>1 DEF Open, Starting
    <2> QED
      BY <1>1, <2>1, <2>2
  <1>7. CASE Decodes /\ DecodeBuffer
    <2>1. /\ logicSignalQueue # <<>> /\ IsValid(logicSignalQueue[1])
          /\ logicSignalQueue' = Tail(logicSignalQueue) /\ decoded' = logicSignalQueue[1].samples
          /\ Open
      BY <1>7 DEF DecodeBuffer, Decoding, Open, Starting
    <2>2. UNCHANGED <<dropped, MoreR, HeadR>>
      BY <1>7 DEF Decodes, driverVars, deviceTaskVars, MoreR, HeadR, MoreQ, HeadQ, HeadD, OnItsWay, IsValid,
                  Linked, Dead, NextSamples, NextOffset
    <2>3. MoreR \in BOOLEAN
      BY DEF MoreR
    <2>4. /\ Line(dropped, Tail(logicSignalQueue), MoreR, HeadR)
          /\ Tail(logicSignalQueue) # <<>> /\ IsValid(Tail(logicSignalQueue)[1])
               => Follows(dropped, logicSignalQueue[1].samples, Tail(logicSignalQueue)[1].samples)
          /\ Tail(logicSignalQueue) = <<>> /\ MoreR => Follows(dropped, logicSignalQueue[1].samples, HeadR)
      BY <1>0, <1>4, <2>1, <2>3, LineTail
    <2> QED
      BY <2>1, <2>2, <2>4
  <1>8. ASSUME Open, UNCHANGED <<logicSignalQueue, decoded>>, ~StartDevice, ~EnqueueRaw,
               DeliverRaw => logicDecoderStatus = "Streaming"
        PROVE  /\ Line(dropped', logicSignalQueue', MoreR', HeadR')
               /\ Follower(dropped', decoded', logicSignalQueue', MoreR', HeadR')
    <2>1. \A i \in 1 .. Len(logicSignalQueue) : IsValid(logicSignalQueue[i]) =>
            /\ logicSignalQueue[i].samples \in Samples
            /\ Behind(driver.stream, Linked, NextOffset, logicSignalQueue[i].samples)
      BY <1>8, SamplesTyped DEF Before, Behind
    <2>2. \A i \in 1 .. Len(logicSignalQueue) : IsValid(logicSignalQueue[i]) =>
            PlaceOf(dropped', logicSignalQueue[i].samples) = PlaceOf(dropped, logicSignalQueue[i].samples)
      BY <2>1, GoneMoves
    <2>3. logicSignalQueue # <<>> =>
            1 \in 1 .. Len(logicSignalQueue) /\ Len(logicSignalQueue) \in 1 .. Len(logicSignalQueue)
      BY <1>0
    <2>4. ASSUME logicSignalQueue # <<>>, IsValid(logicSignalQueue[Len(logicSignalQueue)]), MoreR'
          PROVE  /\ MoreR
                 /\ Follows(dropped, logicSignalQueue[Len(logicSignalQueue)].samples, HeadR)
                      => Follows(dropped', logicSignalQueue[Len(logicSignalQueue)].samples, HeadR')
      BY <1>8, <2>1, <2>3, <2>4, HeadRMoves
    <2>5. Line(dropped', logicSignalQueue, MoreR', HeadR')
      BY <1>0, <1>4, <1>8, <2>2, <2>4, LineMoves
    <2>6. ASSUME decoded # NoSamples
          PROVE  /\ decoded \in Samples /\ Behind(driver.stream, Linked, NextOffset, decoded)
                 /\ PlaceOf(dropped', decoded) = PlaceOf(dropped, decoded)
      <3>1. decoded \in Samples /\ Behind(driver.stream, Linked, NextOffset, decoded)
        BY <2>6, SamplesTyped DEF Before
      <3> QED
        BY <3>1, GoneMoves
    <2>7. ASSUME decoded # NoSamples, logicSignalQueue # <<>>, IsValid(logicSignalQueue[1])
          PROVE  Follows(dropped', decoded, logicSignalQueue[1].samples)
      <3>1. Follows(dropped, decoded, logicSignalQueue[1].samples)
        BY <1>4, <1>8, <2>7
      <3> QED
        BY <2>2, <2>3, <2>6, <2>7, <3>1 DEF Follows
    <2>8. ASSUME decoded # NoSamples, logicSignalQueue = <<>>, MoreR'
          PROVE  Follows(dropped', decoded, HeadR')
      <3>1. MoreR /\ (Follows(dropped, decoded, HeadR) => Follows(dropped', decoded, HeadR'))
        BY <1>8, <2>6, <2>8, HeadRMoves
      <3> QED
        BY <1>4, <1>8, <2>8, <3>1
    <2> QED
      BY <1>8, <2>5, <2>7, <2>8
  <1>9. CASE Decodes /\ ~DecodeBuffer
    <2>1. Open /\ UNCHANGED <<logicSignalQueue, decoded>>
      BY <1>9 DEF Decodes, DecoderTaskStep, DecoderStreaming, FinishDecoding, NothingToDecode, Open, Starting
    <2>2. ~StartDevice /\ ~EnqueueRaw /\ ~DeliverRaw
      BY <1>9 DEF Decodes, deviceTaskVars, StartDevice, Accepted, Handling, EnqueueRaw, DeliverRaw
    <2> QED
      BY <1>8, <2>1, <2>2
  <1>10. CASE Passes \/ Handles \/ Publishes \/ DeliverRaw
    <2>1. Open /\ UNCHANGED <<logicSignalQueue, decoded>>
      BY <1>10 DEF Passes, Handles, Publishes, DeliverRaw, RawOnly, decoderTaskVars, Open
    <2> QED
      BY <1>2, <1>5, <1>6, <1>8, <2>1
  <1> QED
    BY <1>2, <1>3, <1>5, <1>7, <1>9, <1>10, Passages

(* the order of the samples, which Inv keeps inductive *)
Order == Starting /\ Unstarted /\ Before /\ Upstream /\ Downstream

(* It holds in every behaviour. *)
LEMMA OrderInvariance ==
  ASSUME Waits, Transfers > 1
  PROVE  Spec => []Order
  <1>1. Init => Order
    <2> SUFFICES ASSUME Init PROVE Order
      OBVIOUS
    <2>1. /\ bus = <<>> /\ usb.pc = "wait" /\ signalQueue = <<>> /\ dropped = {} /\ lpc = "command"
          /\ cpc = "command" /\ logicDecoderStatus = "Idle" /\ logicSignalQueue = <<>> /\ decoded = NoSamples
      BY DEF Init, DriverInit, DeviceTaskInit, DecoderTaskInit
    <2>2. IsFiniteSet(dropped)
      BY <2>1, FS_EmptySet
    <2>3. Line(dropped, signalQueue, Linked, HeadD)
      BY <2>1 DEF Line
    <2> QED
      BY <2>1, <2>2, <2>3 DEF Order, Starting, Unstarted, Before, Upstream, Downstream, Open, OnItsWay
  <1>2. Inv /\ Order /\ [Next]_vars => Order'
    <2> SUFFICES ASSUME Inv, Order, [Next]_vars PROVE Order'
      OBVIOUS
    <2>1. Ready
      BY DEF Inv, Ready, Requests, Awaited, Phase, Still, Dead
    <2>2. OfStream
      BY DEF Order, Before, OfStream
    <2> QED
      BY <2>1, <2>2, StartingStep, UnstartedStep, BeforeStep, UpstreamStep, DownstreamStep DEF Inv, Order
  <1> QED
    BY <1>1, <1>2, Invariance, PTL DEF Spec

(* what the refinement mapping shows of the samples decoded last *)
Last == IF decoded = NoSamples THEN NoSamples ELSE Position(decoded)

(* The position of samples is their place in their stream. *)
LEMMA PositionIs ==
  ASSUME NEW s \in Samples
  PROVE  Position(s) = [stream |-> s.stream, offset |-> PlaceOf(dropped, s)]
  BY DEF Position, PlaceOf, Samples

(* It changes only when the decoder decodes. *)
LEMMA LastStays ==
  ASSUME Inv, Order, [Next]_vars, UNCHANGED decoded
  PROVE  Last' = Last
  <1>1. CASE decoded = NoSamples
    BY <1>1 DEF Last
  <1>2. CASE decoded # NoSamples
    <2>1. decoded \in Samples /\ Behind(driver.stream, Linked, NextOffset, decoded)
      BY <1>2, SamplesTyped DEF Inv, Order, Before
    <2>2. Ready
      BY DEF Inv, Ready, Requests, Awaited, Phase, Still, Dead
    <2>3. PlaceOf(dropped', decoded) = PlaceOf(dropped, decoded)
      BY <2>1, <2>2, GoneMoves DEF Inv, Order
    <2>4. Position(decoded)' = [stream |-> decoded'.stream, offset |-> PlaceOf(dropped', decoded')]
      BY <2>1, SamplesTyped DEF Position, PlaceOf, Samples
    <2>5. Position(decoded) = [stream |-> decoded.stream, offset |-> PlaceOf(dropped, decoded)]
      BY <2>1, PositionIs
    <2> QED
      BY <1>2, <2>3, <2>4, <2>5 DEF Last
  <1> QED
    BY <1>1, <1>2

(* Every step begins, decodes or ends a session as promised, or is none of it. *)
LEMMA SessionStep ==
  ASSUME Inv, Order, [Next]_vars
  PROVE  [Session!Next]_<<Open, since, Last>>
  <1>1. CASE DecoderStarted
    <2>1. Open' /\ since' = driver.stream /\ decoded' = NoSamples
      BY <1>1 DEF DecoderStarted, StartDecoder, Open
    <2>2. since' \in Nat /\ since' >= since
      BY <2>1, SamplesTyped DEF Inv, Requests
    <2> QED
      BY <2>1, <2>2 DEF Session!Next, Session!Begin, Session!NoSamples, NoSamples, Open, Last
  <1>2. CASE Decodes /\ DecodeBuffer
    <2> DEFINE head == logicSignalQueue[1].samples
    <2>1. /\ logicSignalQueue # <<>> /\ IsValid(logicSignalQueue[1]) /\ decoded' = head
          /\ UNCHANGED <<logicDecoderStatus, since, dropped>> /\ logicDecoderStatus = "Streaming"
      BY <1>2 DEF Decodes, DecodeBuffer, Decoding, driverVars, Order, Starting
    <2>2. Open /\ Open'
      BY <2>1 DEF Open
    <2>3. 1 \in DOMAIN logicSignalQueue /\ head \in Samples
      BY <2>1, SamplesTyped DEF Inv
    <2>4. head.stream = driver.stream
      BY <2>1, <2>2, <2>3 DEF Order, Before, At
    <2>5. driver.stream > since
      <3>1. driver.stream # since
        BY <2>1, <2>2, <2>3 DEF Order, Unstarted, NoData
      <3>2. driver.stream \in Nat /\ since \in Nat /\ since <= driver.stream
        BY SamplesTyped DEF Inv, Requests
      <3> QED
        BY <3>1, <3>2
    <2>6. head # NoSamples
      <3>1. driver.stream # 0
        BY <2>5, SamplesTyped DEF Inv
      <3> QED
        BY <2>4, <3>1 DEF NoSamples
    <2>7. Last' = [stream |-> head.stream, offset |-> PlaceOf(dropped, head)]
      <3>1. Position(head) = [stream |-> head.stream, offset |-> PlaceOf(dropped, head)]
        BY <2>3, PositionIs
      <3>2. Position(decoded)' = Position(head)
        BY <2>1 DEF Position
      <3> QED
        BY <2>1, <2>6, <3>1, <3>2 DEF Last
    <2>8. ASSUME Last # NoSamples
          PROVE  Last' = [Last EXCEPT !.offset = @ + 1]
      <3>1. decoded # NoSamples
        BY <2>8 DEF Last
      <3>2. Follows(dropped, decoded, head)
        BY <2>1, <2>2, <3>1 DEF Order, Downstream
      <3>3. Last = [stream |-> decoded.stream, offset |-> PlaceOf(dropped, decoded)]
        BY <3>1, PositionIs, SamplesTyped DEF Inv, Last
      <3> QED
        BY <2>7, <3>2, <3>3 DEF Follows
    <2>9. Last'.stream > since
      BY <2>4, <2>5, <2>7
    <2> QED
      BY <2>1, <2>2, <2>8, <2>9 DEF Session!Next, Session!Decode, Session!NoSamples, NoSamples, Open, Last
  <1>3. CASE Decodes /\ FinishDecoding
    <2>1. /\ logicDecoderStatus = "Streaming" /\ logicDecoderStatus' = "Idle" /\ cpc' = "command"
          /\ UNCHANGED <<decoded, since>>
      BY <1>3 DEF Decodes, FinishDecoding, Decoding, Order, Starting
    <2>2. Open /\ ~Open'
      BY <2>1 DEF Open
    <2>3. Last' = Last
      BY <2>1, LastStays
    <2> QED
      BY <2>1, <2>2, <2>3 DEF Session!Next, Session!End, Open, Last
  <1>4. ASSUME UNCHANGED <<decoded, since>>, Open' = Open PROVE UNCHANGED <<Open, since, Last>>
    BY <1>4, LastStays
  <1>5. CASE Decodes /\ (DecoderStreaming \/ NothingToDecode)
    BY <1>4, <1>5 DEF Decodes, DecoderStreaming, NothingToDecode, Open, Order, Starting
  <1>6. CASE Passes \/ Handles \/ Publishes \/ DeliverRaw \/ EnqueueRaw
    BY <1>4, <1>6 DEF Passes, Handles, Publishes, DeliverRaw, EnqueueRaw, RawOnly, decoderTaskVars, Open
  <1>7. Typed
    BY DEF Inv
  <1> QED
    BY <1>1, <1>2, <1>3, <1>5, <1>6, <1>7, Passages DEF Decodes, DecoderTaskStep

(* The logic decoder refines CaptureSession: between a start and the end of  *)
(* the stream signalDecode is given samples of one stream, started after the *)
(* decoder was, in order and without a gap but for what resume() has dropped. *)
THEOREM DecodesInOrder ==
  ASSUME Waits, Transfers > 1
  PROVE  Spec => ImplementsSession
  <1>1. Init => Session!Init
    BY DEF Init, DecoderTaskInit, Session!Init, Session!NoSamples, NoSamples
  <1>2. Inv /\ Order /\ [Next]_vars => [Session!Next]_<<Open, since, Last>>
    BY SessionStep
  <1> QED
    BY <1>1, <1>2, Invariance, OrderInvariance, PTL
       DEF Spec, ImplementsSession, Session!Spec, Open, Last
=================================================================================
