------------------------------ MODULE DSLogicDevice ------------------------------
(***************************************************************************)
(* The driver hw::logic::DSLogicDevice on hw::Usb: the logic analyser, the *)
(* transfers submitted to its one endpoint and the event thread of libusb, *)
(* which runs the callback of each transfer that comes back.  The methods  *)
(* run on the thread of LogicDeviceTask; deviceStatus is shared by the two *)
(* threads without a lock.  A transfer completes at most one buffer, and   *)
(* may begin one that the next transfer completes.  libusb is external:    *)
(* transfers of the endpoint are filled in the order of their submission.  *)
(***************************************************************************)
EXTENDS SignalBuffer, Integers, Sequences

CONSTANTS
  Transfers,   (* totalTransfers(): data transfers of a stream              *)
  MaxBuffers,  (* bound: transfers a stream fills                           *)
  Rests        (* transfers end within a buffer, or only with one           *)

ASSUME DSLogicAssumption ==
  Transfers \in Nat \ {0} /\ MaxBuffers \in Nat /\ Rests \subseteq BOOLEAN

VARIABLES
  plugged,     (* the analyser is on the bus                                *)
  driver,      (* the driver object; not open means the task has none       *)
  fpga,        (* the analyser: it runs, it owes the header, samples sent   *)
  bus,         (* transfers in flight, in the order of submission           *)
  usb,         (* the event thread: the callback it runs, and its buffer    *)
  signalQueue, (* LogicDeviceTask: buffers the stream handler has added     *)
  dropped      (* history: samples a resume has thrown away                 *)

driverVars == <<plugged, driver, fpga, bus, usb, signalQueue, dropped>>

(* ABORT needs a handler that refuses a buffer, which the task's never does *)
DeviceStatus == {"ERROR", "READY", "INIT", "START", "DATA", "STOP", "PAUSE"}

(* attached: the handle reaches the analyser; samples: currentSamples;       *)
(* partial: buffer holds the begun one, which currentSamples counts          *)
Driver == [open : BOOLEAN, attached : BOOLEAN, status : DeviceStatus,
           stream : Nat, samples : Nat, partial : BOOLEAN]

(* stream: the one it was submitted for *)
Transfer == [kind : {"header", "data"}, stream : Nat, cancelled : BOOLEAN]

DriverTypeOK ==
  /\ plugged \in BOOLEAN
  /\ driver \in Driver
  /\ fpga \in [state : {"off", "armed", "runs"}, header : BOOLEAN, sent : Nat]
  /\ bus \in Seq(Transfer)
  /\ usb \in [pc : {"wait", "headerOK", "headerBad", "handler", "resend"}, samples : Samples]
  /\ signalQueue \in Seq(Buffer)
  /\ dropped \subseteq Samples

Opened(stream) ==
  [open |-> TRUE, attached |-> TRUE, status |-> "READY", stream |-> stream, samples |-> 0,
   partial |-> FALSE]

DriverInit ==
  /\ plugged = TRUE
  /\ driver = Opened(0)
  /\ fpga = [state |-> "off", header |-> FALSE, sent |-> 0]
  /\ bus = <<>>
  /\ usb = [pc |-> "wait", samples |-> NoSamples]
  /\ signalQueue = <<>>
  /\ dropped = {}

IsPaused == driver.status = "PAUSE"
IsStreaming == driver.status \in {"START", "DATA"}

(* isReady: not in error, and the firmware version can be read *)
IsReady == driver.status # "ERROR" /\ driver.attached

-----------------------------------------------------------------------------
(* Methods *)

Submitted(kind, stream) == [kind |-> kind, stream |-> stream, cancelled |-> FALSE]

(* changed: the header transfer is the last one *)
BeginTransfersHeaderLast(stream) ==
  bus \o [i \in 1..Transfers |-> Submitted("data", stream)] \o <<Submitted("header", stream)>>

(* beginTransfers: one for the header of the stream, and then the data *)
BeginTransfers(stream) ==
  bus \o <<Submitted("header", stream)>> \o [i \in 1..Transfers |-> Submitted("data", stream)]

(* usbWrite(wr_cmd_acquisition_stop) and the loop over the transfers; one    *)
(* whose callback runs is not in flight and cannot be cancelled.  The event  *)
(* thread has to complete the write, and so leaves usbProcessHeader first.   *)
Halt ==
  /\ usb.pc # "headerOK"
  /\ fpga' = [fpga EXCEPT !.state = "off"]
  /\ bus' = [i \in DOMAIN bus |-> [bus[i] EXCEPT !.cancelled = TRUE]]

(* changed: the samples are counted anew after a pause too *)
BeginAnew(restart) ==
  /\ driver' = [driver EXCEPT !.status = "INIT", !.samples = 0, !.partial = FALSE,
                               !.stream = IF restart THEN @ + 1 ELSE @]
  /\ fpga' = [state |-> IF driver.attached THEN "armed" ELSE "off", header |-> FALSE,
               sent |-> IF restart THEN 0 ELSE fpga.sent]
  /\ bus' = IF driver.attached THEN BeginTransfers(driver'.stream) ELSE bus
  /\ UNCHANGED dropped

(* start and resume, up to beginTransfers: a start counts the samples anew,  *)
(* buffer.reset() drops what was begun, and an analyser that is gone does    *)
(* not take the first command                                                *)
Begin(restart) ==
  /\ driver' = IF restart
               THEN [driver EXCEPT !.status = "INIT", !.samples = 0, !.partial = FALSE,
                                   !.stream = @ + 1]
               ELSE [driver EXCEPT !.partial = FALSE]
  /\ fpga' = [state |-> IF driver.attached THEN "armed" ELSE "off", header |-> FALSE,
               sent |-> IF restart THEN 0 ELSE fpga.sent]
  /\ bus' = IF driver.attached THEN BeginTransfers(driver'.stream) ELSE bus
  /\ dropped' = IF driver.partial /\ ~restart
                THEN dropped \cup {[stream |-> driver.stream, offset |-> driver.samples - 1]}
                ELSE dropped

(* usbWrite(wr_cmd_acquisition_start), which the event thread may outrun *)
Acquire ==
  /\ fpga' = IF driver.attached THEN [fpga EXCEPT !.state = "runs", !.header = TRUE] ELSE fpga
  /\ driver' = IF driver.attached THEN driver ELSE [driver EXCEPT !.status = "ERROR"]

SetStatus(value) == driver' = [driver EXCEPT !.status = value]

-----------------------------------------------------------------------------
(* The event thread *)

Waiting == usb.pc = "wait" /\ bus # <<>>

(* usbProcessHeader: an error first, and the result a moment later *)
HeaderBack(completed, isHeader) ==
  /\ SetStatus("ERROR")
  /\ usb' = [usb EXCEPT !.pc = IF completed /\ isHeader THEN "headerOK" ELSE "headerBad"]
  /\ UNCHANGED signalQueue

HeaderDone ==
  /\ usb.pc \in {"headerOK", "headerBad"}
  /\ driver' = IF usb.pc = "headerOK" THEN [driver EXCEPT !.status = "DATA"] ELSE driver
  /\ usb' = [usb EXCEPT !.pc = "wait"]
  /\ UNCHANGED <<fpga, bus, signalQueue>>

(* interleave: the offset of the buffer the samples complete, and the count  *)
(* with the one they begin; rest: the transfer ends within a buffer, which   *)
(* is kept                                                                   *)
Interleave(rest) ==
  IF driver.partial
  THEN [offset |-> driver.samples - 1, complete |-> TRUE,
        samples |-> driver.samples + IF rest THEN 1 ELSE 0]
  ELSE [offset |-> driver.samples, complete |-> ~rest,
        samples |-> driver.samples + 1]

(* what usbProcessData does with samples it delivers: the handler is called  *)
(* when a buffer is complete                                                 *)
Deliver(status, stream, rest) ==
  LET result == Interleave(rest) IN
  /\ driver' = [driver EXCEPT !.status = status, !.samples = result.samples,
                               !.partial = rest]
  /\ usb' = IF result.complete
             THEN [pc |-> "handler", samples |-> [stream |-> stream, offset |-> result.offset]]
             ELSE [usb EXCEPT !.pc = "resend"]

(* changed: a transfer that failed is taken for an empty one *)
DataBackForgiving(filled, failed, stream) ==
  LET status == IF driver.status = "START" THEN "DATA" ELSE driver.status IN
  /\ IF status = "DATA" /\ filled
     THEN \E rest \in Rests : Deliver(status, stream, rest)
     ELSE SetStatus(status) /\ UNCHANGED usb
  /\ UNCHANGED signalQueue

(* usbProcessData up to the handler: the first data start the stream, a      *)
(* failure ends it, and without both the transfer is freed                   *)
DataBack(filled, failed, stream) ==
  LET status == IF failed THEN "ERROR"
                ELSE IF driver.status = "START" THEN "DATA" ELSE driver.status
  IN /\ IF status = "DATA" /\ filled
        THEN \E rest \in Rests : Deliver(status, stream, rest)
        ELSE SetStatus(status) /\ UNCHANGED usb
     /\ UNCHANGED signalQueue

(* streamHandler: signalQueue.add *)
Handle ==
  /\ usb.pc = "handler"
  /\ signalQueue' = Append(signalQueue, Data(usb.samples.stream, usb.samples.offset))
  /\ usb' = [usb EXCEPT !.pc = "resend"]
  /\ UNCHANGED <<driver, fpga, bus>>

(* "resend new transfer", unless the stream has ended meanwhile: then free it *)
Resend ==
  /\ usb.pc = "resend"
  /\ bus' = IF driver.status = "DATA" /\ driver.attached
            THEN Append(bus, Submitted("data", driver.stream)) ELSE bus
  /\ usb' = [pc |-> "wait", samples |-> NoSamples]
  /\ UNCHANGED <<driver, fpga, signalQueue>>

(* the analyser fills the first transfer: with the header, then with samples *)
Complete ==
  /\ Waiting
  /\ fpga.state = "runs" /\ driver.attached
  /\ ~Head(bus).cancelled
  /\ fpga.header \/ fpga.sent < MaxBuffers
  /\ fpga' = [fpga EXCEPT !.header = FALSE, !.sent = IF fpga.header THEN @ ELSE @ + 1]
  /\ bus' = Tail(bus)
  /\ \/ Head(bus).kind = "header" /\ HeaderBack(TRUE, fpga.header)
     \/ Head(bus).kind = "data" /\ DataBack(TRUE, FALSE, driver.stream)

(* a cancelled transfer comes back, perhaps with what it had got *)
CancelBack ==
  /\ Waiting
  /\ Head(bus).cancelled
  /\ bus' = Tail(bus)
  /\ \/ Head(bus).kind = "header" /\ HeaderBack(FALSE, FALSE)
     \/ /\ Head(bus).kind = "data"
        /\ \E filled \in BOOLEAN : DataBack(filled, FALSE, Head(bus).stream)
  /\ UNCHANGED fpga

(* a transfer nobody fills comes back with its timeout, which is longer than *)
(* a start takes, or without a device                                        *)
FailBack ==
  /\ Waiting
  /\ ~Head(bus).cancelled
  /\ fpga.state = "off" \/ ~driver.attached
  /\ bus' = Tail(bus)
  /\ \/ Head(bus).kind = "header" /\ HeaderBack(FALSE, FALSE)
     \/ /\ Head(bus).kind = "data"
        /\ DataBack(FALSE, ~driver.attached, Head(bus).stream)
  /\ UNCHANGED fpga

EventThread ==
  /\ Complete \/ CancelBack \/ FailBack \/ HeaderDone \/ Handle \/ Resend
  /\ UNCHANGED <<plugged, dropped>>

-----------------------------------------------------------------------------
(* The analyser comes and goes *)

Unplug ==
  /\ plugged
  /\ plugged' = FALSE
  /\ driver' = [driver EXCEPT !.attached = FALSE]
  /\ fpga' = [fpga EXCEPT !.state = "off"]
  /\ UNCHANGED <<bus, usb, signalQueue, dropped>>

Plug ==
  /\ ~plugged
  /\ plugged' = TRUE
  /\ UNCHANGED <<driver, fpga, bus, usb, signalQueue, dropped>>
=============================================================================
