----------------------------- MODULE AirspyDevice -----------------------------
(***************************************************************************)
(* The driver hw::radio::AirspyDevice as RadioDeviceTask uses it: one      *)
(* receiver on the USB bus, the object that has opened it, and the queue   *)
(* its stream callback fills from the transfer thread of libairspy.  The   *)
(* methods are functions of the driver object; libairspy itself (which     *)
(* stream requests it accepts, what it does when the receiver is removed)  *)
(* is external.                                                            *)
(***************************************************************************)
EXTENDS SignalBuffer, Sequences

CONSTANTS
  MaxBuffers,  (* bound: buffers of a stream                                *)
  MaxUnplugs   (* bound: removals of the receiver                           *)

ASSUME AirspyAssumption ==
  MaxBuffers \in Nat /\ MaxUnplugs \in Nat

VARIABLES
  plugged,     (* the receiver is on the bus                                *)
  unplugs,     (* how often it has been removed                             *)
  device,      (* the driver object; not open means RadioDeviceTask has none *)
  signalQueue  (* RadioDeviceTask: buffers the stream callback has added    *)

driverVars == <<plugged, unplugs, device, signalQueue>>

(* streamTime is 0 or the stream that set it: start reads the clock *)
(* attached: the handle still reaches the receiver, which it never does again *)
(* once the receiver has been removed                                        *)
Driver == [open : BOOLEAN, attached : BOOLEAN, streaming : BOOLEAN, callback : BOOLEAN,
           paused : BOOLEAN, stream : Nat, received : Nat, streamTime : Nat]

DriverTypeOK ==
  /\ plugged \in BOOLEAN
  /\ unplugs \in Nat
  /\ device \in Driver
  /\ signalQueue \in Seq(Buffer)

(* the driver object open() has prepared; stream counts over its successors *)
Opened(stream) ==
  [open |-> TRUE, attached |-> TRUE, streaming |-> FALSE, callback |-> FALSE,
   paused |-> FALSE, stream |-> stream, received |-> 0, streamTime |-> 0]

DriverInit ==
  /\ plugged = TRUE
  /\ unplugs = 0
  /\ device = Opened(0)
  /\ signalQueue = <<>>

-----------------------------------------------------------------------------
(* Methods: the driver object after the call *)

(* start: airspy_start_rx refuses a receiver that is gone or streaming, and  *)
(* a refused start drops the callback it has just stored                     *)
StartRx(d) ==
  LET accepted == d.attached /\ ~d.streaming IN
  [d EXCEPT !.streaming = d.streaming \/ accepted, !.callback = accepted,
            !.paused = FALSE, !.received = 0,
            !.stream = IF accepted THEN d.stream + 1 ELSE d.stream,
            !.streamTime = d.stream + 1]

(* stop: nothing without a callback, otherwise the stream ends *)
StopRx(d) ==
  IF d.callback
  THEN [d EXCEPT !.streaming = FALSE, !.callback = FALSE, !.paused = FALSE,
                 !.streamTime = 0]
  ELSE d

(* pause: the stream ends; a receiver that does not answer is not paused *)
PauseRx(d) ==
  IF d.callback
  THEN [d EXCEPT !.streaming = FALSE, !.paused = d.attached]
  ELSE d

(* resume: only a paused stream, which keeps its counters *)
ResumeRx(d) ==
  IF d.callback /\ d.paused
  THEN [d EXCEPT !.streaming = d.attached, !.callback = d.attached, !.paused = FALSE]
  ELSE d

(* close, from the destructor of the driver *)
Closed(d) == [StopRx(d) EXCEPT !.open = FALSE]

(* isReady: the version string can be read *)
IsReady == device.open /\ device.attached

-----------------------------------------------------------------------------
(* process_transfer, on the thread of libairspy: the callback of the device  *)
(* task adds the buffer to signalQueue                                       *)
Transfer ==
  /\ device.streaming /\ device.callback
  /\ device.received < MaxBuffers
  /\ signalQueue' = Append(signalQueue, Data(device.stream, device.received))
  /\ device' = [device EXCEPT !.received = @ + 1]
  /\ UNCHANGED <<plugged, unplugs>>

(* the receiver is removed: libairspy ends the stream by itself *)
Unplug ==
  /\ plugged
  /\ unplugs < MaxUnplugs
  /\ plugged' = FALSE
  /\ unplugs' = unplugs + 1
  /\ device' = [device EXCEPT !.attached = FALSE, !.streaming = FALSE]
  /\ UNCHANGED signalQueue

Plug ==
  /\ ~plugged
  /\ plugged' = TRUE
  /\ UNCHANGED <<unplugs, device, signalQueue>>
=============================================================================
