------------------------------- MODULE QtControl -------------------------------
(***************************************************************************)
(* The radio half of QtControl, the object between the window and the      *)
(* laboratory tasks.  It has no thread of its own: decoderControlEvent     *)
(* runs on the GUI thread, the two status handlers run on the thread of    *)
(* the task that publishes the status, and startDecoders runs on the       *)
(* thread of the storage task, which resolves the Clear command.           *)
(*                                                                         *)
(* The command queues of the two tasks are declared here because every     *)
(* sender of this module ends in commandQueue.add of the addressed task.   *)
(***************************************************************************)
EXTENDS Naturals, Sequences

CONSTANT MaxEvents  (* bound: posted events beyond which no refresh of the  *)
                    (* device and no request of the user adds another       *)

ASSUME ControlAssumption == MaxEvents \in Nat

VARIABLES
  deviceCommands,   (* RadioDeviceTask: commandQueue                        *)
  decoderCommands,  (* RadioDecoderTask: commandQueue                       *)
  events,           (* events posted to the GUI thread                      *)
  storageClears,    (* Clear commands the storage task has not resolved     *)
  ctl               (* the flags of QtControl about the radio device        *)

ctlVars == <<deviceCommands, decoderCommands, events, storageClears, ctl>>

Codes == {"Start", "Stop", "Pause", "Resume", "Configure"}
Enabled == {"on", "off", "keep"}  (* the member "enabled" of a configuration *)
Command == [code : Codes, enabled : Enabled]

DeviceStatus == {"absent", "disabled", "paused", "streaming", "flush", "idle"}
DecoderStatus == {"disabled", "decoding", "idle"}

(* a status for the window, or a request of the window for QtControl *)
Event == [kind : {"device"}, value : DeviceStatus]
         \cup [kind : {"decoder"}, value : DecoderStatus]
         \cup [kind : {"control"}, value : {"Start", "Stop", "Pause", "Resume"}]
         \cup [kind : {"deviceConfig", "decoderConfig"}, value : Enabled]

(* named: radioDeviceName and radioDeviceType are not empty; stored: the     *)
(* flag "enabled" kept in the settings; forwarded: the stream time last sent *)
Ctl == [deviceEnabled : BOOLEAN, decoderEnabled : BOOLEAN, named : BOOLEAN,
        stored : BOOLEAN, forwarded : Nat]

CtlTypeOK ==
  /\ deviceCommands \in Seq(Command)
  /\ decoderCommands \in Seq(Command)
  /\ events \in Seq(Event)
  /\ storageClears \in Nat
  /\ ctl \in Ctl

(* after startup: the device was opened, initialized and reported *)
CtlInit ==
  /\ deviceCommands = <<>>
  /\ decoderCommands = <<>>
  /\ events = <<>>
  /\ storageClears = 0
  /\ ctl = [deviceEnabled |-> TRUE, decoderEnabled |-> TRUE, named |-> TRUE,
            stored |-> TRUE, forwarded |-> 0]

Request(code) == [code |-> code, enabled |-> "keep"]
Configure(enabled) == [code |-> "Configure", enabled |-> enabled]
Flag(b) == IF b THEN "on" ELSE "off"
Apply(enabled, current) == IF enabled = "keep" THEN current ELSE enabled = "on"

-----------------------------------------------------------------------------
(* Status handlers, on the thread of the publisher *)

(* radioDeviceStatusChange: a status with another device name only starts    *)
(* the configuration of that device, the others are forwarded and posted.    *)
(* remaining is what the device task has left in its command queue.          *)
RadioDeviceStatusChange(status, named, streamTime, remaining) ==
  LET forward == named /\ streamTime # ctl.forwarded IN
  \/ /\ named # ctl.named
     /\ ctl' = [ctl EXCEPT !.deviceEnabled = (status # "disabled"), !.named = named]
     /\ deviceCommands' = Append(remaining, Configure(Flag(~named \/ ctl.stored)))
     /\ UNCHANGED <<decoderCommands, events>>
  \/ /\ named = ctl.named
     /\ ctl' = [ctl EXCEPT !.deviceEnabled = (status # "disabled"),
                           !.forwarded = IF forward THEN streamTime ELSE @]
     /\ decoderCommands' = IF forward THEN Append(decoderCommands, Configure("keep"))
                                      ELSE decoderCommands
     /\ events' = Append(events, [kind |-> "device", value |-> status])
     /\ deviceCommands' = remaining

(* radioDecoderStatusChange *)
RadioDecoderStatusChange(status) ==
  /\ ctl' = [ctl EXCEPT !.decoderEnabled = (status # "disabled")]
  /\ events' = Append(events, [kind |-> "decoder", value |-> status])

-----------------------------------------------------------------------------
(* decoderControlEvent, on the GUI thread; rest is what events has left *)

ToDevice(command, rest) ==
  /\ events' = rest
  /\ deviceCommands' = IF ctl.named THEN Append(deviceCommands, Request(command))
                                    ELSE deviceCommands
  /\ UNCHANGED <<decoderCommands, storageClears, ctl>>

(* doStartDecode: clear the storage, then startDecoders when it has answered *)
DoStartDecode(rest) ==
  /\ events' = rest
  /\ storageClears' = storageClears + 1
  /\ UNCHANGED <<deviceCommands, decoderCommands, ctl>>

DoStopDecode(rest) == ToDevice("Stop", rest)
DoPauseDecode(rest) == ToDevice("Pause", rest)
DoResumeDecode(rest) == ToDevice("Resume", rest)

(* doRadioDeviceConfig and radioDeviceConfigure: send and save *)
DoRadioDeviceConfig(enabled, rest) ==
  /\ events' = rest
  /\ deviceCommands' = Append(deviceCommands, Configure(enabled))
  /\ ctl' = IF ctl.named THEN [ctl EXCEPT !.stored = Apply(enabled, @)] ELSE ctl
  /\ UNCHANGED <<decoderCommands, storageClears>>

(* doRadioDecoderConfig and radioDecoderConfigure *)
DoRadioDecoderConfig(enabled, rest) ==
  /\ events' = rest
  /\ decoderCommands' = Append(decoderCommands, Configure(enabled))
  /\ UNCHANGED <<deviceCommands, storageClears, ctl>>

DecoderControlEvent(event, rest) ==
  \/ /\ event.kind = "control"
     /\ \/ event.value = "Start"  /\ DoStartDecode(rest)
        \/ event.value = "Stop"   /\ DoStopDecode(rest)
        \/ event.value = "Pause"  /\ DoPauseDecode(rest)
        \/ event.value = "Resume" /\ DoResumeDecode(rest)
  \/ event.kind = "deviceConfig"  /\ DoRadioDeviceConfig(event.value, rest)
  \/ event.kind = "decoderConfig" /\ DoRadioDecoderConfig(event.value, rest)

-----------------------------------------------------------------------------
(* changed: the callback also runs when no Clear is outstanding *)
StartDecodersUnasked ==
  /\ storageClears' = storageClears - 1
  /\ UNCHANGED <<deviceCommands, decoderCommands, events, ctl>>

(* changed: the decoder is started although it is disabled *)
StartDecodersAnyway ==
  /\ storageClears > 0
  /\ storageClears' = storageClears - 1
  /\ decoderCommands' = IF ctl.deviceEnabled /\ ctl.named
                        THEN Append(decoderCommands, Request("Start"))
                        ELSE decoderCommands
  /\ UNCHANGED <<deviceCommands, events, ctl>>

(* the storage task resolves Clear; startDecoders runs inside the resolve *)
StartDecoders ==
  /\ storageClears > 0
  /\ storageClears' = storageClears - 1
  /\ LET ready == ctl.deviceEnabled /\ ctl.named IN
     /\ decoderCommands' = IF ready /\ ctl.decoderEnabled
                           THEN Append(decoderCommands, Request("Start"))
                           ELSE decoderCommands
     /\ deviceCommands' = IF ready /\ ~ctl.decoderEnabled
                          THEN Append(deviceCommands, Request("Start"))
                          ELSE deviceCommands
  /\ UNCHANGED <<events, ctl>>

(* the callback of taskRadioDecoderStart, run when that command resolves *)
DecoderStarted == deviceCommands' = Append(deviceCommands, Request("Start"))
=============================================================================
