-------------------------------- MODULE QtWindow --------------------------------
(***************************************************************************)
(* The part of QtWindow that shows the state of an acquisition and turns   *)
(* the buttons into requests, and the person in front of it.  Everything   *)
(* here runs on the GUI thread, one event at a time: a button posts an     *)
(* event, QtControl handles it later, the tasks post their status back.    *)
(***************************************************************************)
EXTENDS QtControl

CONSTANTS
  MaxStarts,   (* bound: acquisitions the user starts                       *)
  MaxSwitches, (* bound: switches of the acquisition and the decoder on/off *)
  Patient      (* the user waits until a request shows before the next      *)

ASSUME WindowAssumption == MaxStarts \in Nat /\ MaxSwitches \in Nat /\ Patient \in BOOLEAN

VARIABLES
  radioDeviceStatus,   (* the last status shown of the receiver             *)
  radioDecoderShown,   (* the last status shown of the decoder              *)
  actionListen,        (* the button Listen is enabled                      *)
  actionStop,          (* Stop and Pause are enabled                        *)
  pauseChecked,        (* Pause is checked                                  *)
  acquireTimer,        (* the timer that stops the acquisition runs         *)
  asked,               (* what the user waits for the window to show        *)
  starts,              (* how many acquisitions the user has started        *)
  switches             (* how often the user has switched something on/off  *)

windowVars == <<radioDeviceStatus, radioDecoderShown, actionListen, actionStop,
                pauseChecked, acquireTimer, asked, starts, switches>>

Requests == {"start", "stop", "pause", "resume", "deviceOn", "deviceOff",
             "decoderOn", "decoderOff"}

WindowTypeOK ==
  /\ radioDeviceStatus \in DeviceStatus
  /\ radioDecoderShown \in DecoderStatus
  /\ actionListen \in BOOLEAN
  /\ actionStop \in BOOLEAN
  /\ pauseChecked \in BOOLEAN
  /\ acquireTimer \in BOOLEAN
  /\ asked \in Requests \cup {"nothing"}
  /\ starts \in Nat
  /\ switches \in Nat

WindowInit ==
  /\ radioDeviceStatus = "idle"
  /\ radioDecoderShown = "idle"
  /\ actionListen = TRUE
  /\ actionStop = FALSE
  /\ pauseChecked = FALSE
  /\ acquireTimer = FALSE
  /\ asked = "nothing"
  /\ starts = 0
  /\ switches = 0

Busy(dev, dec) == dev \in {"paused", "streaming"} \/ dec = "decoding"

Acquiring(dev) == dev \notin {"absent", "disabled"}

(* the acquisition and decoder switches are enabled only when nothing runs *)
FeaturesEnabled == ~Busy(radioDeviceStatus, radioDecoderShown)

(* updateActions *)
UpdateActions(dev, dec) ==
  /\ actionListen' = (~Busy(dev, dec) /\ Acquiring(dev))
  /\ actionStop' = Busy(dev, dec)
  /\ pauseChecked' = (pauseChecked /\ Busy(dev, dec))

-----------------------------------------------------------------------------
(* Status events *)

(* the window shows what the user has asked for, or that it cannot be *)
Shows(request, dev, dec) ==
  CASE request = "start"      -> dev = "streaming" /\ dec \in {"decoding", "disabled"}
    [] request = "stop"       -> dev \in {"idle", "absent", "disabled"} /\ dec # "decoding"
    [] request = "pause"      -> dev = "paused"
    [] request = "resume"     -> dev = "streaming"
    [] request = "deviceOn"   -> dev = "idle"
    [] request = "deviceOff"  -> dev = "disabled"
    [] request = "decoderOn"  -> dec # "disabled"
    [] request = "decoderOff" -> dec = "disabled"
    [] OTHER                  -> TRUE

(* the receiver went away, or the window offers to start again *)
GivenUp(request, dev, dec) ==
  \/ request \in {"start", "deviceOn"} /\ dev = "absent"
  \/ request = "start" /\ actionListen'
  \/ request \in {"pause", "resume"} /\ ~Busy(dev, dec)

Show(dev, dec) ==
  /\ radioDeviceStatus' = dev
  /\ radioDecoderShown' = dec
  /\ IF dev # radioDeviceStatus \/ dec # radioDecoderShown
     THEN UpdateActions(dev, dec)
     ELSE UNCHANGED <<actionListen, actionStop, pauseChecked>>
  /\ asked' = IF Shows(asked, dev, dec) \/ GivenUp(asked, dev, dec)
              THEN "nothing" ELSE asked

(* radioDeviceStatusEvent and radioDecoderStatusEvent *)
StatusEvent ==
  /\ events # <<>>
  /\ events' = Tail(events)
  /\ \/ Head(events).kind = "device"  /\ Show(Head(events).value, radioDecoderShown)
     \/ Head(events).kind = "decoder" /\ Show(radioDeviceStatus, Head(events).value)
  /\ UNCHANGED <<acquireTimer, starts, switches, deviceCommands, decoderCommands,
                 storageClears, ctl>>

(* the events QtControl handles *)
ControlEvent ==
  /\ events # <<>>
  /\ DecoderControlEvent(Head(events), Tail(events))
  /\ UNCHANGED windowVars

GuiStep == StatusEvent \/ ControlEvent

-----------------------------------------------------------------------------
(* The user; MaxEvents also bounds what is asked before the GUI has caught   *)
(* up, and the time limit of the timer is taken to be longer than a patient  *)
(* user waits                                                                *)

MayAsk == Len(events) < MaxEvents /\ (Patient => asked = "nothing")

Post(kind, value) ==
  /\ events' = Append(events, [kind |-> kind, value |-> value])
  /\ UNCHANGED <<deviceCommands, decoderCommands, storageClears, ctl>>

(* toggleStart: "disable action to avoid multiple start" *)
ToggleStart ==
  /\ MayAsk /\ actionListen
  /\ starts < MaxStarts
  /\ starts' = starts + 1
  /\ actionListen' = FALSE
  /\ acquireTimer' = TRUE
  /\ asked' = "start"
  /\ Post("control", "Start")
  /\ UNCHANGED <<radioDeviceStatus, radioDecoderShown, actionStop, pauseChecked, switches>>

(* toggleStop, of the button or of the timer *)
ToggleStop ==
  /\ MayAsk
  /\ actionStop \/ acquireTimer
  /\ acquireTimer' = FALSE
  /\ actionStop' = FALSE
  /\ pauseChecked' = FALSE
  /\ asked' = "stop"
  /\ Post("control", "Stop")
  /\ UNCHANGED <<radioDeviceStatus, radioDecoderShown, actionListen, starts, switches>>

(* togglePause *)
TogglePause ==
  /\ MayAsk /\ actionStop
  /\ pauseChecked' = ~pauseChecked
  /\ acquireTimer' = pauseChecked
  /\ asked' = IF pauseChecked THEN "resume" ELSE "pause"
  /\ Post("control", IF pauseChecked THEN "Resume" ELSE "Pause")
  /\ UNCHANGED <<radioDeviceStatus, radioDecoderShown, actionListen, actionStop,
                 starts, switches>>

(* toggleFeature, of the acquisition and of the decoder *)
ToggleAcquire ==
  /\ MayAsk
  /\ switches < MaxSwitches
  /\ switches' = switches + 1
  /\ FeaturesEnabled /\ radioDeviceStatus # "absent"
  /\ LET on == radioDeviceStatus = "disabled" IN
     /\ asked' = IF on THEN "deviceOn" ELSE "deviceOff"
     /\ Post("deviceConfig", Flag(on))
  /\ UpdateActions(radioDeviceStatus, radioDecoderShown)
  /\ UNCHANGED <<radioDeviceStatus, radioDecoderShown, acquireTimer, starts>>

ToggleDecoder ==
  /\ MayAsk
  /\ switches < MaxSwitches
  /\ switches' = switches + 1
  /\ FeaturesEnabled
  /\ LET on == radioDecoderShown = "disabled" IN
     /\ asked' = IF on THEN "decoderOn" ELSE "decoderOff"
     /\ Post("decoderConfig", Flag(on))
  /\ UpdateActions(radioDeviceStatus, radioDecoderShown)
  /\ UNCHANGED <<radioDeviceStatus, radioDecoderShown, acquireTimer, starts>>

UserStep == ToggleStart \/ ToggleStop \/ TogglePause \/ ToggleAcquire \/ ToggleDecoder
=============================================================================
