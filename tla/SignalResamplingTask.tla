------------------------- MODULE SignalResamplingTask -------------------------
(***************************************************************************)
(* The adaptive resampling of raw buffers (SignalResamplingTask.cpp).  A   *)
(* radio buffer keeps the samples that leave the moving average, a logic   *)
(* buffer those where the level changes, and both keep one at least every  *)
(* Interval samples, since a trace file gives one byte to the distance     *)
(* between two points.                                                     *)
(*                                                                         *)
(* A step scans one sample.  Whether a radio sample deviates from the      *)
(* average of its WINDOW is a free choice; one logic channel is modelled,  *)
(* the loop treats each on its own.                                        *)
(***************************************************************************)
EXTENDS Integers, Sequences

CONSTANTS
  Interval,     \* LOGIC_INTERVAL and RADIO_INTERVAL, 255 in the code
  BlockLength,  \* buffer.elements()
  RadioLevels   \* what sample s of a radio buffer can be: RadioLevels[s]

ASSUME ResamplingAssumption ==
  /\ Interval \in Nat \ {0}
  /\ BlockLength \in Nat \ {0}

Kinds == {"radio", "logic"}
LogicLevels == {0, 1}
Levels(k) ==
  IF k = "logic" THEN LogicLevels ELSE UNION {RadioLevels[s] : s \in 0..BlockLength - 1}

(* A point of a resampled buffer: a value and its place in the raw buffer. *)
Point(v, s) == [value |-> v, at |-> s]

(* A sample as scanned: its value and whether it must be kept. *)
Sample(v, kept) == [value |-> v, kept |-> kept]

VARIABLES
  kind,         \* the kind of buffer in process()
  phase,        \* "idle", "scan", or who is told next: "storage", "control"
  samples,      \* the samples scanned so far, sample s at samples[s + 1]
  control,      \* c, the last control point
  resampled     \* the points kept so far

resamplerVars == <<kind, phase, samples, control, resampled>>

(* The number of the sample to scan next, and the one before it. *)
Index == Len(samples)
Previous == samples[Index].value

ResamplerInit ==
  /\ kind \in Kinds
  /\ phase = "idle"
  /\ samples = <<>>
  /\ control = 0
  /\ resampled = <<>>

-----------------------------------------------------------------------------
(* "always store first sample": the radio loop starts on that same sample   *)
(* and stores it again if it deviates                                       *)
TakeLogic ==
  /\ phase = "idle" /\ kind = "logic"
  /\ \E v \in LogicLevels :
       /\ samples' = <<Sample(v, TRUE)>>
       /\ resampled' = <<Point(v, 0)>>
  /\ control' = 0
  /\ phase' = "scan"
  /\ UNCHANGED kind

TakeRadio ==
  /\ phase = "idle" /\ kind = "radio"
  /\ \E v \in RadioLevels[0], kept \in BOOLEAN :
       /\ samples' = <<Sample(v, kept)>>
       /\ resampled' = IF kept THEN <<Point(v, 0), Point(v, 0)>> ELSE <<Point(v, 0)>>
  /\ control' = 0
  /\ phase' = "scan"
  /\ UNCHANGED kind

Scanning(k) == phase = "scan" /\ kind = k /\ Index < BlockLength

(* changed: one sample later than the byte allows *)
DueLate == Index - control > Interval

(* the interval is over at the next sample *)
Due == Index - control >= Interval

(* (value != last) || (s - c) >= LOGIC_INTERVAL, where last is the value of *)
(* the last control point                                                   *)
ScanLogic ==
  /\ Scanning("logic")
  /\ \E v \in LogicLevels :
       LET differs == v # resampled[Len(resampled)].value IN
       /\ samples' = Append(samples, Sample(v, differs))
       /\ IF differs \/ Due
            THEN resampled' = Append(resampled, Point(v, Index)) /\ control' = Index
            ELSE UNCHANGED <<resampled, control>>
  /\ UNCHANGED <<kind, phase>>

(* changed: the sample before is never appended *)
WithoutPrevious == resampled

(* changed: the sample before is appended whether it is a point or not *)
WithPreviousAgain == Append(resampled, Point(Previous, Index - 1))

(* "append control point": the sample before the one that deviates, unless  *)
(* it is the last control point                                             *)
WithPrevious ==
  IF control < Index - 1 THEN Append(resampled, Point(Previous, Index - 1)) ELSE resampled

(* the radio loop: stdev > filter, or (i - c) >= RADIO_INTERVAL *)
ScanRadio ==
  /\ Scanning("radio")
  /\ \E v \in RadioLevels[Index], deviates \in BOOLEAN :
       /\ samples' = Append(samples, Sample(v, deviates))
       /\ \/ /\ deviates
             /\ resampled' = Append(WithPrevious, Point(v, Index))
             /\ control' = Index
          \/ /\ ~deviates /\ Due
             /\ resampled' = Append(resampled, Point(v, Index))
             /\ control' = Index
          \/ /\ ~deviates /\ ~Due
             /\ UNCHANGED <<resampled, control>>
  /\ UNCHANGED <<kind, phase>>

(* flip; a radio buffer stores its last sample first *)
Flip ==
  /\ phase = "scan" /\ Index = BlockLength
  /\ resampled' = IF kind = "radio" /\ control < Index - 1
                    THEN Append(resampled, Point(Previous, Index - 1)) ELSE resampled
  /\ phase' = "storage"
  /\ UNCHANGED <<kind, samples, control>>

(* adaptiveSignalStream->next: TraceStorageTask subscribed in its            *)
(* constructor, QtControl on startup, so they are told in this order         *)
TellStorage ==
  /\ phase = "storage"
  /\ phase' = "control"
  /\ samples' = <<>> /\ control' = 0
  /\ UNCHANGED <<kind, resampled>>

TellControl ==
  /\ phase = "control"
  /\ phase' = "idle"
  /\ resampled' = <<>>
  /\ UNCHANGED <<kind, samples, control>>

ResamplerNext ==
  \/ TakeLogic \/ TakeRadio
  \/ ScanLogic \/ ScanRadio
  \/ Flip \/ TellStorage \/ TellControl

ResamplerSpec == ResamplerInit /\ [][ResamplerNext]_resamplerVars

-----------------------------------------------------------------------------
ResamplerTypeOK ==
  /\ kind \in Kinds
  /\ phase \in {"idle", "scan", "storage", "control"}
  /\ samples \in Seq([value : Levels(kind), kept : BOOLEAN])
  /\ Len(samples) \in 0..BlockLength
  /\ control \in 0..BlockLength
  /\ resampled \in Seq([value : Levels(kind), at : 0..BlockLength])

(* Neighbours among points are in order and near each other. *)
Near(points) ==
  \A n \in 1..Len(points) - 1 :
    /\ points[n].at <= points[n + 1].at
    /\ points[n + 1].at - points[n].at <= Interval

(* Two points of a buffer are in order and at most Interval samples apart,   *)
(* and so are its last point and the first of the next buffer (which is at   *)
(* its sample 0): the byte a trace file has for the distance never wraps,    *)
(* whichever samples deviate and wherever a buffer ends.                     *)
GapsFitByte ==
  /\ Near(resampled)
  /\ phase \in {"storage", "control"} =>
       BlockLength - resampled[Len(resampled)].at <= Interval

(* A radio sample may be stored twice at the start of a buffer, and the one   *)
(* before a deviation besides it, yet the points never exceed the room        *)
(* allocated for them: a point is two of (elements / RADIO_INTERVAL) * 2 +    *)
(* elements * 2 floats.  A buffer shorter than an interval has no spare room. *)
PointsFitBuffer ==
  BlockLength >= Interval => Len(resampled) <= BlockLength + BlockLength \div Interval

(* The level of a point holds up to the next one. *)
Holds(scanned, points) ==
  \A n \in 1..Len(points), s \in 0..Len(scanned) - 1 :
    (/\ points[n].at <= s
     /\ n < Len(points) => s < points[n + 1].at)
      => scanned[s + 1].value = points[n].value

In(v, s, points) == \E n \in 1..Len(points) : points[n] = Point(v, s)

(* A sample to be kept is a point, and so is the sample before it. *)
Edges(scanned, points) ==
  \A s \in 0..Len(scanned) - 1 :
    scanned[s + 1].kept =>
      /\ In(scanned[s + 1].value, s, points)
      /\ s > 0 => In(scanned[s].value, s - 1, points)

(* No edge is lost: the logic signal drawn from the points is, sample by     *)
(* sample, the signal acquired, and a radio edge is as steep in the plot as  *)
(* in the air, whatever was left out before it.                              *)
EdgesKept ==
  /\ kind = "logic" => Holds(samples, resampled)
  /\ kind = "radio" => Edges(samples, resampled)
=============================================================================
