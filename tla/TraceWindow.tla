------------------------------ MODULE TraceWindow ------------------------------
(***************************************************************************)
(* What the window knows of the signal it shows (QtWindow.cpp with         *)
(* RadioWidget, LogicWidget and AbstractPlotWidget): the range of each     *)
(* plot, the range received, and the commands the user gives about it.     *)
(* The range (0, 1E-6) of an empty plot is modelled as the sample 0.       *)
(***************************************************************************)
EXTENDS TraceStorageTask

CONSTANTS
  MaxCommands,   \* saves, clears and opens of one behaviour
  SelectFrames   \* whether the user selects by frame in the stream table

VARIABLES
  events,       \* SignalBufferEvents posted to the window, Seq([lo, hi])
  data,         \* the range of the points in the plot of this kind
  logicView,    \* dataLowerRange and dataUpperRange of each plot
  radioView,
  receivedTime, \* receivedTimeFrom and receivedTimeTo
  commands      \* commands given so far

windowVars == <<events, data, logicView, radioView, receivedTime, commands>>

NoData == [lo |-> 0, hi |-> -1]
Empty == [lo |-> 0, hi |-> 0]

WindowInit ==
  /\ events = <<>>
  /\ data = NoData
  /\ logicView = Empty /\ radioView = Empty
  /\ receivedTime = Empty
  /\ commands = 0

Extent(buffer) ==
  [lo |-> Absolute(buffer)[1].at, hi |-> Last(Absolute(buffer)).at]

Hull(r, s) ==
  [lo |-> IF r.lo < s.lo THEN r.lo ELSE s.lo, hi |-> IF r.hi > s.hi THEN r.hi ELSE s.hi]

-----------------------------------------------------------------------------
(* changed: the received range keeps its upper end *)
ReceivedOnce(view, taken) ==
  [lo |-> IF view.lo < receivedTime.lo \/ receivedTime.lo = 0
            THEN taken.lo ELSE receivedTime.lo,
   hi |-> IF receivedTime.hi = 0 THEN taken.hi ELSE receivedTime.hi]

(* "update received time range" after an append to the plot range view, from *)
(* the plot range taken: both branches of signalBufferEvent take logicView's *)
Received(view, taken) ==
  [lo |-> IF view.lo < receivedTime.lo \/ receivedTime.lo = 0
            THEN taken.lo ELSE receivedTime.lo,
   hi |-> IF view.hi > receivedTime.hi \/ receivedTime.hi = 0
            THEN taken.hi ELSE receivedTime.hi]

(* signalBufferEvent, with syncDataRanges at its end *)
SignalBufferEvent ==
  /\ events # <<>>
  /\ events' = Tail(events)
  /\ LET extent == IF data = NoData THEN Head(events) ELSE Hull(data, Head(events))
         other == IF kind = "logic" THEN radioView ELSE logicView
         both == Hull(extent, other)
     IN  /\ data' = extent
         /\ receivedTime' = IF kind = "logic" THEN Received(extent, extent)
                            ELSE Received(extent, logicView)
         /\ logicView' = both /\ radioView' = both
  /\ UNCHANGED commands

-----------------------------------------------------------------------------
May == commands < MaxCommands /\ commands' = commands + 1

Post(ops) == commandQueue' = commandQueue \o ops

(* a Clear, and the commands its callback posts *)
ClearThen(ops) == [op |-> "clear", then |-> ops]

(* saveFile is enabled while a plot has data; without a selection it takes    *)
(* the received range                                                         *)
Save(from, to) ==
  /\ May
  /\ data # NoData
  /\ Post(<<[op |-> "write", from |-> from, to |-> to]>>)
  /\ UNCHANGED <<events, data, logicView, radioView, receivedTime>>

SaveAll == Save(receivedTime.lo, receivedTime.hi)

(* a selection drawn in a plot, or one of a frame of the table, which the     *)
(* decoder may have found before the signal is resampled                      *)
SaveSelection ==
  \/ \E from, to \in data.lo..data.hi : from < to /\ Save(from, to)
  \/ /\ SelectFrames
     /\ \E f \in Range(frameQueue) : Save(f.start, f.end)

(* clearView; doClearBuffers has nothing but the storage to clear *)
ResetView ==
  /\ data' = NoData
  /\ logicView' = Empty /\ radioView' = Empty
  /\ receivedTime' = Empty
  /\ UNCHANGED events

ClearView ==
  /\ May
  /\ ResetView
  /\ Post(<<ClearThen(<<>>)>>)

(* openFile clears the view, and doReadFile the storage once more, to read    *)
(* the file when that is done                                                 *)
OpenFile ==
  /\ May
  /\ file # NoFile
  /\ ResetView
  /\ Post(<<ClearThen(<<>>), ClearThen(<<[op |-> "read"]>>)>>)

UserStep == SaveAll \/ SaveSelection \/ ClearView

WindowTypeOK ==
  /\ commands \in 0..MaxCommands
  /\ \A r \in {data, logicView, radioView, receivedTime} : r.lo \in Nat /\ r.hi \in Int
  /\ \A n \in DOMAIN events : events[n].lo <= events[n].hi
=============================================================================
