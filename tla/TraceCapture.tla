----------------------------- MODULE TraceCapture -----------------------------
(***************************************************************************)
(* A capture on its way to a trace file and back: the receiver, the        *)
(* decoder, the resampling task, the storage task and the window, each on  *)
(* its own thread.                                                         *)
(***************************************************************************)
EXTENDS TraceWindow

CONSTANTS
  MaxBuffers,  \* raw buffers of the capture
  FrameRanges  \* the frames in the air, a set of [start, end]

VARIABLES
  streaming,   \* the device is running
  produced,    \* raw buffers it has published
  resampling,  \* the raw buffer in process(), or the last one
  decoded      \* the frames the decoder has found

captureVars == <<streaming, produced, resampling, decoded>>
vars == <<resamplerVars, storageVars, windowVars, captureVars>>

TypeOK ==
  /\ ResamplerTypeOK /\ StorageTypeOK /\ WindowTypeOK
  /\ streaming \in BOOLEAN
  /\ produced \in 0..MaxBuffers
  /\ resampling \in 0..produced
  /\ decoded \subseteq FrameRanges

Init ==
  /\ ResamplerInit /\ StorageInit /\ WindowInit
  /\ streaming = TRUE
  /\ produced = 0
  /\ resampling = 0
  /\ decoded = {}

(* The resampled buffer as the observers see it. *)
Buffer == [offset |-> (resampling - 1) * BlockLength, points |-> resampled]

-----------------------------------------------------------------------------
(* the device publishes a raw buffer, which joins the resampler's queue *)
Produce ==
  /\ streaming /\ produced < MaxBuffers
  /\ produced' = produced + 1
  /\ UNCHANGED <<streaming, resampling, decoded, resamplerVars, storageVars, windowVars>>

Stop ==
  /\ streaming
  /\ streaming' = FALSE
  /\ UNCHANGED <<produced, resampling, decoded, resamplerVars, storageVars, windowVars>>

(* the decoder's thread finds a frame in what it got, and caches it *)
DecodeFrame ==
  /\ \E f \in FrameRanges \ decoded :
       /\ f.end < produced * BlockLength
       /\ decoded' = decoded \cup {f}
       /\ frameQueue' = Append(frameQueue, f)
  /\ UNCHANGED <<streaming, produced, resampling, signalCache, commandQueue, job, file,
                 resamplerVars, windowVars>>

(* signalQueue.get and process() *)
TakeBuffer ==
  /\ resampling < produced
  /\ TakeLogic \/ TakeRadio
  /\ resampling' = resampling + 1
  /\ UNCHANGED <<streaming, produced, decoded, storageVars, windowVars>>

ScanBuffer ==
  /\ ScanLogic \/ ScanRadio \/ Flip
  /\ UNCHANGED <<captureVars, storageVars, windowVars>>

(* changed: the storage keeps the newest buffer first *)
CacheSignalFirst ==
  /\ TellStorage
  /\ signalCache' = <<Buffer>> \o signalCache
  /\ UNCHANGED <<frameQueue, commandQueue, job, file, windowVars, captureVars>>

(* the first observer: signalQueue.add *)
CacheSignal ==
  /\ TellStorage
  /\ signalCache' = Append(signalCache, Buffer)
  /\ UNCHANGED <<frameQueue, commandQueue, job, file, windowVars, captureVars>>

(* the second observer: QtApplication::post *)
PostSignal ==
  /\ TellControl
  /\ events' = Append(events, Extent(Buffer))
  /\ UNCHANGED <<data, logicView, radioView, receivedTime, commands, storageVars, captureVars>>

StorageThread == StorageStep /\ UNCHANGED <<resamplerVars, windowVars, captureVars>>

(* a chunk of a file is published to QtControl before it is cached *)
LoadChunk ==
  /\ ReadChunk
  /\ events' = Append(events, Extent(ChunkBuffer))
  /\ UNCHANGED <<data, logicView, radioView, receivedTime, commands, resamplerVars, captureVars>>

GuiThread ==
  /\ SignalBufferEvent
  /\ UNCHANGED <<resamplerVars, storageVars, captureVars>>

User ==
  /\ UserStep
  /\ UNCHANGED <<resamplerVars, frameQueue, signalCache, job, file, captureVars>>

(* Nothing of the capture is on its way to the storage any more. *)
Drained == ~streaming /\ resampling = produced /\ phase = "idle"

(* a file is opened once the capture is over *)
Open ==
  /\ Drained
  /\ OpenFile
  /\ UNCHANGED <<resamplerVars, frameQueue, signalCache, job, file, captureVars>>

Next ==
  \/ Produce \/ Stop \/ DecodeFrame
  \/ TakeBuffer \/ ScanBuffer \/ CacheSignal \/ PostSignal
  \/ StorageThread \/ LoadChunk
  \/ GuiThread \/ User \/ Open

Spec == Init /\ [][Next]_vars

-----------------------------------------------------------------------------
(* The header of a finished entry announces as many points as follow it,     *)
(* though the cache grows while the storage counts and while it writes: else *)
(* the archive is damaged, for the package never checks the size.            *)
HeaderCountsBody == file.op = "complete" => Len(file.body) = file.total

(* Neighbours in the cache, whatever buffers they are of, are at most        *)
(* Interval samples apart and in order.                                      *)
CacheGapsFitByte ==
  \A n \in 1..Len(Cached) - 1 :
    Cached[n + 1].at - Cached[n].at \in 0..Interval

(* The points a save was to write. *)
Selection == Within(Cached, job.start, job.end)

(* A selection that begins near a cached point, and for logic inside the     *)
(* cache: elsewhere the first distance does not fit its byte.                *)
Anchored ==
  /\ Selection # <<>> => Selection[1].at - job.start < DeltaModulus
  /\ kind = "logic" => signalCache[1].offset <= job.start

(* What the file stands for, read in one piece. *)
Meaning ==
  [n \in DOMAIN file.body |->
    LET p == Decoded(SubSeq(file.body, 1, file.total), 0)[n]
    IN  [p EXCEPT !.at = @ + file.start]]

Moved(points, shift) == [n \in DOMAIN points |-> [points[n] EXCEPT !.at = @ - shift]]

(* About to be closed, the file of a save. *)
Written == job.op = "body" /\ ~More

(* A finished save stands for the signal of the range, point by point across *)
(* the buffers: radio moved to the start of the range, logic in its place.   *)
FileHoldsSelection ==
  Written /\ Anchored =>
    Meaning = Moved(Selection, IF kind = "radio" THEN job.start ELSE 0)

(* An opened file fills the cache with what it stands for, however it is cut *)
(* into chunks.                                                              *)
LoadYieldsFile ==
  [][ReadChunk /\ job' = Idle => Cached' = Meaning]_vars

(* Once every event is shown and every command done, the range "Save all"    *)
(* takes covers everything the storage holds.                                *)
SaveAllCovers ==
  (/\ phase # "control" /\ events = <<>> /\ commandQueue = <<>> /\ job = Idle
   /\ data # NoData)
    => \A n \in 1..Len(Cached) : Cached[n].at \in receivedTime.lo..receivedTime.hi

LogicSaveAllCovers == kind = "logic" => SaveAllCovers

(* Frames and signal of a file are shifted alike: a frame of an opened file  *)
(* lies on the samples it was decoded from.                                  *)
FramesStayOnSignal == Written /\ Anchored => Meaning = Moved(Selection, job.start)
=============================================================================
