--------------------------- MODULE TraceStorageTask ---------------------------
(***************************************************************************)
(* The cache of frames and resampled signal, and the trace file made of it *)
(* (TraceStorageTask.cpp).  Saving walks signalCache twice, first to count *)
(* the points the entry's header announces and then to write them, while   *)
(* other threads append to it: the iterators of BlockingQueue take no      *)
(* lock.  Opening clears the cache and refills it chunk by chunk.          *)
(*                                                                         *)
(* Times are sample numbers.  A walk takes one buffer a step.  The entry   *)
(* of one channel is modelled, and JSON and the tar package by what they   *)
(* hold.                                                                   *)
(***************************************************************************)
EXTENDS SignalResamplingTask, SequencesExt

CONSTANTS
  DeltaModulus,   \* a distance is written in one byte: 256
  SampleModulus,  \* a radio sample is a short: 2^16
  ChunkPoints     \* the points of the read buffer: 16384

ASSUME StorageAssumption ==
  /\ DeltaModulus = Interval + 1
  /\ SampleModulus \in Nat \ {0}
  /\ Levels("radio") \subseteq 0..SampleModulus - 1
  /\ ChunkPoints \in Nat \ {0}

VARIABLES
  frameQueue,     \* the frames, Seq([start, end])
  signalCache,    \* logicSignalQueue or radioSignalQueue, Seq([offset, points])
  commandQueue,   \* Clear, Read and Write commands
  job,            \* what loop() is in
  file            \* the trace file on disk

storageVars == <<frameQueue, signalCache, commandQueue, job, file>>

Idle == [op |-> "idle"]
NoFile == [op |-> "none"]

StorageInit ==
  /\ frameQueue = <<>> /\ signalCache = <<>> /\ commandQueue = <<>>
  /\ job = Idle
  /\ file = NoFile

-----------------------------------------------------------------------------
(* A buffer's points at their absolute sample numbers, and those in a range. *)
Absolute(buffer) ==
  [n \in DOMAIN buffer.points |-> [buffer.points[n] EXCEPT !.at = @ + buffer.offset]]

Within(points, start, end) ==
  LET kept[n \in 0..Len(points)] ==
        IF n = 0 THEN <<>>
        ELSE IF start <= points[n].at /\ points[n].at <= end
             THEN Append(kept[n - 1], points[n]) ELSE kept[n - 1]
  IN  kept[Len(points)]

InRange(buffer, start, end) == Within(Absolute(buffer), start, end)

Cached == FlattenSeq([n \in DOMAIN signalCache |-> Absolute(signalCache[n])])

(* rate * time cast to unsigned: the product may end just below the sample   *)
Truncated(x) == {x} \cup ({x - 1} \cap Nat)

(* A frame's samples are shifted to the start of the range. *)
Shifted(frames, start) ==
  [n \in DOMAIN frames |-> [start |-> frames[n].start - start, end |-> frames[n].end - start]]

Command(op) == commandQueue # <<>> /\ job = Idle /\ Head(commandQueue).op = op

Dequeue == commandQueue' = Tail(commandQueue)

(* clearQueue; resolve posts what the sender wants done then *)
Clear ==
  /\ Command("clear")
  /\ commandQueue' = Tail(commandQueue) \o Head(commandQueue).then
  /\ frameQueue' = <<>> /\ signalCache' = <<>>
  /\ UNCHANGED <<job, file>>

-----------------------------------------------------------------------------
(* Saving                                                                    *)

(* Package::open, writeFrameEntry, and the search for channels: an entry is  *)
(* written for a channel that has a buffer.  The frames are chosen by their  *)
(* times and shifted by the truncated start.                                 *)
Write ==
  /\ Command("write")
  /\ Dequeue
  /\ LET request == Head(commandQueue) IN
     \E start \in Truncated(request.from), end \in Truncated(request.to) :
       /\ file' = [op |-> IF signalCache = <<>> THEN "complete" ELSE "writing",
                   frames |-> Shifted(SelectSeq(frameQueue, LAMBDA f :
                                 request.from <= f.start /\ f.end <= request.to), start),
                   start |-> 0, total |-> 0, body |-> <<>>]
       /\ job' = IF signalCache = <<>> THEN Idle
                 ELSE [op |-> "count", start |-> start, end |-> end, next |-> 1,
                       offset |-> start, sample |-> 0]
  /\ UNCHANGED <<frameQueue, signalCache>>

More == job.next <= Len(signalCache)

(* the points of the next buffer to save *)
Chosen == InRange(signalCache[job.next], job.start, job.end)

(* "count samples for this channel" *)
CountBuffer ==
  /\ job.op = "count" /\ More
  /\ file' = [file EXCEPT !.total = @ + Len(Chosen)]
  /\ job' = [job EXCEPT !.next = @ + 1]
  /\ UNCHANGED <<frameQueue, signalCache, commandQueue>>

(* INFO_START_OFFSET of the entry *)
StartOffset ==
  IF kind = "radio" THEN 0
  ELSE IF signalCache[1].offset > job.start THEN signalCache[1].offset ELSE job.start

WriteHeader ==
  /\ job.op = "count" /\ ~More
  /\ file' = [file EXCEPT !.start = StartOffset]
  /\ job' = [job EXCEPT !.op = "body", !.next = 1]
  /\ UNCHANGED <<frameQueue, signalCache, commandQueue>>

Difference(value, before) ==
  IF kind = "radio" THEN (value - before) % SampleModulus ELSE value

(* changed: the differences are not cut to the size of their fields *)
EncodedWide(points) ==
  [n \in DOMAIN points |->
    IF n = 1 THEN [delta |-> points[1].at - job.offset,
                   value |-> points[1].value - job.sample]
    ELSE [delta |-> points[n].at - points[n - 1].at,
          value |-> points[n].value - points[n - 1].value]]

(* changed: the distances of every buffer start at its own first point *)
EncodedAlone(points) ==
  [n \in DOMAIN points |->
    IF n = 1 THEN [delta |-> 0, value |-> Difference(points[1].value, job.sample)]
    ELSE [delta |-> (points[n].at - points[n - 1].at) % DeltaModulus,
          value |-> Difference(points[n].value, points[n - 1].value)]]

(* What a walk writes for points: the distance from the point before, and    *)
(* for radio the difference of the samples.                                  *)
Encoded(points) ==
  [n \in DOMAIN points |->
    IF n = 1 THEN [delta |-> (points[1].at - job.offset) % DeltaModulus,
                   value |-> Difference(points[1].value, job.sample)]
    ELSE [delta |-> (points[n].at - points[n - 1].at) % DeltaModulus,
          value |-> Difference(points[n].value, points[n - 1].value)]]

(* changed: the second walk does not stop at the end of the range *)
WriteBufferOn ==
  /\ job.op = "body" /\ More
  /\ LET points == SelectSeq(Absolute(signalCache[job.next]), LAMBDA p : job.start <= p.at) IN
     /\ file' = [file EXCEPT !.body = @ \o Encoded(points)]
     /\ job' = IF points = <<>> THEN [job EXCEPT !.next = @ + 1]
               ELSE [job EXCEPT !.next = @ + 1, !.offset = Last(points).at,
                                !.sample = Last(points).value]
  /\ UNCHANGED <<frameQueue, signalCache, commandQueue>>

(* "write sample data" of one buffer *)
WriteBuffer ==
  /\ job.op = "body" /\ More
  /\ file' = [file EXCEPT !.body = @ \o Encoded(Chosen)]
  /\ job' = IF Chosen = <<>> THEN [job EXCEPT !.next = @ + 1]
            ELSE [job EXCEPT !.next = @ + 1, !.offset = Last(Chosen).at,
                             !.sample = Last(Chosen).value]
  /\ UNCHANGED <<frameQueue, signalCache, commandQueue>>

CloseFile ==
  /\ job.op = "body" /\ ~More
  /\ file' = [file EXCEPT !.op = "complete"]
  /\ job' = Idle
  /\ UNCHANGED <<frameQueue, signalCache, commandQueue>>

-----------------------------------------------------------------------------
(* Opening                                                                   *)

(* readTraceFile up to the signal: the caches are cleared, the frames come   *)
(* back as they are in the file.  The entry is as long as the header says.   *)
Read ==
  /\ Command("read")
  /\ Dequeue
  /\ signalCache' = <<>>
  /\ frameQueue' = file.frames
  /\ job' = IF file.total = 0 THEN Idle
            ELSE [op |-> "read", position |-> file.start, sample |-> 0,
                  left |-> SubSeq(file.body, 1, file.total)]
  /\ UNCHANGED file

(* The sum of a field over the first n entries. *)
SumOf(entries, n, field) ==
  LET sum[k \in 0..n] == IF k = 0 THEN 0 ELSE sum[k - 1] + entries[k][field]
  IN  sum[n]

(* changed: the radio sample starts anew in every chunk *)
DecodedAlone(entries, sample) ==
  [n \in DOMAIN entries |->
    Point(IF kind = "radio" THEN SumOf(entries, n, "value") % SampleModulus ELSE entries[n].value,
          SumOf(entries, n, "delta"))]

(* The points of entries: distances add up from the start of the chunk, and  *)
(* radio samples from the sample before it.                                  *)
Decoded(entries, sample) ==
  [n \in DOMAIN entries |->
    Point(IF kind = "radio" THEN (sample + SumOf(entries, n, "value")) % SampleModulus
          ELSE entries[n].value,
          SumOf(entries, n, "delta"))]

Chunk ==
  SubSeq(job.left, 1, IF Len(job.left) < ChunkPoints THEN Len(job.left) ELSE ChunkPoints)

(* The buffer a chunk becomes. *)
ChunkBuffer == [offset |-> job.position, points |-> Decoded(Chunk, job.sample)]

(* one turn of "start reading": the buffer is published and then cached *)
ReadChunk ==
  /\ job.op = "read"
  /\ signalCache' = Append(signalCache, ChunkBuffer)
  /\ LET left == SubSeq(job.left, Len(Chunk) + 1, Len(job.left)) IN
     job' = IF left = <<>> THEN Idle
            ELSE [job EXCEPT !.position = @ + SumOf(Chunk, Len(Chunk), "delta"),
                             !.sample = Last(ChunkBuffer.points).value,
                             !.left = left]
  /\ UNCHANGED <<frameQueue, commandQueue, file>>

StorageStep ==
  \/ Clear
  \/ Write \/ CountBuffer \/ WriteHeader \/ WriteBuffer \/ CloseFile
  \/ Read

-----------------------------------------------------------------------------
StorageTypeOK ==
  /\ \A n \in DOMAIN signalCache :
       /\ signalCache[n].offset \in Nat
       /\ \A p \in Range(signalCache[n].points) : p.value \in Levels(kind) /\ p.at \in Nat
  /\ job.op \in {"idle", "count", "body", "read"}
  /\ file.op \in {"none", "writing", "complete"}
  /\ file.op # "none" =>
       \A e \in Range(file.body) :
         e.delta \in 0..DeltaModulus - 1 /\ e.value \in 0..SampleModulus - 1
=============================================================================
