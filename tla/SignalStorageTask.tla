---------------------------- MODULE SignalStorageTask ----------------------------
(***************************************************************************)
(* The worker that records the raw streams into WAV files and replays      *)
(* them.  A pass of loop() takes one command and then, by its status,      *)
(* reads one buffer of each open file and publishes it, or writes one      *)
(* buffer of each queue.  The queues are filled by the callbacks the task  *)
(* has subscribed, which run on the threads of the publishers and read the *)
(* status without a lock (Deliver in Recording).                           *)
(***************************************************************************)
EXTENDS RecordDevice

CONSTANT ReadLength  (* units a read asks for: 65536 samples of each channel *)

ASSUME ReadAssumption == ReadLength \in Nat \ {0}

VARIABLES
  rpc,               (* where the task is inside loop()                     *)
  status,
  storage,           (* logicStorage and radioStorage: none, or the device  *)
  signalQueue,       (* logicSignalQueue and radioSignalQueue               *)
  recorderCommands,  (* commandQueue                                        *)
  now,               (* the second fileName() finds                         *)
  alive              (* the process runs                                    *)

recorderVars == <<disk, rpc, status, storage, signalQueue, recorderCommands, now, alive>>

(* Read names a file, Write and Stop do not *)
Command == [code : {"Read"}, name : Names] \cup [code : {"Write", "Stop"}]

RecorderPc == {"command", "writing", "reading", "logic", "radio", "check"}

RecorderTypeOK ==
  /\ DiskTypeOK
  /\ rpc \in RecorderPc
  /\ status \in {"Idle", "Reading", "Writing"}
  /\ storage \in [Kinds -> {<<>>} \cup Seq(Device)] /\ \A k \in Kinds : Len(storage[k]) <= 1
  /\ signalQueue \in [Kinds -> Seq(Buffer)]
  /\ recorderCommands \in Seq(Command)
  /\ now \in 0..MaxSeconds
  /\ alive \in BOOLEAN

RecorderInit ==
  /\ DiskInit
  /\ rpc = "command"
  /\ status = "Idle"
  /\ storage = [k \in Kinds |-> <<>>]
  /\ signalQueue = [k \in Kinds |-> <<>>]
  /\ recorderCommands = <<>>
  /\ now = 0
  /\ alive = TRUE

(* an optional device is a sequence of at most one *)
IsSet(k) == storage[k] # <<>>
Of(k) == storage[k][1]

Emptied == [k \in Kinds |-> <<>>]

-----------------------------------------------------------------------------
(* Commands *)

Handling(code) ==
  /\ rpc = "command"
  /\ recorderCommands # <<>>
  /\ Head(recorderCommands).code = code
  /\ recorderCommands' = Tail(recorderCommands)

(* changed: the queues keep what they hold *)
WriteStorageUncleared ==
  /\ Handling("Write")
  /\ rpc' = "writing"
  /\ UNCHANGED <<disk, status, storage, signalQueue, now, alive>>

(* writeStorage: clear the queues and resolve (the composition starts the    *)
(* decoders there), the storage left from before is not looked at ...        *)
WriteStorage ==
  /\ Handling("Write")
  /\ signalQueue' = Emptied
  /\ rpc' = "writing"
  /\ UNCHANGED <<disk, status, storage, now, alive>>

(* readStorage: assigning the pointer destroys, and so closes, the device of *)
(* before; the samples' size says which of the two it is.  The file is there *)
(* because doReadFile has just opened it.                                    *)
ReadStorage ==
  /\ Handling("Read")
  /\ LET name == Head(recorderCommands).name
         k    == name.kind
     IN /\ disk' = IF IsSet(k) THEN Closed(disk, Of(k)) ELSE disk
        /\ storage' = [storage EXCEPT ![k] = <<Opened(name, "Read")>>]
  /\ signalQueue' = Emptied
  /\ rpc' = "reading"
  /\ UNCHANGED <<status, now, alive>>

(* ... and only after the resolve the status changes *)
CommandDone ==
  /\ rpc \in {"writing", "reading"}
  /\ status' = IF rpc = "writing" THEN "Writing" ELSE "Reading"
  /\ rpc' = "logic"
  /\ UNCHANGED <<disk, storage, signalQueue, recorderCommands, now, alive>>

(* changed: the status stays as it was *)
StopKeepsStatus ==
  /\ Handling("Stop")
  /\ LET closed(d, k) == IF IsSet(k) THEN Closed(d, Of(k)) ELSE d IN
     disk' = closed(closed(disk, "logic"), "radio")
  /\ storage' = Emptied
  /\ rpc' = "command"
  /\ UNCHANGED <<status, signalQueue, now, alive>>

(* closeStorage: what is queued is not written, nor an end of stream sent *)
CloseStorage ==
  /\ Handling("Stop")
  /\ LET closed(d, k) == IF IsSet(k) THEN Closed(d, Of(k)) ELSE d IN
     disk' = closed(closed(disk, "logic"), "radio")
  /\ storage' = Emptied
  /\ status' = "Idle"
  /\ rpc' = "command"
  /\ UNCHANGED <<signalQueue, now, alive>>

NoCommand ==
  /\ rpc = "command"
  /\ recorderCommands = <<>>
  /\ status # "Idle"
  /\ rpc' = "logic"
  /\ UNCHANGED <<disk, status, storage, signalQueue, recorderCommands, now, alive>>

-----------------------------------------------------------------------------
(* signalRead: readLogic, readRadio, and idle when both files are at an end  *)

(* the samples read now, published unless there are none *)
Replayed(k) == ReadBy(disk, Of(k), ReadLength)

(* readLogic and readRadio; published: the buffer with its offset, if any,   *)
(* followed at the end of the file by an end of stream                       *)
ReadOne(k) ==
  /\ rpc = k /\ status = "Reading"
  /\ LET after == AfterRead(disk, Of(k), ReadLength) IN
     storage' = IF ~IsSet(k) THEN storage
                ELSE [storage EXCEPT ![k] = IF after.eof THEN <<>> ELSE <<after>>]
  /\ disk' = IF IsSet(k) /\ storage'[k] = <<>>
             THEN Closed(disk, AfterRead(disk, Of(k), ReadLength)) ELSE disk
  /\ rpc' = IF k = "logic" THEN "radio" ELSE "check"
  /\ UNCHANGED <<status, signalQueue, recorderCommands, now, alive>>

(* "check if all sources are closed" *)
ReadFinished ==
  /\ rpc = "check"
  /\ status' = IF \A k \in Kinds : ~IsSet(k) THEN "Idle" ELSE status
  /\ rpc' = "command"
  /\ UNCHANGED <<disk, storage, signalQueue, recorderCommands, now, alive>>

-----------------------------------------------------------------------------
(* signalWrite: writeLogic and writeRadio *)

Writing(k) ==
  /\ rpc = k /\ status = "Writing"
  /\ rpc' = IF k = "logic" THEN "radio" ELSE "command"

NothingToWrite(k) ==
  /\ Writing(k)
  /\ signalQueue[k] = <<>>
  /\ UNCHANGED <<disk, status, storage, signalQueue, recorderCommands, now, alive>>

(* changed: every file of a kind gets the same name *)
FileNameUndated(k) == [kind |-> k, second |-> 0]

(* fileName: the kind, and the date down to the second *)
FileName(k) == [kind |-> k, second |-> now]

(* "create storage file when first buffer is processed" *)
WriteSamples(k) ==
  /\ Writing(k)
  /\ signalQueue[k] # <<>> /\ IsValid(Head(signalQueue[k]))
  /\ signalQueue' = [signalQueue EXCEPT ![k] = Tail(@)]
  /\ LET device == IF IsSet(k) THEN Of(k) ELSE Opened(FileName(k), "Write") IN
     /\ storage' = [storage EXCEPT ![k] = <<AfterWrite(device)>>]
     /\ disk' = Written(IF IsSet(k) THEN disk ELSE Created(disk, FileName(k)),
                        device, Head(signalQueue[k]).samples)
  /\ UNCHANGED <<status, recorderCommands, now, alive>>

EndQueued(k) == signalQueue[k] # <<>> /\ ~IsValid(Head(signalQueue[k]))

(* writeRadio tells which file it closes by the name of the logic device *)
NameIsNull(k) == k = "radio" /\ IsSet("radio") /\ ~IsSet("logic")

(* "buffer empty = EOF buffer, close storage and finish writing" *)
FinishFile(k) ==
  /\ Writing(k)
  /\ EndQueued(k) /\ ~NameIsNull(k)
  /\ signalQueue' = [signalQueue EXCEPT ![k] = Tail(@)]
  /\ disk' = IF IsSet(k) THEN Closed(disk, Of(k)) ELSE disk
  /\ storage' = [storage EXCEPT ![k] = <<>>]
  /\ UNCHANGED <<status, recorderCommands, now, alive>>

(* the null pointer is dereferenced: the process ends with the file open *)
FinishNameless(k) ==
  /\ Writing(k)
  /\ EndQueued(k) /\ NameIsNull(k)
  /\ alive' = FALSE
  /\ UNCHANGED <<disk, status, storage, signalQueue, recorderCommands, now>>

WriteOne(k) == NothingToWrite(k) \/ WriteSamples(k) \/ FinishFile(k) \/ FinishNameless(k)
=============================================================================
