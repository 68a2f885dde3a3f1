-------------------------------- MODULE Recording --------------------------------
(***************************************************************************)
(* Recording and replay: the storage task between the receivers that       *)
(* publish the raw streams, the decoders that listen to them and QtControl *)
(* with the person in front of it.  Receivers and decoders are reduced to  *)
(* what the recorder meets: a stream of numbered buffers with an end, and  *)
(* a session that lasts from a start command to an end of stream (the      *)
(* radio ones are modelled in full in RadioCapture).  Both decoders are    *)
(* enabled.                                                                *)
(***************************************************************************)
EXTENDS SignalStorageTask

CONSTANTS
  Fitted,         (* the sets of kinds that may have a receiver              *)
  LogicChannels,  (* channels of a logic recording                           *)
  MaxUnits,       (* bound: buffers of a stream                              *)
  MaxStarts,      (* bound: acquisitions the user starts                     *)
  MaxOpens,       (* bound: recordings the user opens                        *)
  MaxUnplugs,     (* bound: receivers that are removed                       *)
  RemovesRunning, (* also while something is asked of them or they stream    *)
  StopsReplay     (* the user also stops a replay                            *)

ASSUME RecordingAssumption ==
  /\ Fitted \subseteq SUBSET Kinds
  /\ LogicChannels \in Nat \ {0}
  /\ MaxUnits \in Nat /\ MaxStarts \in Nat /\ MaxOpens \in Nat /\ MaxUnplugs \in Nat
  /\ StopsReplay \in BOOLEAN /\ RemovesRunning \in BOOLEAN

VARIABLES
  receivers,        (* the kinds that have a receiver                       *)
  receiver,         (* per kind: the status and the stream of the device task *)
  receiverCommands, (* per kind: its commandQueue                           *)
  raw,              (* per kind: the buffer it is publishing, and how far   *)
  decoder,          (* per kind: the status of the decoder, what it decodes *)
  decoderCommands,  (* per kind: its commandQueue, with the callbacks       *)
  clears,           (* Clear commands of the trace storage, with callbacks  *)
  storagePath,      (* QtControl: a storage path is set                     *)
  stopped,          (* the user has stopped what runs                       *)
  recorded,         (* history: the streams the user wanted recorded        *)
  starts, opens, unplugs

controlVars == <<clears, storagePath, stopped, recorded, starts, opens>>
partnerVars == <<receivers, receiver, receiverCommands, raw, decoder, decoderCommands, unplugs>>
vars == <<recorderVars, partnerVars, controlVars>>

ReceiverStatus == {"absent", "idle", "streaming", "flush"}

(* what runs when a command resolves *)
Then == [then : {"start", "write"}] \cup [then : {"read"}, name : Names]

Heard == [at : Nat, samples : Samples]

(* samples as the decoder hears them when offsets count from first *)
Numbered(samples, first) ==
  [i \in DOMAIN samples |-> [at |-> first + i - 1, samples |-> samples[i]]]

(* starting: not yet Streaming, its command is being resolved; wanted: the   *)
(* samples of the file this session replays, or none; cut: it was ended by a *)
(* receiver                                                                  *)
Decoder == [status : {"idle", "starting", "decoding"}, replay : BOOLEAN, cut : BOOLEAN,
            wanted : Seq(Samples), heard : Seq(Heard)]

TypeOK ==
  /\ RecorderTypeOK
  /\ receivers \in Fitted
  /\ receiver \in [Kinds -> [status : ReceiverStatus, stream : Nat, next : Nat]]
  /\ receiverCommands \in [Kinds -> Seq({"Start", "Stop"})]
  /\ raw \in [Kinds -> [pc : {"none", "heard", "add"}, buffer : Buffer]]
  /\ decoder \in [Kinds -> Decoder]
  /\ decoderCommands \in [Kinds -> Seq(Then)]
  /\ clears \in Seq(Then)
  /\ storagePath \in BOOLEAN /\ stopped \in BOOLEAN
  /\ recorded \in SUBSET (Kinds \X Nat)
  /\ starts \in 0..MaxStarts /\ opens \in 0..MaxOpens /\ unplugs \in 0..MaxUnplugs

Init ==
  /\ RecorderInit
  /\ receivers \in Fitted
  /\ receiver = [k \in Kinds |-> [status |-> IF k \in receivers THEN "idle" ELSE "absent",
                                  stream |-> 0, next |-> MaxUnits]]
  /\ receiverCommands = [k \in Kinds |-> <<>>]
  /\ raw = [k \in Kinds |-> [pc |-> "none", buffer |-> EndOfStream("flush")]]
  /\ decoder = [k \in Kinds |-> [status |-> "idle", replay |-> FALSE,
                                 cut |-> FALSE, wanted |-> <<>>, heard |-> <<>>]]
  /\ decoderCommands = [k \in Kinds |-> <<>>]
  /\ clears = <<>>
  /\ storagePath = FALSE /\ stopped = FALSE
  /\ recorded = {}
  /\ starts = 0 /\ opens = 0 /\ unplugs = 0

-----------------------------------------------------------------------------
(* What the user, and who removes a receiver, waits for *)

Underway ==
  \/ clears # <<>> \/ recorderCommands # <<>> \/ rpc \in {"writing", "reading"}
  \/ \E k \in Kinds :
       \/ receiverCommands[k] # <<>> \/ decoderCommands[k] # <<>>
       \/ receiver[k].status = "flush" \/ decoder[k].status = "starting"
       \/ receiver[k].status = "absent" /\ receiver[k].next < MaxUnits

-----------------------------------------------------------------------------
(* Receivers, each on its own thread *)

Ready(k) == raw[k].pc = "none"

ReceiverOnly == UNCHANGED <<recorderVars, receivers, decoderCommands, controlVars>>

StartStream(k) ==
  /\ Ready(k)
  /\ receiverCommands[k] # <<>> /\ Head(receiverCommands[k]) = "Start"
  /\ receiverCommands' = [receiverCommands EXCEPT ![k] = Tail(@)]
  /\ receiver' = IF receiver[k].status = "absent" THEN receiver
                 ELSE [receiver EXCEPT ![k] = [status |-> "streaming",
                                               stream |-> @.stream + 1, next |-> 0]]
  /\ UNCHANGED <<raw, decoder, unplugs>> /\ ReceiverOnly

StopStream(k) ==
  /\ Ready(k)
  /\ receiverCommands[k] # <<>> /\ Head(receiverCommands[k]) = "Stop"
  /\ receiverCommands' = [receiverCommands EXCEPT ![k] = Tail(@)]
  /\ receiver' = IF receiver[k].status = "absent" THEN receiver
                 ELSE [receiver EXCEPT ![k].status = "flush"]
  /\ UNCHANGED <<raw, decoder, unplugs>> /\ ReceiverOnly

(* a decoder that is Streaming takes samples and an end of stream, any other *)
(* drops them                                                                *)
Hear(d, heard, end) ==
  IF d.status # "decoding" THEN d
  ELSE [d EXCEPT !.heard = @ \o heard, !.status = IF end THEN "idle" ELSE @]

(* the callbacks run in the order of subscription: first the decoder's *)
Publish(k, buffer) ==
  /\ raw' = [raw EXCEPT ![k] = [pc |-> "heard", buffer |-> buffer]]
  /\ decoder' = [decoder EXCEPT ![k] =
       IF IsValid(buffer)
       THEN Hear(@, Numbered(<<buffer.samples>>, buffer.samples.offset), FALSE)
       ELSE [Hear(decoder[k], <<>>, TRUE) EXCEPT !.cut = @ \/ decoder[k].status = "decoding"]]
  /\ UNCHANGED receiverCommands /\ ReceiverOnly

(* processQueue: a buffer the device has queued, also while it flushes and   *)
(* after it has gone                                                         *)
PublishSamples(k) ==
  /\ Ready(k)
  /\ receiver[k].next < MaxUnits
  /\ Publish(k, Data(receiver[k].stream, receiver[k].next))
  /\ receiver' = [receiver EXCEPT ![k].next = @ + 1]
  /\ UNCHANGED unplugs

(* processQueue: the queue is empty, the flush ends *)
PublishEnd(k) ==
  /\ Ready(k)
  /\ receiver[k].status = "flush"
  /\ Publish(k, EndOfStream("flush"))
  /\ receiver' = [receiver EXCEPT ![k].status = "idle", ![k].next = MaxUnits]
  /\ UNCHANGED unplugs

(* refresh: the device is gone, some of its buffers are still queued *)
Unplug(k) ==
  /\ Ready(k)
  /\ unplugs < MaxUnplugs
  /\ receiver[k].status # "absent"
  /\ RemovesRunning \/ ~(receiver[k].status = "streaming" \/ Underway)
  /\ Publish(k, EndOfStream("detach"))
  /\ \E next \in receiver[k].next..MaxUnits :
       receiver' = [receiver EXCEPT ![k].status = "absent", ![k].next = next]
  /\ unplugs' = unplugs + 1

(* refresh: a device is found *)
Plug(k) ==
  /\ Ready(k)
  /\ k \in receivers /\ receiver[k].status = "absent" /\ receiver[k].next = MaxUnits
  /\ receiver' = [receiver EXCEPT ![k].status = "idle"]
  /\ UNCHANGED <<receiverCommands, raw, decoder, unplugs>> /\ ReceiverOnly

(* the recorder's callback reads the status of the recorder, and then adds *)
Offer(k) ==
  /\ raw[k].pc = "heard"
  /\ raw' = [raw EXCEPT ![k].pc = IF status = "Writing" THEN "add" ELSE "none"]
  /\ UNCHANGED <<receiver, receiverCommands, decoder, unplugs>> /\ ReceiverOnly

Add(k) ==
  /\ raw[k].pc = "add"
  /\ signalQueue' = [signalQueue EXCEPT ![k] = Append(@, raw[k].buffer)]
  /\ raw' = [raw EXCEPT ![k].pc = "none"]
  /\ UNCHANGED <<disk, rpc, status, storage, recorderCommands, now, alive, receivers,
                 receiver, receiverCommands, decoder, unplugs, decoderCommands, controlVars>>

ReceiverThread(k) ==
  \/ StartStream(k) \/ StopStream(k) \/ PublishSamples(k) \/ PublishEnd(k)
  \/ Offer(k) \/ Add(k)

-----------------------------------------------------------------------------
(* Decoders, each on its own thread *)

(* startDecoder: drop what was heard, initialize, resolve: the callback asks *)
(* the receiver for a stream or the recorder for a file ...  (The decoder is *)
(* idle: the user starts and opens only then.)                               *)
StartDecoding(k) ==
  /\ decoderCommands[k] # <<>> /\ decoder[k].status # "starting"
  /\ LET then == Head(decoderCommands[k]) IN
     /\ decoder' = [decoder EXCEPT ![k] =
          [status |-> "starting", replay |-> then.then = "read", cut |-> FALSE,
           wanted |-> IF then.then = "read" THEN disk[then.name].samples ELSE <<>>,
           heard |-> <<>>]]
     /\ IF then.then = "read"
        THEN /\ recorderCommands' = Append(recorderCommands,
                                           [code |-> "Read", name |-> then.name])
             /\ UNCHANGED receiverCommands
        ELSE /\ receiverCommands' = [receiverCommands EXCEPT ![k] = Append(@, "Start")]
             /\ UNCHANGED recorderCommands
  /\ decoderCommands' = [decoderCommands EXCEPT ![k] = Tail(@)]
  /\ UNCHANGED <<disk, rpc, status, storage, signalQueue, now, alive, receivers,
                 receiver, raw, unplugs, controlVars>>

(* ... and only then updateDecoderStatus(Streaming) *)
DecoderStreaming(k) ==
  /\ decoder[k].status = "starting"
  /\ decoder' = [decoder EXCEPT ![k].status = "decoding"]
  /\ UNCHANGED <<recorderVars, receivers, receiver, receiverCommands, raw,
                 decoderCommands, unplugs, controlVars>>

DecoderThread(k) == StartDecoding(k) \/ DecoderStreaming(k)

-----------------------------------------------------------------------------
(* QtControl: startDecoders, and what follows a cleared trace storage *)

StartDecoders ==
  decoderCommands' = [k \in Kinds |->
    IF receiver[k].status # "absent" THEN Append(decoderCommands[k], [then |-> "start"])
                                     ELSE decoderCommands[k]]

(* "if contains 4 channels... trigger logic decoder start" *)
DecoderFor(name) ==
  IF name.kind = "logic" /\ LogicChannels >= 3 THEN "logic" ELSE "radio"

TraceCleared ==
  /\ clears # <<>>
  /\ clears' = Tail(clears)
  /\ \/ /\ Head(clears).then = "write"
        /\ recorderCommands' = Append(recorderCommands, [code |-> "Write"])
        /\ UNCHANGED decoderCommands
     \/ /\ Head(clears).then = "start"
        /\ StartDecoders
        /\ UNCHANGED recorderCommands
     \/ /\ Head(clears).then = "read"
        /\ decoderCommands' = [decoderCommands EXCEPT ![DecoderFor(Head(clears).name)] =
                                 Append(@, Head(clears))]
        /\ UNCHANGED recorderCommands
  /\ UNCHANGED <<disk, rpc, status, storage, signalQueue, now, alive, receivers,
                 receiver, receiverCommands, raw, decoder, unplugs,
                 storagePath, stopped, recorded, starts, opens>>

-----------------------------------------------------------------------------
(* The recorder's thread, with the callbacks that run on it *)

ResolveWrite == WriteStorage /\ StartDecoders /\ UNCHANGED <<receivers, receiver, receiverCommands, raw, decoder, unplugs, controlVars>>

(* next() of a replayed buffer and of the end of a file *)
Replay(k) ==
  /\ ReadOne(k)
  /\ decoder' = IF IsSet(k)
                THEN [decoder EXCEPT ![k] = Hear(@, Numbered(Replayed(k), Of(k).at),
                                                 storage'[k] = <<>>)]
                ELSE decoder
  /\ UNCHANGED <<receivers, receiver, receiverCommands, raw, decoderCommands, unplugs, controlVars>>

RecorderThread ==
  \/ ResolveWrite
  \/ \E k \in Kinds : Replay(k)
  \/ /\ ReadStorage \/ CommandDone \/ CloseStorage \/ NoCommand \/ ReadFinished
        \/ \E k \in Kinds : WriteOne(k)
     /\ UNCHANGED <<partnerVars, controlVars>>

-----------------------------------------------------------------------------
(* The user, who waits until what he has asked for is under way *)

Busy == \E k \in Kinds : receiver[k].status = "streaming" \/ decoder[k].status = "decoding"

ControlOnly == UNCHANGED <<disk, rpc, status, storage, signalQueue, now, alive,
                           receivers, receiver, raw, decoder, decoderCommands, unplugs>>

(* toggleStart and doStartDecode, with and without a storage path; the       *)
(* actions are enabled while there is a receiver                             *)
Start(record) ==
  /\ ~Busy /\ ~Underway
  /\ \E k \in Kinds : receiver[k].status # "absent"
  /\ starts < MaxStarts
  /\ starts' = starts + 1
  /\ storagePath' = record
  /\ clears' = Append(clears, [then |-> IF record THEN "write" ELSE "start"])
  /\ stopped' = FALSE
  /\ recorded' = IF record THEN recorded \cup {<<k, receiver[k].stream + 1>> : k \in Kinds}
                           ELSE recorded
  /\ UNCHANGED <<opens, recorderCommands, receiverCommands>> /\ ControlOnly

(* toggleStop and doStopDecode *)
Stop ==
  /\ Busy /\ ~Underway /\ ~stopped
  /\ StopsReplay \/ \A k \in Kinds : ~(decoder[k].status = "decoding" /\ decoder[k].replay)
  /\ stopped' = TRUE
  /\ receiverCommands' = [k \in Kinds |-> IF receiver[k].status # "absent"
                                          THEN Append(receiverCommands[k], "Stop")
                                          ELSE receiverCommands[k]]
  /\ recorderCommands' = IF storagePath THEN Append(recorderCommands, [code |-> "Stop"])
                                        ELSE recorderCommands
  /\ UNCHANGED <<clears, storagePath, recorded, starts, opens>> /\ ControlOnly

InUse(name) == \E k \in Kinds : IsSet(k) /\ Of(k).name = name

(* openFile and doReadFile *)
Open(name) ==
  /\ ~Busy /\ ~Underway
  /\ opens < MaxOpens
  /\ disk[name].exists /\ ~InUse(name)
  /\ opens' = opens + 1
  /\ clears' = Append(clears, [then |-> "read", name |-> name])
  /\ stopped' = FALSE
  /\ UNCHANGED <<storagePath, recorded, starts, recorderCommands, receiverCommands>>
  /\ ControlOnly

(* a second goes by *)
Tick ==
  /\ now < MaxSeconds
  /\ now' = now + 1
  /\ UNCHANGED <<disk, rpc, status, storage, signalQueue, recorderCommands, alive,
                 partnerVars, controlVars>>

User == (\E record \in BOOLEAN : Start(record)) \/ Stop \/ \E name \in Names : Open(name)

Environment == Tick \/ \E k \in Kinds : Unplug(k) \/ Plug(k)

Next ==
  /\ alive
  /\ \/ RecorderThread \/ TraceCleared \/ User \/ Environment
     \/ \E k \in Kinds : ReceiverThread(k) \/ DecoderThread(k)

Spec == Init /\ [][Next]_vars

(* every thread is scheduled; nothing is assumed of the user or the devices *)
FairSpec ==
  /\ Spec
  /\ WF_vars(alive /\ RecorderThread) /\ WF_vars(alive /\ TraceCleared)
  /\ \A k \in Kinds : WF_vars(alive /\ ReceiverThread(k)) /\ WF_vars(alive /\ DecoderThread(k))

-----------------------------------------------------------------------------
(* Properties *)

(* A recording is a piece of one stream without a gap, in order, and of a    *)
(* stream the user wanted recorded, whatever is left in the queues, in the   *)
(* callbacks or in the files of the acquisition before.                      *)
OneStreamPerFile ==
  \A name \in Names : \A i, j \in DOMAIN disk[name].samples :
    LET a == disk[name].samples[i]
        b == disk[name].samples[j]
    IN a.stream = b.stream /\ b.offset - a.offset = j - i

OpenForWriting(name) == InUse(name) /\ Of(name.kind).mode = "Write"

(* A file that is not being written has a header that tells its length, as   *)
(* long as that fits the 32 bits of a chunk's size.                          *)
HeaderIsWritten ==
  alive => \A name \in Names :
    disk[name].exists /\ ~OpenForWriting(name) /\ Len(disk[name].samples) < SizeModulus
      => disk[name].header = Len(disk[name].samples)

(* A finished recording is only ever replaced by another one that is created *)
(* within the second it was created in.                                      *)
FinishedIsKept ==
  [][\A name \in Names :
       disk[name].exists /\ ~OpenForWriting(name) /\ disk'[name] # disk[name]
         => /\ name.second = now /\ disk[name].samples # <<>>
            /\ rpc = name.kind /\ status = "Writing"]_vars

(* What is decoded of a file is one piece of it: its samples in order and    *)
(* without a gap, with the offsets they have there, and up to the last one   *)
(* when the decoding has ended, unless a receiver was removed meanwhile,     *)
(* which ends the replay too.  The piece begins with what is read once the   *)
(* decoder is Streaming.                                                     *)
ReplayIsFaithful ==
  \A k \in Kinds : decoder[k].replay =>
    LET d   == decoder[k]
        all == Numbered(d.wanted, 0)
    IN \E missed \in 0..Len(all) :
         LET rest == SubSeq(all, missed + 1, Len(all)) IN
         /\ IsPrefix(d.heard, rest)
         /\ d.status = "idle" /\ ~d.cut => d.heard = rest

(* the recorder has to read the file, or the rest of it *)
StillToRead(k) ==
  IsSet(k) \/ \E i \in DOMAIN recorderCommands : recorderCommands[i].code = "Read"

(* A replay that nobody stops ends, and with it the decoding, if the decoder *)
(* is Streaming before the end of the file is read.                          *)
ReplayEnds ==
  \A k \in Kinds : (decoder[k].status = "decoding" /\ decoder[k].replay /\ StillToRead(k))
                     ~> (decoder[k].status = "idle" \/ ~alive)

(* signalDecode, "decoder EOF buffer received, finish!": the end of a        *)
(* replayed file ends the decoding that was started for it.                  *)
EveryReplayEnds ==
  \A k \in Kinds : (decoder[k].status = "decoding" /\ decoder[k].replay)
                     ~> (decoder[k].status = "idle" \/ ~alive)

(* doStartDecode, "if event contains file name and sample rate start         *)
(* recorder": an acquisition that was started without recording is not       *)
(* recorded, whatever the recorder was left with by the one before.          *)
OnlyWantedIsRecorded ==
  \A name \in Names : \A i \in DOMAIN disk[name].samples :
    <<name.kind, disk[name].samples[i].stream>> \in recorded

(* writeRadio, "close storage and finish writing": the end of a recorded     *)
(* stream closes its file, and does not end the program.                     *)
RecorderLives == alive
=============================================================================
