---------------------------- MODULE RecordingProofs ----------------------------
(***************************************************************************)
(* The files of the recorder, for any number of buffers, acquisitions,     *)
(* replays and seconds and any receivers.  Nothing but a recording created *)
(* in the same second changes a file that is not being written: each of    *)
(* the two devices has a file of its own kind, so that closing, replacing  *)
(* or writing one never meets the file of the other.  While no receiver is *)
(* removed, a file is one piece of one stream that was wanted in it: from  *)
(* the start to the stop nobody gives another command, and file, queue and *)
(* receiver stay in line.  Nothing that is open for writing is read then,  *)
(* so that no stream has failed when its header is written.  If nobody     *)
(* stops a replay either, a decoder hears one piece of the file it was     *)
(* started for, from where it became Streaming to the end.                 *)
(***************************************************************************)
EXTENDS Recording, SequenceTheorems, TLAPS

USE RecordingAssumption, SecondsAssumption, ReadAssumption

(* what is sent between the threads *)
CommandsTyped ==
  /\ recorderCommands \in Seq(Command)
  /\ decoderCommands \in [Kinds -> Seq(Then)]
  /\ clears \in Seq(Then)

Receiver == [status : ReceiverStatus, stream : Nat, next : Nat]

(* the streams, and the buffers on their way to the files *)
BuffersTyped ==
  /\ receiver \in [Kinds -> Receiver]
  /\ raw \in [Kinds -> [pc : {"none", "heard", "add"}, buffer : Buffer]]
  /\ signalQueue \in [Kinds -> Seq(Buffer)]

(* a file has been written to since it was created                           *)
Filled(file) == file.exists => file.samples # <<>>

(* the header tells the length, if it can                                    *)
Settled(file) ==
  file.exists /\ Len(file.samples) < SizeModulus => file.header = Len(file.samples)

(* writing to a file has not failed                                          *)
Sound(device) == device.mode = "Write" => ~device.failed

WritesTo(slots, name) ==
  /\ slots[name.kind] # <<>>
  /\ slots[name.kind][1].name = name
  /\ slots[name.kind][1].mode = "Write"

(* the files of disk d while the open devices are slots: each of the kind    *)
(* whose slot it is in                                                       *)
FilesOK(d, slots) ==
  /\ d \in [Names -> File]
  /\ slots \in [Kinds -> {<<>>} \cup {<<device>> : device \in Device}]
  /\ \A k \in Kinds : slots[k] # <<>> =>
       slots[k][1] \in Device /\ slots[k][1].name.kind = k /\ Sound(slots[k][1])
  /\ \A name \in Names : Filled(d[name])

Headed(d, slots) == \A name \in Names : WritesTo(slots, name) \/ Settled(d[name])

Files == FilesOK(disk, storage) /\ now \in 0..MaxSeconds

(* What is sent is sent whole. *)
LEMMA CommandsAreTyped == Spec => []CommandsTyped
  <1>1. Init => CommandsTyped
    <2> SUFFICES ASSUME Init PROVE CommandsTyped
      OBVIOUS
    <2>1. recorderCommands = <<>> /\ clears = <<>>
      BY DEF Init, RecorderInit
    <2>2. decoderCommands = [k \in Kinds |-> <<>>]
      BY DEF Init
    <2> QED
      BY <2>1, <2>2 DEF CommandsTyped
  <1>2. CommandsTyped /\ [Next]_vars => CommandsTyped'
    <2> SUFFICES ASSUME CommandsTyped, [Next]_vars PROVE CommandsTyped'
      OBVIOUS
    <2> USE DEF CommandsTyped
    <2>1. ASSUME NEW q \in Seq(Command), q # <<>> PROVE Head(q) \in Command /\ Tail(q) \in Seq(Command)
      BY <2>1, HeadTailProperties
    <2>2. ASSUME NEW q \in Seq(Then), q # <<>> PROVE Head(q) \in Then /\ Tail(q) \in Seq(Then)
      BY <2>2, HeadTailProperties
    <2>3. StartDecoders => decoderCommands' \in [Kinds -> Seq(Then)]
      <3>1. [then |-> "start"] \in Then
        BY DEF Then
      <3> QED
        BY <3>1 DEF StartDecoders
    <2>4. CASE RecorderThread
      <3>1. recorderCommands' = recorderCommands \/ (recorderCommands # <<>> /\ recorderCommands' = Tail(recorderCommands))
        BY <2>4 DEF RecorderThread, ResolveWrite, WriteStorage, Replay, ReadOne, ReadStorage,
                    CommandDone, CloseStorage, NoCommand, ReadFinished, WriteOne, NothingToWrite,
                    WriteSamples, FinishFile, FinishNameless, Handling
      <3>2. clears' = clears /\ (StartDecoders \/ decoderCommands' = decoderCommands)
        BY <2>4 DEF RecorderThread, ResolveWrite, Replay, partnerVars, controlVars
      <3> QED
        BY <3>1, <3>2, <2>1, <2>3
    <2>5. CASE TraceCleared
      <3> DEFINE head == Head(clears)
      <3>1. clears # <<>> /\ head \in Then /\ clears' \in Seq(Then)
        BY <2>5, <2>2 DEF TraceCleared
      <3>2. CASE head.then = "write"
        <4>1. recorderCommands' = Append(recorderCommands, [code |-> "Write"]) /\ decoderCommands' = decoderCommands
          BY <2>5, <3>2 DEF TraceCleared
        <4>2. [code |-> "Write"] \in Command
          BY DEF Command
        <4> QED
          BY <3>1, <4>1, <4>2
      <3>3. CASE head.then = "start"
        BY <2>5, <3>3, <3>1, <2>3 DEF TraceCleared
      <3>4. CASE head.then = "read"
        <4> HIDE DEF head
        <4>1. /\ recorderCommands' = recorderCommands
              /\ decoderCommands' = [decoderCommands EXCEPT ![DecoderFor(head.name)] = Append(@, head)]
          BY <2>5, <3>4 DEF TraceCleared, head
        <4>2. DecoderFor(head.name) \in Kinds
          BY DEF DecoderFor, Kinds
        <4> QED
          BY <3>1, <4>1, <4>2
      <3> QED
        BY <2>5, <3>2, <3>3, <3>4 DEF TraceCleared
    <2>6. ASSUME NEW k \in Kinds, StartDecoding(k) PROVE CommandsTyped'
      <3> DEFINE head == Head(decoderCommands[k])
      <3>1. head \in Then /\ Tail(decoderCommands[k]) \in Seq(Then)
        BY <2>6, <2>2 DEF StartDecoding
      <3>2. decoderCommands' \in [Kinds -> Seq(Then)] /\ clears' = clears
        BY <2>6, <3>1 DEF StartDecoding, controlVars
      <3>3. CASE head.then = "read"
        <4>1. recorderCommands' = Append(recorderCommands, [code |-> "Read", name |-> head.name])
          BY <2>6, <3>3 DEF StartDecoding
        <4>2. [code |-> "Read", name |-> head.name] \in Command
          BY <3>1, <3>3 DEF Then, Command
        <4> HIDE DEF head
        <4> QED
          BY <3>2, <4>1, <4>2
      <3>4. CASE head.then # "read"
        BY <2>6, <3>2, <3>4 DEF StartDecoding
      <3> QED
        BY <3>3, <3>4
    <2>7. CASE User
      <3>1. ASSUME NEW record \in BOOLEAN, Start(record) PROVE CommandsTyped'
        <4>1. [then |-> IF record THEN "write" ELSE "start"] \in Then
          BY DEF Then
        <4> QED
          BY <3>1, <4>1 DEF Start, ControlOnly
      <3>2. CASE Stop
        <4>1. [code |-> "Stop"] \in Command
          BY DEF Command
        <4> QED
          BY <3>2, <4>1 DEF Stop, ControlOnly
      <3>3. ASSUME NEW name \in Names, Open(name) PROVE CommandsTyped'
        <4>1. [then |-> "read", name |-> name] \in Then
          BY DEF Then
        <4> QED
          BY <3>3, <4>1 DEF Open, ControlOnly
      <3> QED
        BY <2>7, <3>1, <3>2, <3>3 DEF User
    <2>8. CASE \/ Environment \/ UNCHANGED vars
               \/ \E k \in Kinds : ReceiverThread(k) \/ DecoderStreaming(k)
      <3>1. UNCHANGED <<recorderCommands, decoderCommands, clears>>
        BY <2>8 DEF DecoderStreaming, Environment, Tick, Unplug, Plug, Publish, ReceiverThread, StartStream, StopStream,
                    PublishSamples, PublishEnd, Offer, Add, ReceiverOnly, vars, recorderVars,
                    partnerVars, controlVars
      <3> QED
        BY <3>1
    <2> QED
      BY <2>4, <2>5, <2>6, <2>7, <2>8 DEF Next, DecoderThread
  <1> QED
    BY <1>1, <1>2, PTL DEF Spec

(* The two moves of a receiver that the provers want spelled out.            *)
LEMMA ReceiverStays ==
  ASSUME NEW r \in Receiver, NEW n \in Nat
  PROVE  /\ [r EXCEPT !.next = @ + 1] \in Receiver
         /\ [r EXCEPT !.status = "absent", !.next = n] \in Receiver
  <1>1. /\ r = [status |-> r.status, stream |-> r.stream, next |-> r.next]
        /\ r.status \in ReceiverStatus /\ r.stream \in Nat /\ r.next \in Nat
    BY DEF Receiver
  <1>2. [r EXCEPT !.next = @ + 1] =
          [status |-> r.status, stream |-> r.stream, next |-> r.next + 1]
    BY <1>1
  <1>3. [r EXCEPT !.status = "absent", !.next = n] =
          [status |-> "absent", stream |-> r.stream, next |-> n]
    <2> DEFINE s == [r EXCEPT !.status = "absent"]
    <2>1. s = [status |-> "absent", stream |-> r.stream, next |-> r.next]
      BY DEF Receiver
    <2>2. [s EXCEPT !.next = n] = [status |-> "absent", stream |-> r.stream, next |-> n]
      <3> HIDE DEF s
      <3> QED
        BY <2>1
    <2>3. [r EXCEPT !.status = "absent", !.next = n] = [s EXCEPT !.next = n]
      OBVIOUS
    <2> HIDE DEF s
    <2> QED
      BY <2>2, <2>3
  <1>4. "absent" \in ReceiverStatus /\ r.next + 1 \in Nat
    BY <1>1 DEF ReceiverStatus
  <1> QED
    BY <1>1, <1>2, <1>3, <1>4 DEF Receiver

(* What streams is a buffer. *)
LEMMA BuffersAreTyped == Spec => []BuffersTyped
  <1>1. Init => BuffersTyped
    <2> SUFFICES ASSUME Init PROVE BuffersTyped
      OBVIOUS
    <2>1. EndOfStream("flush") \in Buffer
      BY DEF EndOfStream, Buffer, NoSamples, Samples
    <2>2. raw \in [Kinds -> [pc : {"none", "heard", "add"}, buffer : Buffer]]
      BY <2>1 DEF Init
    <2>3. receiver \in [Kinds -> Receiver]
      BY DEF Init, Receiver, ReceiverStatus
    <2>4. signalQueue = [k \in Kinds |-> <<>>]
      BY DEF Init, RecorderInit
    <2>5. signalQueue \in [Kinds -> Seq(Buffer)]
      BY <2>4
    <2> QED
      BY <2>2, <2>3, <2>5 DEF BuffersTyped
  <1>2. BuffersTyped /\ [Next]_vars => BuffersTyped'
    <2> SUFFICES ASSUME BuffersTyped, [Next]_vars PROVE BuffersTyped'
      OBVIOUS
    <2> USE DEF BuffersTyped
    <2>0. ASSUME NEW k \in Kinds PROVE receiver[k] \in Receiver
      OBVIOUS
    <2>1. ASSUME NEW k \in Kinds, signalQueue[k] # <<>> PROVE Tail(signalQueue[k]) \in Seq(Buffer)
      BY <2>1, HeadTailProperties
    <2>2. CASE RecorderThread
      <3>1. UNCHANGED <<receiver, raw>>
        BY <2>2 DEF RecorderThread, ResolveWrite, Replay, partnerVars
      <3>2. CASE ResolveWrite \/ ReadStorage
        <4>1. signalQueue' = Emptied
          BY <3>2 DEF ResolveWrite, WriteStorage, ReadStorage
        <4>2. Emptied \in [Kinds -> Seq(Buffer)]
          BY DEF Emptied
        <4> QED
          BY <3>1, <4>1, <4>2
      <3>3. ASSUME NEW k \in Kinds, WriteOne(k) PROVE BuffersTyped'
        <4>1. \/ signalQueue' = signalQueue
              \/ signalQueue[k] # <<>> /\ signalQueue' = [signalQueue EXCEPT ![k] = Tail(@)]
          BY <3>3 DEF WriteOne, NothingToWrite, WriteSamples, FinishFile, FinishNameless, EndQueued
        <4> QED
          BY <3>1, <4>1, <2>1
      <3>4. CASE CommandDone \/ CloseStorage \/ NoCommand \/ ReadFinished \/ \E k \in Kinds : Replay(k)
        <4>1. UNCHANGED signalQueue
          BY <3>4 DEF CommandDone, CloseStorage, NoCommand, ReadFinished, Replay, ReadOne
        <4> QED
          BY <3>1, <4>1
      <3> QED
        BY <2>2, <3>2, <3>3, <3>4 DEF RecorderThread
    <2>3. ASSUME NEW k \in Kinds, NEW buffer \in Buffer, Publish(k, buffer)
          PROVE  /\ raw' \in [Kinds -> [pc : {"none", "heard", "add"}, buffer : Buffer]]
                 /\ signalQueue' = signalQueue
      BY <2>3 DEF Publish, ReceiverOnly, recorderVars
    <2>4. ASSUME NEW k \in Kinds, ReceiverThread(k) PROVE BuffersTyped'
      <3>1. CASE StartStream(k) \/ StopStream(k)
        <4> DEFINE started == [status |-> "streaming", stream |-> receiver[k].stream + 1, next |-> 0]
                   flushing == [receiver[k] EXCEPT !.status = "flush"]
        <4>0. started \in Receiver /\ flushing \in Receiver
          BY DEF Receiver, ReceiverStatus
        <4>1. receiver' \in [Kinds -> Receiver]
          <5>1. \/ receiver' = receiver
                \/ receiver' = [receiver EXCEPT ![k] = started]
                \/ receiver' = [receiver EXCEPT ![k] = flushing]
            BY <3>1 DEF StartStream, StopStream
          <5> HIDE DEF started, flushing
          <5> QED
            BY <4>0, <5>1
        <4> QED
          BY <3>1, <4>1 DEF StartStream, StopStream, ReceiverOnly, recorderVars
      <3>2. CASE PublishSamples(k)
        <4>1. Data(receiver[k].stream, receiver[k].next) \in Buffer
          BY <2>0 DEF Data, Buffer, Samples, Receiver
        <4> DEFINE sent == [receiver[k] EXCEPT !.next = @ + 1]
        <4>2. receiver' \in [Kinds -> Receiver]
          <5>1. receiver' = [receiver EXCEPT ![k] = sent]
            BY <3>2 DEF PublishSamples
          <5>2. sent \in Receiver
            BY <2>0, ReceiverStays
          <5> HIDE DEF sent
          <5> QED
            BY <5>1, <5>2
        <4>3. Publish(k, Data(receiver[k].stream, receiver[k].next))
          BY <3>2 DEF PublishSamples
        <4> QED
          BY <2>3, <4>1, <4>2, <4>3
      <3>3. CASE PublishEnd(k)
        <4>1. EndOfStream("flush") \in Buffer
          BY DEF EndOfStream, Buffer, NoSamples, Samples
        <4> DEFINE ended == [receiver[k] EXCEPT !.status = "idle", !.next = MaxUnits]
        <4>2. ended \in Receiver
          BY <2>0 DEF Receiver, ReceiverStatus
        <4>3. receiver' \in [Kinds -> Receiver]
          <5>1. receiver' = [receiver EXCEPT ![k] = ended]
            BY <3>3 DEF PublishEnd
          <5> HIDE DEF ended
          <5> QED
            BY <4>2, <5>1
        <4>4. Publish(k, EndOfStream("flush"))
          BY <3>3 DEF PublishEnd
        <4> QED
          BY <2>3, <4>1, <4>3, <4>4
      <3>4. CASE Offer(k)
        <4> DEFINE offered == [raw[k] EXCEPT !.pc = IF status = "Writing" THEN "add" ELSE "none"]
        <4>1. raw' = [raw EXCEPT ![k] = offered]
          BY <3>4 DEF Offer
        <4>2. offered \in [pc : {"none", "heard", "add"}, buffer : Buffer]
          OBVIOUS
        <4>3. UNCHANGED <<receiver, signalQueue>>
          BY <3>4 DEF Offer, ReceiverOnly, recorderVars
        <4> HIDE DEF offered
        <4> QED
          BY <4>1, <4>2, <4>3
      <3>5. CASE Add(k)
        <4> DEFINE longer == Append(signalQueue[k], raw[k].buffer)
        <4>1. signalQueue' = [signalQueue EXCEPT ![k] = longer]
          BY <3>5 DEF Add
        <4>2. raw[k].buffer \in Buffer /\ signalQueue[k] \in Seq(Buffer)
          OBVIOUS
        <4>3. longer \in Seq(Buffer)
          BY <4>2
        <4> DEFINE idle == [raw[k] EXCEPT !.pc = "none"]
        <4>5. idle \in [pc : {"none", "heard", "add"}, buffer : Buffer]
          OBVIOUS
        <4>6. raw' = [raw EXCEPT ![k] = idle] /\ receiver' = receiver
          BY <3>5 DEF Add
        <4> HIDE DEF longer, idle
        <4>7. signalQueue' \in [Kinds -> Seq(Buffer)]
          BY <4>1, <4>3
        <4>8. raw' \in [Kinds -> [pc : {"none", "heard", "add"}, buffer : Buffer]]
          BY <4>5, <4>6
        <4> QED
          BY <4>6, <4>7, <4>8
      <3> QED
        BY <2>4, <3>1, <3>2, <3>3, <3>4, <3>5 DEF ReceiverThread
    <2>5. ASSUME NEW k \in Kinds, Unplug(k) PROVE BuffersTyped'
      <3>1. EndOfStream("detach") \in Buffer
        BY DEF EndOfStream, Buffer, NoSamples, Samples
      <3>2. PICK next \in receiver[k].next..MaxUnits :
              receiver' = [receiver EXCEPT ![k].status = "absent", ![k].next = next]
        BY <2>5 DEF Unplug
      <3> DEFINE gone == [receiver[k] EXCEPT !.status = "absent", !.next = next]
      <3>3. gone \in Receiver
        <4>1. receiver[k] \in Receiver /\ receiver[k].next \in Nat
          BY <2>0 DEF Receiver
        <4>2. next \in Nat
          BY <4>1
        <4> QED
          BY <4>1, <4>2, ReceiverStays
      <3>4. receiver' \in [Kinds -> Receiver]
        <4>1. receiver' = [receiver EXCEPT ![k] = gone]
          BY <3>2
        <4> HIDE DEF gone
        <4> QED
          BY <3>3, <4>1
      <3>5. Publish(k, EndOfStream("detach"))
        BY <2>5 DEF Unplug
      <3> QED
        BY <2>3, <3>1, <3>4, <3>5
    <2>6. ASSUME NEW k \in Kinds, Plug(k) PROVE BuffersTyped'
      BY <2>6 DEF Plug, ReceiverOnly, recorderVars, Receiver, ReceiverStatus
    <2>7. CASE \/ TraceCleared \/ User \/ Tick \/ UNCHANGED vars
               \/ \E k \in Kinds : DecoderThread(k)
      <3>1. UNCHANGED <<receiver, raw, signalQueue>>
        BY <2>7 DEF DecoderThread, DecoderStreaming, TraceCleared, User, Start, Stop, Open, ControlOnly, Tick, StartDecoding, vars,
                    recorderVars, partnerVars
      <3> QED
        BY <3>1
    <2> QED
      BY <2>2, <2>4, <2>5, <2>6, <2>7 DEF Next, Environment
  <1> QED
    BY <1>1, <1>2, PTL DEF Spec

-----------------------------------------------------------------------------
(* What an operation on one device does to the files. *)

(* A length that fits is its own remainder. *)
LEMMA Fits ==
  ASSUME NEW n \in Nat, n < SizeModulus
  PROVE  n % SizeModulus = n
  BY SizeAssumption

(* close(): the header of the device's own file.                             *)
LEMMA ClosedFile ==
  ASSUME NEW d \in [Names -> File], NEW device \in Device
  PROVE  /\ Closed(d, device) \in [Names -> File]
         /\ \A name \in Names :
              \/ Closed(d, device)[name] = d[name]
              \/ /\ name = device.name /\ device.mode = "Write"
                 /\ Closed(d, device)[name].exists = d[name].exists
                 /\ Closed(d, device)[name].samples = d[name].samples
         /\ device.mode = "Write" /\ ~device.failed =>
              Settled(Closed(d, device)[device.name])
  <1>1. d[device.name] \in File /\ device.name \in Names
    BY DEF Device
  <1> DEFINE length == Len(d[device.name].samples)
             closed == [d[device.name] EXCEPT !.header = length % SizeModulus]
  <1>2. /\ closed \in File /\ closed.exists = d[device.name].exists
        /\ closed.samples = d[device.name].samples /\ Settled(closed)
    <2>1. length \in Nat
      BY <1>1 DEF File
    <2>2. length % SizeModulus \in Nat
      <3> HIDE DEF length
      <3> QED
        BY <2>1, SizeAssumption
    <2>3. length < SizeModulus => length % SizeModulus = length
      <3> HIDE DEF length
      <3> QED
        BY <2>1, Fits
    <2>4. /\ closed \in File /\ closed.exists = d[device.name].exists
          /\ closed.samples = d[device.name].samples /\ closed.header = length % SizeModulus
      <3> HIDE DEF length
      <3> QED
        BY <1>1, <2>2 DEF File
    <2> HIDE DEF closed
    <2> QED
      BY <2>3, <2>4 DEF Settled
  <1>3. Closed(d, device) = IF device.mode = "Write" /\ ~device.failed
                            THEN [d EXCEPT ![device.name] = closed] ELSE d
    BY DEF Closed
  <1> HIDE DEF closed
  <1> QED
    BY <1>1, <1>2, <1>3

(* write(): the samples of the device's own file.                            *)
LEMMA WrittenFile ==
  ASSUME NEW d \in [Names -> File], NEW device \in Device, NEW samples \in Samples
  PROVE  /\ Written(d, device, samples) \in [Names -> File]
         /\ \A name \in Names :
              \/ Written(d, device, samples)[name] = d[name]
              \/ /\ name = device.name /\ device.mode = "Write"
                 /\ Written(d, device, samples)[name].samples # <<>>
         /\ device.mode = "Write" /\ Sound(device) =>
              Written(d, device, samples)[device.name].samples # <<>>
  <1>1. d[device.name] \in File /\ device.name \in Names
    BY DEF Device
  <1> DEFINE longer == Append(d[device.name].samples, samples)
             written == [d[device.name] EXCEPT !.samples = longer]
  <1>2. longer \in Seq(Samples) /\ longer # <<>>
    BY <1>1 DEF File
  <1>3. written \in File /\ written.samples # <<>>
    <2> HIDE DEF longer
    <2> QED
      BY <1>1, <1>2 DEF File
  <1>4. Written(d, device, samples) =
          IF device.mode = "Write" /\ ~device.failed THEN [d EXCEPT ![device.name] = written] ELSE d
    BY DEF Written
  <1> HIDE DEF written
  <1> QED
    BY <1>1, <1>3, <1>4 DEF Sound

(* Closing the device of a slot leaves its file settled, if it had not       *)
(* failed, whether the slot is then empty or has a file that is read.        *)
LEMMA SlotCloses ==
  ASSUME NEW d, NEW slots, FilesOK(d, slots), NEW k \in Kinds,
         NEW device,
         slots[k] # <<>> => /\ device \in Device
                            /\ device.name = slots[k][1].name /\ device.mode = slots[k][1].mode,
         NEW next \in {<<>>} \cup {<<one>> : one \in Device},
         next # <<>> => next[1] \in Device /\ next[1].name.kind = k /\ next[1].mode = "Read"
  PROVE  LET after == IF slots[k] # <<>> THEN Closed(d, device) ELSE d
             then == [slots EXCEPT ![k] = next]
         IN /\ FilesOK(after, then)
            /\ Headed(d, slots) /\ (slots[k] # <<>> => Sound(device)) => Headed(after, then)
            /\ \A name \in Names : after[name] # d[name] => WritesTo(slots, name)
  <1> DEFINE after == IF slots[k] # <<>> THEN Closed(d, device) ELSE d
             then == [slots EXCEPT ![k] = next]
  <1> USE DEF FilesOK
  <1>1. /\ after \in [Names -> File]
        /\ \A name \in Names :
             \/ after[name] = d[name]
             \/ /\ WritesTo(slots, name) /\ name.kind = k
                /\ after[name].exists = d[name].exists /\ after[name].samples = d[name].samples
        /\ (slots[k] # <<>> => Sound(device)) =>
             \A name \in Names : WritesTo(slots, name) /\ name.kind = k =>
               Settled(after[name])
    <2>1. CASE slots[k] = <<>>
      BY <2>1 DEF WritesTo
    <2>2. CASE slots[k] # <<>>
      <3>1. device.name.kind = k /\ after = Closed(d, device)
        BY <2>2
      <3> HIDE DEF after
      <3>2. /\ after \in [Names -> File]
            /\ \A name \in Names :
                 \/ after[name] = d[name]
                 \/ /\ name = device.name /\ device.mode = "Write"
                    /\ after[name].exists = d[name].exists /\ after[name].samples = d[name].samples
            /\ device.mode = "Write" /\ ~device.failed => Settled(after[device.name])
        BY <2>2, <3>1, ClosedFile
      <3>3. ASSUME NEW name \in Names, name.kind = k
            PROVE  WritesTo(slots, name) <=> name = device.name /\ device.mode = "Write"
        BY <2>2, <3>3 DEF WritesTo
      <3>4. device.name \in Names
        BY <2>2 DEF Device
      <3> HIDE DEF FilesOK
      <3> QED
        BY <2>2, <3>1, <3>2, <3>3, <3>4 DEF Sound
    <2> QED
      BY <2>1, <2>2
  <1>2. then \in [Kinds -> {<<>>} \cup {<<one>> : one \in Device}]
    OBVIOUS
  <1>3. \A j \in Kinds : then[j] # <<>> =>
          then[j][1] \in Device /\ then[j][1].name.kind = j /\ Sound(then[j][1])
    BY DEF Sound
  <1>5. \A name \in Names : Filled(after[name])
    BY <1>1 DEF Filled
  <1>4. ASSUME Headed(d, slots), slots[k] # <<>> => Sound(device), NEW name \in Names
        PROVE  WritesTo(then, name) \/ Settled(after[name])
    <2>1. name.kind \in Kinds /\ (WritesTo(slots, name) \/ Settled(d[name]))
      BY <1>4 DEF Names, Headed
    <2>2. CASE name.kind # k
      <3>1. after[name] = d[name]
        BY <1>1, <2>2
      <3>2. WritesTo(then, name) <=> WritesTo(slots, name)
        BY <2>1, <2>2 DEF WritesTo
      <3> HIDE DEF after, then
      <3> QED
        BY <2>1, <3>1, <3>2 DEF Settled
    <2>3. CASE name.kind = k
      <3>1. ~WritesTo(then, name)
        BY <2>1, <2>3 DEF WritesTo
      <3> HIDE DEF after, then
      <3>2. Settled(after[name])
        BY <1>1, <1>4, <2>1, <2>3 DEF Settled
      <3> QED
        BY <3>1, <3>2 DEF Settled
    <2> QED
      BY <2>2, <2>3
  <1> HIDE DEF after, then
  <1>6. Headed(d, slots) /\ (slots[k] # <<>> => Sound(device)) => Headed(after, then)
    BY <1>4 DEF Headed
  <1> QED
    BY <1>1, <1>2, <1>3, <1>5, <1>6 DEF after, then

(* Reading on in a file changes nothing of it. *)
LEMMA SlotReads ==
  ASSUME NEW d, NEW slots, FilesOK(d, slots), NEW k \in Kinds, slots[k] # <<>>,
         NEW device \in Device, device.name = slots[k][1].name, device.mode = slots[k][1].mode,
         Sound(device)
  PROVE  /\ FilesOK(d, [slots EXCEPT ![k] = <<device>>])
         /\ Headed(d, slots) => Headed(d, [slots EXCEPT ![k] = <<device>>])
  <1> DEFINE then == [slots EXCEPT ![k] = <<device>>]
  <1> USE DEF FilesOK
  <1>1. then[k] = <<device>> /\ \A j \in Kinds : j # k => then[j] = slots[j]
    OBVIOUS
  <1>2. then \in [Kinds -> {<<>>} \cup {<<one>> : one \in Device}]
    OBVIOUS
  <1>3. \A j \in Kinds : then[j] # <<>> =>
          then[j][1] \in Device /\ then[j][1].name.kind = j /\ Sound(then[j][1])
    BY <1>1
  <1>4. ASSUME Headed(d, slots), NEW name \in Names PROVE WritesTo(then, name) \/ Settled(d[name])
    <2>1. name.kind \in Kinds
      BY DEF Names
    <2>2. WritesTo(then, name) <=> WritesTo(slots, name)
      <3> HIDE DEF then
      <3> QED
        BY <1>1, <2>1 DEF WritesTo
    <2> HIDE DEF then
    <2> QED
      BY <1>4, <2>2 DEF Settled, Headed
  <1> HIDE DEF then
  <1>5. Headed(d, slots) => Headed(d, then)
    BY <1>4 DEF Headed
  <1> QED
    BY <1>2, <1>3, <1>5 DEF then

(* Writing, into the open file or into one that is created in an empty slot, *)
(* meets no other file.                                                      *)
LEMMA SlotWrites ==
  ASSUME FilesOK(disk, storage), NEW k \in Kinds, NEW samples \in Samples,
         NEW device \in Device, device.name.kind = k, Sound(device),
         \/ storage[k] = <<device>>
         \/ storage[k] = <<>> /\ device.mode = "Write",
         NEW next \in Device, next.name = device.name, next.mode = device.mode, Sound(next),
         disk' = Written(IF storage[k] # <<>> THEN disk ELSE Created(disk, device.name),
                         device, samples),
         storage' = [storage EXCEPT ![k] = <<next>>]
  PROVE  /\ FilesOK(disk', storage')
         /\ Headed(disk, storage) => Headed(disk', storage')
         /\ \A name \in Names :
              \/ disk'[name] = disk[name]
              \/ name = device.name /\ (WritesTo(storage, name) \/ storage[k] = <<>>)
  <1> DEFINE base == IF storage[k] # <<>> THEN disk ELSE Created(disk, device.name)
  <1> USE DEF FilesOK
  <1>1. /\ base \in [Names -> File]
        /\ \A name \in Names : name # device.name => base[name] = disk[name]
        /\ storage[k] # <<>> => base = disk
    <2>1. Truncated \in File
      <3>1. NoFile \in File
        BY DEF NoFile, File
      <3>2. ASSUME NEW file \in File PROVE [file EXCEPT !.exists = TRUE] \in File
        BY DEF File
      <3> QED
        BY <3>1, <3>2 DEF Truncated
    <2>2. base = disk \/ base = [disk EXCEPT ![device.name] = Truncated]
      BY DEF Created
    <2>3. base \in [Names -> File] /\ \A name \in Names : name # device.name => base[name] = disk[name]
      BY <2>1, <2>2
    <2> QED
      BY <2>3
  <1>2. /\ disk' \in [Names -> File]
        /\ \A name \in Names : name # device.name => disk'[name] = disk[name]
        /\ device.mode = "Write" => disk'[device.name].samples # <<>>
        /\ device.mode # "Write" => disk' = disk
    <2>1. device.mode # "Write" => disk' = base /\ base = disk
      <3>1. device.mode # "Write" => storage[k] # <<>>
        OBVIOUS
      <3>2. disk' = Written(base, device, samples)
        OBVIOUS
      <3> HIDE DEF base
      <3> QED
        BY <1>1, <3>1, <3>2 DEF Written
    <2>2. /\ disk' \in [Names -> File]
          /\ \A name \in Names : disk'[name] = base[name] \/ name = device.name
          /\ device.mode = "Write" => disk'[device.name].samples # <<>>
      <3>1. disk' = Written(base, device, samples) /\ base \in [Names -> File]
        BY <1>1
      <3>2. /\ Written(base, device, samples) \in [Names -> File]
            /\ \A name \in Names :
                 Written(base, device, samples)[name] = base[name] \/ name = device.name
            /\ device.mode = "Write" =>
                 Written(base, device, samples)[device.name].samples # <<>>
        BY <3>1, WrittenFile
      <3> QED
        BY <3>1, <3>2
    <2> QED
      BY <1>1, <2>1, <2>2
  <1>3. storage'[k] = <<next>> /\ \A j \in Kinds : j # k => storage'[j] = storage[j]
    OBVIOUS
  <1>4. storage' \in [Kinds -> {<<>>} \cup {<<one>> : one \in Device}]
    OBVIOUS
  <1>5. \A j \in Kinds : storage'[j] # <<>> =>
          storage'[j][1] \in Device /\ storage'[j][1].name.kind = j /\ Sound(storage'[j][1])
    BY <1>3
  <1>6. ASSUME Headed(disk, storage), NEW name \in Names
        PROVE  WritesTo(storage', name) \/ Settled(disk'[name])
    <2>1. name.kind \in Kinds /\ (WritesTo(storage, name) \/ Settled(disk[name]))
      BY <1>6 DEF Names, Headed
    <2>2. CASE name = device.name /\ device.mode = "Write"
      <3>1. WritesTo(storage', name)
        BY <1>3, <2>2 DEF WritesTo
      <3> QED
        BY <3>1 DEF Settled
    <2>3. CASE ~(name = device.name /\ device.mode = "Write")
      <3>1. disk'[name] = disk[name]
        BY <1>2, <2>3
      <3>2. WritesTo(storage, name) => WritesTo(storage', name)
        BY <1>3, <2>1, <2>3 DEF WritesTo
      <3>3. WritesTo(storage', name) => WritesTo(storage, name)
        BY <1>3, <2>1, <2>3 DEF WritesTo
      <3> QED
        BY <2>1, <3>1, <3>2, <3>3 DEF Settled
    <2> QED
      BY <2>2, <2>3
  <1>7. ASSUME NEW name \in Names
        PROVE  \/ disk'[name] = disk[name]
               \/ name = device.name /\ (WritesTo(storage, name) \/ storage[k] = <<>>)
    <2>1. CASE device.mode # "Write"
      BY <1>2, <2>1
    <2>2. CASE device.mode = "Write" /\ storage[k] = <<device>>
      BY <1>2, <2>2 DEF WritesTo
    <2>3. CASE storage[k] = <<>>
      BY <1>2, <2>3
    <2> QED
      BY <2>1, <2>2, <2>3
  <1>9. \A name \in Names : Filled(disk'[name])
    <2>1. ASSUME NEW name \in Names, name # device.name \/ device.mode # "Write"
          PROVE  disk'[name] = disk[name]
      BY <1>2, <2>1
    <2> QED
      BY <1>2, <2>1 DEF Filled
  <1>8. FilesOK(disk', storage')
    BY <1>2, <1>4, <1>5, <1>9
  <1>10. Headed(disk, storage) => Headed(disk', storage')
    BY <1>6 DEF Headed
  <1> QED
    BY <1>7, <1>8, <1>10

-----------------------------------------------------------------------------
(* Steps of the recorder *)

(* Only the recorder has the files in its hands. *)
LEMMA OthersLeaveFiles ==
  ASSUME [Next]_vars, ~RecorderThread
  PROVE  UNCHANGED <<disk, storage>> /\ (now' = now \/ Tick)
  BY DEF Next, vars, recorderVars, TraceCleared, User, Start, Stop, Open, ControlOnly, Environment,
         Tick, Unplug, Plug, Publish, ReceiverThread, StartStream, StopStream, PublishSamples,
         PublishEnd, Offer, Add, ReceiverOnly, DecoderThread, StartDecoding, DecoderStreaming

WriteOpen(k) == storage[k] # <<>> /\ Of(k).mode = "Write"

(* How a step of the recorder changes files and open devices: it closes one  *)
(* as it is, or as reading has left it.                                      *)
ClosesSlot(k) ==
  \E device, next :
    /\ next = <<>> \/ \E name \in Names : name.kind = k /\ next = <<Opened(name, "Read")>>
    /\ IsSet(k) => \/ device = Of(k)
                   \/ /\ status = "Reading" /\ device \in Device
                      /\ device.name = Of(k).name /\ device.mode = Of(k).mode
    /\ disk' = IF IsSet(k) THEN Closed(disk, device) ELSE disk
    /\ storage' = [storage EXCEPT ![k] = next]

(* What is read is open for reading. *)
NoneReadWriting == status = "Reading" => \A k \in Kinds : ~WriteOpen(k)

(* A step of the recorder leaves the files alone or is one of four kinds.    *)
LEMMA RecorderSteps ==
  ASSUME CommandsTyped, RecorderThread
  PROVE  \/ UNCHANGED <<disk, storage, now>>
         \/ \E k \in Kinds : ClosesSlot(k) /\ now' = now
         \/ CloseStorage
         \/ \E k \in Kinds : ReadOne(k) /\ IsSet(k)
         \/ \E k \in Kinds : WriteSamples(k)
  <1>1. CASE ResolveWrite \/ CommandDone \/ NoCommand \/ ReadFinished
    BY <1>1 DEF ResolveWrite, WriteStorage, CommandDone, NoCommand, ReadFinished
  <1>2. CASE ReadStorage
    <2> DEFINE name == Head(recorderCommands).name
    <2>1. name \in Names /\ name.kind \in Kinds
      <3>1. Head(recorderCommands) \in Command /\ Head(recorderCommands).code = "Read"
        BY <1>2, HeadTailProperties DEF ReadStorage, Handling, CommandsTyped
      <3> QED
        BY <3>1 DEF Command, Names
    <2>2. /\ disk' = IF IsSet(name.kind) THEN Closed(disk, Of(name.kind)) ELSE disk
          /\ storage' = [storage EXCEPT ![name.kind] = <<Opened(name, "Read")>>]
          /\ now' = now
      BY <1>2 DEF ReadStorage
    <2> HIDE DEF name
    <2>3. ClosesSlot(name.kind)
      BY <2>1, <2>2 DEF ClosesSlot
    <2> QED
      BY <2>1, <2>2, <2>3
  <1>3. ASSUME NEW k \in Kinds, Replay(k), ~IsSet(k) PROVE UNCHANGED <<disk, storage, now>>
    BY <1>3 DEF Replay, ReadOne
  <1>4. ASSUME NEW k \in Kinds, FinishFile(k) PROVE ClosesSlot(k) /\ now' = now
    BY <1>4 DEF FinishFile, ClosesSlot
  <1>5. ASSUME NEW k \in Kinds, NothingToWrite(k) \/ FinishNameless(k)
        PROVE  UNCHANGED <<disk, storage, now>>
    BY <1>5 DEF NothingToWrite, FinishNameless
  <1> QED
    BY <1>1, <1>2, <1>3, <1>4, <1>5 DEF RecorderThread, WriteOne, Replay

(* Reading takes a device on in its file, or closes it at the end. *)
LEMMA ReadSteps ==
  ASSUME Files, NEW k \in Kinds, ReadOne(k), IsSet(k)
  PROVE  \/ ClosesSlot(k)
         \/ /\ UNCHANGED disk
            /\ \E device \in Device :
                 /\ device.name = Of(k).name /\ device.mode = Of(k).mode /\ Sound(device)
                 /\ storage' = [storage EXCEPT ![k] = <<device>>]
  <1> DEFINE all == disk[Of(k).name].samples
             got == ReadBy(disk, Of(k), ReadLength)
             short == ~Of(k).failed /\ Len(got) < ReadLength
             after == AfterRead(disk, Of(k), ReadLength)
  <1>1. Of(k) \in Device /\ Sound(Of(k)) /\ Of(k).at \in Nat /\ all \in Seq(Samples) /\ ReadLength \in Nat
    BY DEF Files, FilesOK, Of, IsSet, Device, File
  <1>2. Len(got) \in Nat
    <2>1. CASE Of(k).mode = "Write" \/ Of(k).failed
      BY <2>1 DEF ReadBy
    <2>2. CASE ~(Of(k).mode = "Write" \/ Of(k).failed)
      <3> DEFINE to == IF Of(k).at + ReadLength < Len(all) THEN Of(k).at + ReadLength ELSE Len(all)
      <3>1. got = SubSeq(all, Of(k).at + 1, to)
        BY <2>2 DEF ReadBy
      <3>2. to \in Nat /\ to <= Len(all) /\ Of(k).at + 1 \in Nat /\ 1 <= Of(k).at + 1
        BY <1>1
      <3> HIDE DEF all, got, to
      <3>3. SubSeq(all, Of(k).at + 1, to) \in Seq(Samples)
        BY <1>1, <3>2
      <3> QED
        BY <3>1, <3>3
    <2> QED
      BY <2>1, <2>2
  <1>3. after = [Of(k) EXCEPT !.at = @ + Len(got), !.eof = @ \/ short, !.failed = @ \/ short]
    BY DEF AfterRead
  <1>4. after \in Device /\ after.name = Of(k).name /\ after.mode = Of(k).mode
    <2> HIDE DEF got, after
    <2> DEFINE moved == [Of(k) EXCEPT !.at = @ + Len(got)]
               found == [moved EXCEPT !.eof = @ \/ short]
               ended == [found EXCEPT !.failed = @ \/ short]
    <2>0. short \in BOOLEAN
      BY <1>1, <1>2 DEF Device
    <2>1. moved \in Device /\ moved.name = Of(k).name /\ moved.mode = Of(k).mode
      BY <1>1, <1>2 DEF Device
    <2>2. after = ended
      BY <1>3
    <2> HIDE DEF moved, short
    <2>3. found \in Device /\ found.name = moved.name /\ found.mode = moved.mode
      BY <2>0, <2>1 DEF Device
    <2> HIDE DEF found
    <2>4. ended \in Device /\ ended.name = found.name /\ ended.mode = found.mode
      BY <2>0, <2>3 DEF Device
    <2> HIDE DEF ended
    <2> QED
      BY <2>1, <2>2, <2>3, <2>4
  <1>5. storage' = [storage EXCEPT ![k] = IF after.eof THEN <<>> ELSE <<after>>]
    BY DEF ReadOne
  <1>6. disk' = IF storage'[k] = <<>> THEN Closed(disk, after) ELSE disk
    BY DEF ReadOne
  <1>10. Of(k).mode = "Write" => after.eof
    <2>1. Of(k).mode = "Write" => short
      BY <1>1 DEF ReadBy, Sound
    <2> HIDE DEF short, got, after
    <2> QED
      BY <1>1, <1>3, <2>1 DEF Device
  <1> HIDE DEF after
  <1>7. storage'[k] = IF after.eof THEN <<>> ELSE <<after>>
    BY <1>5 DEF Files, FilesOK
  <1>8. CASE after.eof
    <2>1. storage' = [storage EXCEPT ![k] = <<>>] /\ disk' = IF IsSet(k) THEN Closed(disk, after) ELSE disk
      BY <1>5, <1>6, <1>7, <1>8
    <2>2. status = "Reading"
      BY DEF ReadOne
    <2> QED
      BY <1>4, <2>1, <2>2 DEF ClosesSlot
  <1>9. CASE ~after.eof
    <2>1. storage' = [storage EXCEPT ![k] = <<after>>]
      BY <1>5, <1>9
    <2>2. storage'[k] # <<>>
      BY <1>7, <1>9
    <2>3. UNCHANGED disk
      BY <1>6, <2>2
    <2>4. Sound(after)
      BY <1>4, <1>9, <1>10 DEF Sound
    <2> QED
      BY <1>4, <2>1, <2>3, <2>4
  <1> QED
    BY <1>8, <1>9

(* A closed device leaves the files in order ...                             *)
LEMMA SlotClosed ==
  ASSUME Files, NEW k \in Kinds, ClosesSlot(k)
  PROVE  /\ FilesOK(disk', storage')
         /\ Headed(disk, storage) /\ (status = "Reading" => ~WriteOpen(k)) =>
              Headed(disk', storage')
         /\ \A name \in Names : disk'[name] # disk[name] => WritesTo(storage, name)
  <1>1. PICK device, next :
          /\ next = <<>> \/ \E name \in Names : name.kind = k /\ next = <<Opened(name, "Read")>>
          /\ IsSet(k) => \/ device = Of(k)
                         \/ /\ status = "Reading" /\ device \in Device
                            /\ device.name = Of(k).name /\ device.mode = Of(k).mode
          /\ disk' = IF IsSet(k) THEN Closed(disk, device) ELSE disk
          /\ storage' = [storage EXCEPT ![k] = next]
    BY DEF ClosesSlot
  <1>2. ASSUME NEW name \in Names, name.kind = k
        PROVE  /\ Opened(name, "Read") \in Device
               /\ Opened(name, "Read").name.kind = k /\ Opened(name, "Read").mode = "Read"
    BY <1>2 DEF Opened, Device
  <1>3. /\ next \in {<<>>} \cup {<<one>> : one \in Device}
        /\ next # <<>> => next[1] \in Device /\ next[1].name.kind = k /\ next[1].mode = "Read"
    BY <1>1, <1>2
  <1>4. disk' = IF storage[k] # <<>> THEN Closed(disk, device) ELSE disk
    BY <1>1 DEF IsSet
  <1>5. FilesOK(disk, storage)
    BY DEF Files
  <1>6. storage[k] # <<>> => /\ device \in Device
                             /\ device.name = storage[k][1].name /\ device.mode = storage[k][1].mode
    BY <1>1, <1>5 DEF IsSet, Of, FilesOK
  <1>7. (status = "Reading" => ~WriteOpen(k)) => (storage[k] # <<>> => Sound(device))
    BY <1>1, <1>5, <1>6 DEF IsSet, Of, FilesOK, WriteOpen, Sound
  <1> DEFINE after == IF storage[k] # <<>> THEN Closed(disk, device) ELSE disk
             then == [storage EXCEPT ![k] = next]
  <1>8. /\ FilesOK(after, then)
        /\ Headed(disk, storage) /\ (storage[k] # <<>> => Sound(device)) => Headed(after, then)
        /\ \A name \in Names : after[name] # disk[name] => WritesTo(storage, name)
    BY <1>3, <1>5, <1>6, SlotCloses
  <1>9. disk' = after /\ storage' = then
    BY <1>1, <1>4
  <1> HIDE DEF after, then
  <1> QED
    BY <1>7, <1>8, <1>9

(* ... and so do both together, when a recording is stopped.                 *)
LEMMA AllClosed ==
  ASSUME Files, CloseStorage
  PROVE  /\ FilesOK(disk', storage')
         /\ Headed(disk, storage) => Headed(disk', storage')
         /\ \A name \in Names : disk'[name] # disk[name] => WritesTo(storage, name)
  <1> DEFINE d1 == IF storage["logic"] # <<>> THEN Closed(disk, storage["logic"][1]) ELSE disk
             s1 == [storage EXCEPT !["logic"] = <<>>]
             d2 == IF s1["radio"] # <<>> THEN Closed(d1, s1["radio"][1]) ELSE d1
             s2 == [s1 EXCEPT !["radio"] = <<>>]
  <1>1. /\ FilesOK(d1, s1)
        /\ Headed(disk, storage) => Headed(d1, s1)
        /\ \A name \in Names : d1[name] # disk[name] => WritesTo(storage, name)
    <2>1. FilesOK(disk, storage) /\ "logic" \in Kinds
      BY DEF Files, Kinds
    <2>2. storage["logic"] # <<>> => storage["logic"][1] \in Device /\ Sound(storage["logic"][1])
      BY <2>1 DEF FilesOK
    <2> HIDE DEF Files
    <2> QED
      BY <2>1, <2>2, SlotCloses
  <1>2. /\ FilesOK(d2, s2)
        /\ Headed(d1, s1) => Headed(d2, s2)
        /\ \A name \in Names : d2[name] # d1[name] => WritesTo(s1, name)
    <2> HIDE DEF d1, s1
    <2>1. FilesOK(d1, s1) /\ "radio" \in Kinds
      BY <1>1 DEF Kinds
    <2>2. s1["radio"] # <<>> => s1["radio"][1] \in Device /\ Sound(s1["radio"][1])
      BY <2>1 DEF FilesOK
    <2> QED
      BY <2>1, <2>2, SlotCloses
  <1>3. storage \in [Kinds -> {<<>>} \cup {<<device>> : device \in Device}]
    BY DEF Files, FilesOK
  <1>4. s1["radio"] = storage["radio"]
    BY <1>3 DEF Kinds
  <1>5. disk' = d2
    BY <1>4 DEF CloseStorage, IsSet, Of
  <1>6. storage' = s2
    BY <1>3 DEF CloseStorage, Emptied, Kinds
  <1>7. ASSUME NEW name \in Names, disk'[name] # disk[name] PROVE WritesTo(storage, name)
    <2>1. WritesTo(s1, name) => WritesTo(storage, name)
      BY <1>3 DEF WritesTo, Kinds, Names
    <2> HIDE DEF d1, d2, s1
    <2> QED
      BY <1>1, <1>2, <1>5, <1>7, <2>1
  <1> HIDE DEF d1, d2, s1, s2
  <1> QED
    BY <1>1, <1>2, <1>5, <1>6, <1>7

(* A buffer is written into the file of its kind, or into a new one.         *)
LEMMA BufferWritten ==
  ASSUME Files, BuffersTyped, NEW k \in Kinds, WriteSamples(k)
  PROVE  /\ FilesOK(disk', storage') /\ now' = now
         /\ Headed(disk, storage) => Headed(disk', storage')
         /\ \A name \in Names : disk'[name] # disk[name] =>
              WritesTo(storage, name) \/ (name = FileName(k) /\ rpc = k /\ status = "Writing")
  <1> DEFINE device == IF storage[k] # <<>> THEN storage[k][1] ELSE Opened(FileName(k), "Write")
             next == AfterWrite(device)
             samples == Head(signalQueue[k]).samples
             base == IF storage[k] # <<>> THEN disk ELSE Created(disk, device.name)
  <1>1. FileName(k) \in Names /\ FileName(k).kind = k
    BY DEF FileName, Names, Files
  <1>2. /\ Opened(FileName(k), "Write") \in Device /\ Opened(FileName(k), "Write").mode = "Write"
        /\ Opened(FileName(k), "Write").name = FileName(k) /\ Sound(Opened(FileName(k), "Write"))
    BY <1>1 DEF Opened, Device, Sound
  <1>3. /\ FilesOK(disk, storage)
        /\ storage \in [Kinds -> {<<>>} \cup {<<one>> : one \in Device}]
        /\ storage[k] # <<>> =>
             storage[k][1] \in Device /\ storage[k][1].name.kind = k /\ Sound(storage[k][1])
    BY DEF Files, FilesOK
  <1>4. /\ device \in Device /\ device.name.kind = k /\ Sound(device)
        /\ storage[k] = <<device>> \/ (storage[k] = <<>> /\ device.mode = "Write")
    BY <1>1, <1>2, <1>3
  <1>5. samples \in Samples
    <2>1. signalQueue[k] \in Seq(Buffer) /\ signalQueue[k] # <<>>
      BY DEF BuffersTyped, WriteSamples
    <2>2. Head(signalQueue[k]) \in Buffer
      BY <2>1, HeadTailProperties
    <2> QED
      BY <2>2 DEF Buffer
  <1>6. storage' = [storage EXCEPT ![k] = <<next>>]
    BY DEF WriteSamples, IsSet, Of
  <1>7. next \in Device /\ next.name = device.name /\ next.mode = device.mode /\ Sound(next)
    <2> HIDE DEF device
    <2> QED
      BY <1>4 DEF AfterWrite, Device, Sound
  <1>8. disk' = Written(base, device, samples)
    <2>1. disk' = Written(IF storage[k] # <<>> THEN disk ELSE Created(disk, FileName(k)),
                          device, samples)
      BY DEF WriteSamples, IsSet, Of
    <2>2. base = IF storage[k] # <<>> THEN disk ELSE Created(disk, FileName(k))
      BY <1>2
    <2> QED
      BY <2>1, <2>2
  <1>9. storage[k] = <<>> => device.name = FileName(k)
    BY <1>2
  <1> HIDE DEF device, samples, next
  <1>10. /\ FilesOK(disk', storage')
         /\ Headed(disk, storage) => Headed(disk', storage')
         /\ \A name \in Names :
              \/ disk'[name] = disk[name]
              \/ name = device.name /\ (WritesTo(storage, name) \/ storage[k] = <<>>)
    <2> HIDE DEF base
    <2>1. base = IF storage[k] # <<>> THEN disk ELSE Created(disk, device.name)
      BY DEF base
    <2> QED
      BY <1>3, <1>4, <1>5, <1>6, <1>7, <1>8, <2>1, SlotWrites
  <1>11. rpc = k /\ status = "Writing" /\ now' = now
    BY DEF WriteSamples, Writing
  <1> HIDE DEF base
  <1> QED
    BY <1>6, <1>8, <1>9, <1>10, <1>11

(* A file that a step changes is being written, or created in that step; the *)
(* headers stay right as long as nothing is read that is open for writing.   *)
LEMMA FilesStep ==
  ASSUME CommandsTyped, BuffersTyped, Files, [Next]_vars
  PROVE  /\ Files'
         /\ Headed(disk, storage) /\ NoneReadWriting => Headed(disk', storage')
         /\ \A name \in Names : disk'[name] # disk[name] =>
              \/ WritesTo(storage, name)
              \/ name.second = now /\ rpc = name.kind /\ status = "Writing"
  <1> DEFINE Kept == /\ Files'
                     /\ Headed(disk, storage) /\ NoneReadWriting => Headed(disk', storage')
                     /\ \A name \in Names : disk'[name] # disk[name] => WritesTo(storage, name)
  <1>1. CASE UNCHANGED <<disk, storage>> /\ (now' = now \/ Tick)
    <2>1. now' \in 0..MaxSeconds
      BY <1>1 DEF Tick, Files
    <2> QED
      BY <1>1, <2>1 DEF Files
  <1>2. ASSUME NEW k \in Kinds, ClosesSlot(k), now' = now PROVE Kept
    <2>1. /\ FilesOK(disk', storage')
          /\ Headed(disk, storage) /\ (status = "Reading" => ~WriteOpen(k)) => Headed(disk', storage')
          /\ \A name \in Names : disk'[name] # disk[name] => WritesTo(storage, name)
      BY <1>2, SlotClosed
    <2>2. NoneReadWriting => (status = "Reading" => ~WriteOpen(k))
      BY DEF NoneReadWriting
    <2>3. Files'
      BY <1>2, <2>1 DEF Files
    <2> QED
      BY <2>1, <2>2, <2>3
  <1>3. CASE CloseStorage
    <2>1. now' = now
      BY <1>3 DEF CloseStorage
    <2> QED
      BY <1>3, <2>1, AllClosed DEF Files
  <1>4. ASSUME NEW k \in Kinds, ReadOne(k), IsSet(k) PROVE Kept
    <2>1. now' = now
      BY <1>4 DEF ReadOne
    <2>2. CASE ClosesSlot(k)
      BY <1>2, <2>1, <2>2
    <2>3. CASE /\ UNCHANGED disk
               /\ \E device \in Device :
                    /\ device.name = Of(k).name /\ device.mode = Of(k).mode /\ Sound(device)
                    /\ storage' = [storage EXCEPT ![k] = <<device>>]
      <3>1. PICK device \in Device :
              /\ device.name = Of(k).name /\ device.mode = Of(k).mode /\ Sound(device)
              /\ storage' = [storage EXCEPT ![k] = <<device>>]
        BY <2>3
      <3>2. FilesOK(disk, storage) /\ storage[k] # <<>>
            /\ device.name = storage[k][1].name /\ device.mode = storage[k][1].mode
        BY <1>4, <3>1 DEF Files, IsSet, Of
      <3>3. /\ FilesOK(disk, [storage EXCEPT ![k] = <<device>>])
            /\ Headed(disk, storage) => Headed(disk, [storage EXCEPT ![k] = <<device>>])
        BY <3>1, <3>2, SlotReads
      <3> QED
        BY <2>1, <2>3, <3>1, <3>3 DEF Files
    <2> QED
      BY <1>4, <2>2, <2>3, ReadSteps
  <1>5. ASSUME NEW k \in Kinds, WriteSamples(k)
        PROVE  /\ Files'
               /\ Headed(disk, storage) => Headed(disk', storage')
               /\ \A name \in Names : disk'[name] # disk[name] =>
                    \/ WritesTo(storage, name)
                    \/ name.second = now /\ rpc = name.kind /\ status = "Writing"
    <2>1. FileName(k).second = now /\ FileName(k).kind = k
      BY DEF FileName
    <2> QED
      BY <1>5, <2>1, BufferWritten DEF Files
  <1>6. CASE RecorderThread
    <2>1. CASE UNCHANGED <<disk, storage, now>>
      BY <1>1, <2>1
    <2> QED
      BY <1>2, <1>3, <1>4, <1>5, <1>6, <2>1, RecorderSteps
  <1> QED
    BY <1>1, <1>6, OthersLeaveFiles

(* The invariant: the files are in order in every behaviour.                 *)
LEMMA FilesAreOK == Spec => []Files
  <1>1. Init => Files
    <2> SUFFICES ASSUME Init PROVE Files
      OBVIOUS
    <2>1. /\ disk = [name \in Names |-> NoFile] /\ now = 0
          /\ storage = [k \in Kinds |-> <<>>]
      BY DEF Init, RecorderInit, DiskInit
    <2>2. NoFile \in File /\ NoFile.exists = FALSE
      BY DEF NoFile, File
    <2>3. \A name \in Names : Filled(disk[name])
      BY <2>1, <2>2 DEF Filled
    <2>4. now \in 0..MaxSeconds
      BY <2>1
    <2> QED
      BY <2>1, <2>2, <2>3, <2>4 DEF Files, FilesOK
  <1>2. CommandsTyped /\ BuffersTyped /\ Files /\ [Next]_vars => Files'
    BY FilesStep
  <1> QED
    BY <1>1, <1>2, CommandsAreTyped, BuffersAreTyped, PTL DEF Spec

(* A file that is open for writing is so in the slot of its kind.            *)
LEMMA OpenIsInSlot ==
  ASSUME Files, NEW name \in Names
  PROVE  OpenForWriting(name) <=> WritesTo(storage, name)
  <1>1. name.kind \in Kinds
    BY DEF Names
  <1> QED
    BY <1>1 DEF Files, FilesOK, OpenForWriting, InUse, IsSet, Of, WritesTo

(* writeLogic and writeRadio: a recording that is finished is never written   *)
(* to again, except that a new one created in its second replaces it.         *)
THEOREM FinishedStays == Spec => FinishedIsKept
  <1>1. CommandsTyped /\ BuffersTyped /\ Files /\ [Next]_vars =>
          [\A name \in Names :
             disk[name].exists /\ ~OpenForWriting(name) /\ disk'[name] # disk[name]
               => /\ name.second = now /\ disk[name].samples # <<>>
                  /\ rpc = name.kind /\ status = "Writing"]_vars
    <2> SUFFICES ASSUME CommandsTyped, BuffersTyped, Files, [Next]_vars, NEW name \in Names,
                        disk[name].exists, ~OpenForWriting(name), disk'[name] # disk[name]
                 PROVE  /\ name.second = now /\ disk[name].samples # <<>>
                        /\ rpc = name.kind /\ status = "Writing"
      OBVIOUS
    <2>1. ~WritesTo(storage, name) /\ Filled(disk[name])
      BY OpenIsInSlot DEF Files, FilesOK
    <2>2. disk[name].samples # <<>>
      BY <2>1 DEF Filled
    <2> QED
      BY <2>1, <2>2, FilesStep
  <1> QED
    BY <1>1, CommandsAreTyped, BuffersAreTyped, FilesAreOK, PTL DEF Spec, FinishedIsKept

-----------------------------------------------------------------------------
(* One stream per file, for receivers that stay (MaxUnplugs = 0)             *)

Running(k) == receiver[k].status \in {"streaming", "flush"}

(* A receiver at rest has sent its last buffer, and what of it the recorder  *)
(* has not got yet is the end of the stream; one that runs sends its samples *)
(* one after the other.                                                      *)
Streams ==
  /\ unplugs = 0 /\ receivers \subseteq Kinds
  /\ receiverCommands \in [Kinds -> Seq({"Start", "Stop"})]
  /\ \A k \in Kinds :
       /\ receiver[k].status = "absent" <=> k \notin receivers
       /\ raw[k].pc # "none" =>
            /\ IsValid(raw[k].buffer) <=> Running(k)
            /\ Running(k) => /\ receiver[k].next > 0
                             /\ raw[k].buffer = Data(receiver[k].stream, receiver[k].next - 1)
       /\ ~Running(k) => receiver[k].next = MaxUnits

(* the stream k sends, or the next one, is wanted in a file                  *)
Wanted(k) == <<k, receiver[k].stream>> \in recorded
NextWanted(k) == <<k, receiver[k].stream + 1>> \in recorded

(* nothing is asked of k, nor does it run                                    *)
AtRest(k) == ~Running(k) /\ receiverCommands[k] = <<>> /\ decoderCommands[k] = <<>>

(* from the start of the decoder to the stream                               *)
Starting(k) ==
  \/ k \notin receivers /\ AtRest(k)
  \/ /\ k \in receivers /\ receiver[k].status = "idle" /\ NextWanted(k)
     /\ \/ receiverCommands[k] = <<>> /\ decoderCommands[k] = <<[then |-> "start"]>>
        \/ receiverCommands[k] = <<"Start">> /\ decoderCommands[k] = <<>>
  \/ /\ k \in receivers /\ receiver[k].status = "streaming" /\ Wanted(k)
     /\ receiverCommands[k] = <<>> /\ decoderCommands[k] = <<>>

Ending(k) ==
  /\ decoderCommands[k] = <<>>
  /\ \/ receiverCommands[k] = <<>>
     \/ receiverCommands[k] = <<"Stop">> /\ receiver[k].status = "streaming"
  /\ Running(k) => Wanted(k)

(* The recorder writes, or is going to.                                      *)
Writes(commands) == \E i \in 1..Len(commands) : commands[i].code = "Write"
Clearing(calls) == \E i \in 1..Len(calls) : calls[i].then = "write"

Recorded ==
  status = "Writing" \/ rpc = "writing" \/ Writes(recorderCommands) \/ Clearing(clears)

(* the recording is asked for, under way or to be stopped                    *)
Ordered ==
  /\ \/ clears = <<[then |-> "write"]>> /\ recorderCommands = <<>>
     \/ clears = <<>> /\ recorderCommands = <<[code |-> "Write"]>>
  /\ status # "Writing" /\ rpc \notin {"writing", "reading"}
  /\ \A k \in Kinds : AtRest(k) /\ NextWanted(k)

Going ==
  /\ clears = <<>> /\ recorderCommands = <<>>
  /\ rpc # "reading" /\ ~(rpc = "writing" /\ status = "Writing")
  /\ \A k \in Kinds : Starting(k)

Stopping ==
  /\ clears = <<>> /\ recorderCommands = <<[code |-> "Stop"]>>
  /\ rpc \notin {"writing", "reading"} /\ status = "Writing"
  /\ \A k \in Kinds : Ending(k)

(* From a start with a storage path to the stop the user has to give, nobody *)
(* gives another command: something streams, or is about to.                 *)
Acquisition ==
  Recorded => storagePath /\ receivers # {} /\ (Ordered \/ Going \/ Stopping)

Follows(a, b) == b.stream = a.stream /\ b.offset = a.offset + 1

Contents(k) == disk[Of(k).name].samples
LastOf(s) == s[Len(s)]

(* what the queue of k gets next                                             *)
Coming(k) ==
  IF raw[k].pc # "none" THEN raw[k].buffer.samples
                        ELSE [stream |-> receiver[k].stream, offset |-> receiver[k].next]

(* of k nothing has been recorded yet                                        *)
Unheard(k) ==
  /\ ~WriteOpen(k)
  /\ \A i \in DOMAIN signalQueue[k] : ~IsValid(signalQueue[k][i])
  /\ raw[k].pc = "add" => ~IsValid(raw[k].buffer)

(* The file, the queue and what the receiver sends are of one piece.         *)
Line(k) ==
  LET q == signalQueue[k] IN
  /\ \A i \in 1..Len(q) : IsValid(q[i]) => <<k, q[i].samples.stream>> \in recorded
  /\ \A i \in 1..Len(q) - 1 :
       IsValid(q[i]) /\ IsValid(q[i + 1]) => Follows(q[i].samples, q[i + 1].samples)
  /\ WriteOpen(k) => Contents(k) # <<>>
  /\ WriteOpen(k) /\ q # <<>> /\ IsValid(q[1]) => Follows(LastOf(Contents(k)), q[1].samples)
  /\ Running(k) /\ q # <<>> /\ IsValid(q[Len(q)]) => Follows(q[Len(q)].samples, Coming(k))
  /\ Running(k) /\ q = <<>> /\ WriteOpen(k) => Follows(LastOf(Contents(k)), Coming(k))

(* Lines hold while the recorder writes, and nothing is left of the stream   *)
(* before when it begins to.                                                 *)
InLine(k) ==
  /\ status = "Writing" => Line(k)
  /\ status # "Writing" => ~WriteOpen(k)
  /\ rpc = "writing" => Unheard(k)
  /\ status = "Writing" /\ recorderCommands = <<>> /\ receiver[k].status # "streaming" => Unheard(k)

Lines == \A k \in Kinds : InLine(k)

OneStream(samples) ==
  \A i, j \in 1..Len(samples) :
    samples[i].stream = samples[j].stream /\ samples[j].offset - samples[i].offset = j - i

Pieces ==
  \A name \in Names : LET samples == disk[name].samples IN
    /\ OneStream(samples)
    /\ \A i \in 1..Len(samples) : <<name.kind, samples[i].stream>> \in recorded

One == Streams /\ Acquisition /\ Lines /\ Pieces

(* What a receiver does changes nothing of the other one.                    *)
LEMMA ReceiverMoves ==
  ASSUME BuffersTyped, Streams, NEW k \in Kinds, ReceiverThread(k)
  PROVE  /\ UNCHANGED <<disk, rpc, status, storage, recorderCommands, now, alive, receivers,
                        unplugs, decoderCommands, controlVars>>
         /\ \A j \in Kinds \ {k} :
              /\ receiver'[j] = receiver[j] /\ raw'[j] = raw[j]
              /\ receiverCommands'[j] = receiverCommands[j] /\ signalQueue'[j] = signalQueue[j]
         /\ receiverCommands' \in [Kinds -> Seq({"Start", "Stop"})]
  <1> USE DEF BuffersTyped, Streams
  <1>1. receiverCommands[k] # <<>> => Tail(receiverCommands[k]) \in Seq({"Start", "Stop"})
    BY HeadTailProperties
  <1>2. CASE StartStream(k) \/ StopStream(k)
    <2>1. /\ UNCHANGED <<raw, unplugs, recorderVars, receivers, decoderCommands, controlVars>>
          /\ receiverCommands[k] # <<>>
          /\ receiverCommands' = [receiverCommands EXCEPT ![k] = Tail(receiverCommands[k])]
      BY <1>2 DEF StartStream, StopStream, ReceiverOnly
    <2>2. \A j \in Kinds \ {k} : receiver'[j] = receiver[j]
      BY <1>2 DEF StartStream, StopStream
    <2> QED
      BY <1>1, <2>1, <2>2 DEF recorderVars
  <1>3. CASE PublishSamples(k) \/ PublishEnd(k)
    <2>1. /\ UNCHANGED <<receiverCommands, unplugs, recorderVars, receivers, decoderCommands, controlVars>>
          /\ \E buffer : raw' = [raw EXCEPT ![k] = [pc |-> "heard", buffer |-> buffer]]
      BY <1>3 DEF PublishSamples, PublishEnd, Publish, ReceiverOnly
    <2>2. \A j \in Kinds \ {k} : receiver'[j] = receiver[j]
      BY <1>3 DEF PublishSamples, PublishEnd
    <2> QED
      BY <2>1, <2>2 DEF recorderVars
  <1>4. CASE Offer(k)
    BY <1>4 DEF Offer, ReceiverOnly, recorderVars
  <1>5. CASE Add(k)
    BY <1>5 DEF Add
  <1> QED
    BY <1>2, <1>3, <1>4, <1>5 DEF ReceiverThread

(* Nobody but a receiver changes what it has sent.                           *)
LEMMA StreamsStep ==
  ASSUME MaxUnplugs = 0, BuffersTyped, CommandsTyped, Streams, [Next]_vars
  PROVE  Streams'
  <1>0. /\ receiver \in [Kinds -> Receiver] /\ signalQueue \in [Kinds -> Seq(Buffer)]
        /\ raw \in [Kinds -> [pc : {"none", "heard", "add"}, buffer : Buffer]]
        /\ receiverCommands \in [Kinds -> Seq({"Start", "Stop"})]
    BY DEF BuffersTyped, Streams
  <1>1. ASSUME UNCHANGED <<receiver, raw, receivers, unplugs>>,
               receiverCommands' \in [Kinds -> Seq({"Start", "Stop"})]
        PROVE  Streams'
    BY <1>1 DEF Streams, Running
  <1>2. ASSUME NEW k \in Kinds, ReceiverThread(k) PROVE Streams'
    <2>1. /\ UNCHANGED <<receivers, unplugs>>
          /\ \A j \in Kinds \ {k} : receiver'[j] = receiver[j] /\ raw'[j] = raw[j]
          /\ receiverCommands' \in [Kinds -> Seq({"Start", "Stop"})]
      BY <1>2, ReceiverMoves
    <2> SUFFICES /\ receiver'[k].status = "absent" <=> k \notin receivers
                 /\ raw'[k].pc # "none" =>
                      /\ IsValid(raw'[k].buffer) <=> Running(k)'
                      /\ Running(k)' => /\ receiver'[k].next > 0
                                        /\ raw'[k].buffer = Data(receiver'[k].stream, receiver'[k].next - 1)
                 /\ ~Running(k)' => receiver'[k].next = MaxUnits
      BY <2>1 DEF Streams, Running
    <2>2. /\ receiver[k] \in Receiver /\ receiver[k].next \in Nat /\ receiver[k].stream \in Nat
          /\ receiver[k].status = "absent" <=> k \notin receivers
          /\ raw[k].pc # "none" =>
               /\ IsValid(raw[k].buffer) <=> Running(k)
               /\ Running(k) => /\ receiver[k].next > 0
                                /\ raw[k].buffer = Data(receiver[k].stream, receiver[k].next - 1)
          /\ ~Running(k) => receiver[k].next = MaxUnits
      BY <1>0 DEF Streams, Receiver
    <2>3. CASE StartStream(k) \/ StopStream(k)
      <3>1. raw'[k] = raw[k] /\ raw[k].pc = "none"
        BY <2>3 DEF StartStream, StopStream, Ready
      <3>2. \/ receiver' = receiver
            \/ receiver[k].status # "absent" /\ receiver'[k].status \in {"streaming", "flush"}
        <4>1. CASE StartStream(k)
          BY <1>0, <4>1 DEF StartStream
        <4>2. CASE StopStream(k)
          BY <1>0, <2>2, <4>2 DEF StopStream, Receiver
        <4> QED
          BY <2>3, <4>1, <4>2
      <3>3. CASE receiver' = receiver
        BY <2>2, <3>1, <3>3 DEF Running
      <3>4. CASE receiver[k].status # "absent" /\ receiver'[k].status \in {"streaming", "flush"}
        BY <2>2, <3>1, <3>4 DEF Running
      <3> QED
        BY <3>2, <3>3, <3>4
    <2>4. CASE PublishSamples(k)
      <3> DEFINE sent == [status |-> receiver[k].status, stream |-> receiver[k].stream,
                          next |-> receiver[k].next + 1]
      <3>1. /\ receiver[k].next < MaxUnits
            /\ raw' = [raw EXCEPT ![k] = [pc |-> "heard", buffer |-> Data(receiver[k].stream, receiver[k].next)]]
            /\ receiver' = [receiver EXCEPT ![k].next = @ + 1]
        BY <2>4 DEF PublishSamples, Publish
      <3>2. receiver'[k] = [receiver[k] EXCEPT !.next = @ + 1]
        BY <1>0, <3>1
      <3>3. receiver'[k] = sent
        <4>1. receiver[k] = [status |-> receiver[k].status, stream |-> receiver[k].stream, next |-> receiver[k].next]
          BY <2>2 DEF Receiver
        <4> HIDE DEF sent
        <4>2. [receiver[k] EXCEPT !.next = @ + 1] = sent
          BY <4>1 DEF sent
        <4> QED
          BY <3>2, <4>2
      <3>4. Running(k) /\ Running(k)'
        BY <2>2, <3>1, <3>3 DEF Running
      <3>5. raw'[k] = [pc |-> "heard", buffer |-> Data(receiver[k].stream, receiver[k].next)]
        BY <1>0, <3>1
      <3>6. IsValid(raw'[k].buffer)
        BY <3>5 DEF Data, IsValid
      <3>7. receiver'[k].next - 1 = receiver[k].next /\ receiver'[k].next > 0
        BY <2>2, <3>3
      <3>8. receiver'[k].status = receiver[k].status /\ receiver'[k].stream = receiver[k].stream
        BY <3>3
      <3> QED
        BY <2>1, <2>2, <3>4, <3>5, <3>6, <3>7, <3>8
    <2>5. CASE PublishEnd(k)
      <3> DEFINE ended == [receiver[k] EXCEPT !.status = "idle", !.next = MaxUnits]
      <3>1. /\ receiver[k].status = "flush"
            /\ raw' = [raw EXCEPT ![k] = [pc |-> "heard", buffer |-> EndOfStream("flush")]]
            /\ receiver' = [receiver EXCEPT ![k] = ended]
        BY <2>5 DEF PublishEnd, Publish
      <3>2. ended.status = "idle" /\ ended.next = MaxUnits
        BY <2>2 DEF Receiver
      <3> HIDE DEF ended
      <3>3. receiver'[k].status = "idle" /\ receiver'[k].next = MaxUnits /\ ~IsValid(raw'[k].buffer)
        BY <1>0, <3>1, <3>2 DEF EndOfStream, IsValid
      <3> QED
        BY <2>2, <3>1, <3>3 DEF Running
    <2>6. CASE Offer(k) \/ Add(k)
      <3>1. receiver' = receiver /\ raw'[k].buffer = raw[k].buffer /\ raw[k].pc # "none"
        BY <1>0, <2>6 DEF Offer, Add
      <3> QED
        BY <2>2, <3>1 DEF Running
    <2> QED
      BY <1>2, <2>3, <2>4, <2>5, <2>6 DEF ReceiverThread
  <1>3. CASE \/ RecorderThread \/ TraceCleared \/ Tick \/ UNCHANGED vars
             \/ \E k \in Kinds : DecoderStreaming(k)
    BY <1>0, <1>1, <1>3 DEF RecorderThread, ResolveWrite, Replay, TraceCleared, Tick, vars, partnerVars,
                            DecoderStreaming
  <1>4. ASSUME NEW k \in Kinds, StartDecoding(k) PROVE Streams'
    <2>1. receiverCommands' \in [Kinds -> Seq({"Start", "Stop"})]
      <3>1. \/ receiverCommands' = receiverCommands
            \/ receiverCommands' = [receiverCommands EXCEPT ![k] = Append(receiverCommands[k], "Start")]
        BY <1>4 DEF StartDecoding
      <3>2. Append(receiverCommands[k], "Start") \in Seq({"Start", "Stop"})
        BY <1>0
      <3> QED
        BY <1>0, <3>1, <3>2
    <2> QED
      BY <1>1, <1>4, <2>1 DEF StartDecoding
  <1>5. CASE User
    <2>1. receiverCommands' \in [Kinds -> Seq({"Start", "Stop"})]
      <3>1. \A k \in Kinds : Append(receiverCommands[k], "Stop") \in Seq({"Start", "Stop"})
        BY <1>0
      <3>2. \/ receiverCommands' = receiverCommands
            \/ receiverCommands' = [k \in Kinds |-> IF receiver[k].status # "absent"
                                                   THEN Append(receiverCommands[k], "Stop")
                                                   ELSE receiverCommands[k]]
        BY <1>5 DEF User, Start, Stop, Open
      <3>3. \A k \in Kinds : receiverCommands[k] \in Seq({"Start", "Stop"})
        BY <1>0
      <3>4. CASE receiverCommands' = [k \in Kinds |-> IF receiver[k].status # "absent"
                                                     THEN Append(receiverCommands[k], "Stop")
                                                     ELSE receiverCommands[k]]
        BY <3>1, <3>3, <3>4
      <3> QED
        BY <1>0, <3>2, <3>4
    <2> QED
      BY <1>1, <1>5, <2>1 DEF User, Start, Stop, Open, ControlOnly
  <1>6. ASSUME NEW k \in Kinds, Unplug(k) \/ Plug(k) PROVE FALSE
    BY <1>6 DEF Unplug, Plug, Streams
  <1> QED
    BY <1>2, <1>3, <1>4, <1>5, <1>6 DEF Next, Environment, DecoderThread

(* A user who waits finds no recording under way.                            *)
LEMMA NobodyRecords ==
  ASSUME Streams, Acquisition, ~Busy, ~Underway
  PROVE  ~Recorded
  <1> SUFFICES ASSUME Recorded PROVE FALSE
    OBVIOUS
  <1>1. receivers # {} /\ (Ordered \/ Going \/ Stopping)
    BY DEF Acquisition
  <1>2. CASE Ordered
    <2>1. <<[then |-> "write"]>> # <<>> /\ <<[code |-> "Write"]>> # <<>>
      OBVIOUS
    <2>2. clears # <<>> \/ recorderCommands # <<>>
      BY <1>2, <2>1 DEF Ordered
    <2> QED
      BY <2>2 DEF Underway
  <1>3. CASE Going
    <2>1. PICK k \in receivers : TRUE
      BY <1>1
    <2>2. k \in Kinds /\ Starting(k)
      BY <1>3, <2>1 DEF Going, Streams
    <2>3. <<[then |-> "start"]>> # <<>> /\ <<"Start">> # <<>>
      OBVIOUS
    <2>4. \/ decoderCommands[k] = <<[then |-> "start"]>> \/ receiverCommands[k] = <<"Start">>
          \/ receiver[k].status = "streaming"
      BY <2>1, <2>2 DEF Starting
    <2> QED
      BY <2>2, <2>3, <2>4 DEF Busy, Underway
  <1>4. CASE Stopping
    <2>1. <<[code |-> "Stop"]>> # <<>>
      OBVIOUS
    <2> QED
      BY <1>4, <2>1 DEF Stopping, Underway
  <1> QED
    BY <1>1, <1>2, <1>3, <1>4

(* What a queue of one, or a shorter one, has in it.                         *)
LEMMA Queued ==
  /\ ~Writes(<<>>) /\ ~Clearing(<<>>)
  /\ \A e : (Writes(<<e>>) <=> e.code = "Write") /\ (Clearing(<<e>>) <=> e.then = "write")
  /\ \A q \in Seq(Command) : q # <<>> =>
       /\ Writes(Tail(q)) => Writes(q)
       /\ Head(q).code = "Write" => Writes(q)
  /\ \A q \in Seq(Then) : q # <<>> =>
       /\ Clearing(Tail(q)) => Clearing(q)
       /\ Head(q).then = "write" => Clearing(q)
  <1>1. \A q \in Seq(Command) : q # <<>> =>
          /\ Len(Tail(q)) = Len(q) - 1 /\ Len(q) >= 1 /\ Head(q) = q[1]
          /\ \A i \in 1..Len(Tail(q)) : Tail(q)[i] = q[i + 1]
    OBVIOUS
  <1>2. \A q \in Seq(Then) : q # <<>> =>
          /\ Len(Tail(q)) = Len(q) - 1 /\ Len(q) >= 1 /\ Head(q) = q[1]
          /\ \A i \in 1..Len(Tail(q)) : Tail(q)[i] = q[i + 1]
    OBVIOUS
  <1>3. \A n \in Nat : n >= 1 => /\ 1 \in 1..n
                                 /\ \A i \in 1..n - 1 : i + 1 \in 1..n
    OBVIOUS
  <1>4. ASSUME NEW q \in Seq(Command), q # <<>>
        PROVE  /\ Writes(Tail(q)) => Writes(q)
               /\ Head(q).code = "Write" => Writes(q)
    <2>1. Len(q) \in Nat
      OBVIOUS
    <2> QED
      BY <1>1, <1>3, <1>4, <2>1 DEF Writes
  <1>5. ASSUME NEW q \in Seq(Then), q # <<>>
        PROVE  /\ Clearing(Tail(q)) => Clearing(q)
               /\ Head(q).then = "write" => Clearing(q)
    <2>1. Len(q) \in Nat
      OBVIOUS
    <2> QED
      BY <1>2, <1>3, <1>5, <2>1 DEF Clearing
  <1>6. \A e : Len(<<e>>) = 1 /\ <<e>>[1] = e
    OBVIOUS
  <1>7. \A e : (Writes(<<e>>) <=> e.code = "Write") /\ (Clearing(<<e>>) <=> e.then = "write")
    BY <1>6 DEF Writes, Clearing
  <1>8. ~Writes(<<>>) /\ ~Clearing(<<>>)
    BY DEF Writes, Clearing
  <1> QED
    BY <1>4, <1>5, <1>7, <1>8

(* The recorder takes an acquisition on, and leaves the others alone.        *)
LEMMA RecorderRecords ==
  ASSUME CommandsTyped, BuffersTyped, Streams, Acquisition, RecorderThread
  PROVE  Acquisition'
  <1>0. /\ UNCHANGED <<clears, storagePath, receivers, receiver, receiverCommands, recorded>>
        /\ recorderCommands \in Seq(Command) /\ clears \in Seq(Then)
        /\ decoderCommands \in [Kinds -> Seq(Then)] /\ receiver \in [Kinds -> Receiver]
    BY DEF RecorderThread, ResolveWrite, Replay, partnerVars, controlVars, CommandsTyped, BuffersTyped
  <1>1. CASE ResolveWrite
    <2>1. /\ recorderCommands # <<>> /\ Head(recorderCommands).code = "Write"
          /\ recorderCommands' = Tail(recorderCommands) /\ rpc' = "writing" /\ UNCHANGED status
          /\ StartDecoders
      BY <1>1 DEF ResolveWrite, WriteStorage, Handling
    <2>2. Recorded
      BY <1>0, <2>1, Queued DEF Recorded
    <2>3. storagePath /\ receivers # {} /\ Ordered /\ recorderCommands = <<[code |-> "Write"]>>
      <3>1. storagePath /\ receivers # {} /\ (Ordered \/ Going \/ Stopping)
        BY <2>2 DEF Acquisition
      <3>2. ~Going
        BY <2>1 DEF Going
      <3>3. ~Stopping
        <4> SUFFICES ASSUME Stopping PROVE FALSE
          OBVIOUS
        <4>1. recorderCommands = <<[code |-> "Stop"]>>
          BY DEF Stopping
        <4> QED
          BY <2>1, <4>1
      <3> QED
        BY <2>1, <3>1, <3>2, <3>3 DEF Ordered
    <2>4. clears' = <<>> /\ recorderCommands' = <<>> /\ status' # "Writing"
      <3>1. Tail(<<[code |-> "Write"]>>) = <<>>
        OBVIOUS
      <3>2. clears = <<>>
        BY <2>3 DEF Ordered
      <3> QED
        BY <1>0, <2>1, <2>3, <3>1, <3>2 DEF Ordered
    <2>5. ASSUME NEW k \in Kinds PROVE Starting(k)'
      <3>1. /\ ~Running(k) /\ receiverCommands[k] = <<>> /\ decoderCommands[k] = <<>> /\ NextWanted(k)
            /\ receiver[k].status \in ReceiverStatus /\ (receiver[k].status = "absent" <=> k \notin receivers)
        BY <1>0, <2>3 DEF Ordered, AtRest, Receiver, Streams
      <3>2. decoderCommands'[k] = IF receiver[k].status # "absent"
                                  THEN <<[then |-> "start"]>> ELSE <<>>
        <4>1. decoderCommands'[k] = IF receiver[k].status # "absent"
                                    THEN Append(decoderCommands[k], [then |-> "start"]) ELSE decoderCommands[k]
          BY <2>1 DEF StartDecoders
        <4>2. Append(<<>>, [then |-> "start"]) = <<[then |-> "start"]>>
          OBVIOUS
        <4> QED
          BY <3>1, <4>1, <4>2
      <3>3. CASE k \in receivers
        BY <1>0, <3>1, <3>2, <3>3 DEF Starting, Running, NextWanted, ReceiverStatus
      <3>4. CASE k \notin receivers
        BY <1>0, <3>1, <3>2, <3>4 DEF Starting, AtRest, Running
      <3> QED
        BY <3>3, <3>4
    <2>6. Going'
      BY <2>1, <2>4, <2>5 DEF Going
    <2> QED
      BY <1>0, <2>3, <2>6 DEF Acquisition
  <1>2. CASE ~ResolveWrite
    <2>1. UNCHANGED decoderCommands
      BY <1>2 DEF RecorderThread, Replay, partnerVars
    <2>2. \A k \in Kinds : /\ AtRest(k)' <=> AtRest(k)
                           /\ NextWanted(k)' <=> NextWanted(k)
                           /\ Starting(k)' <=> Starting(k)
                           /\ Ending(k)' <=> Ending(k)
      BY <1>0, <2>1 DEF AtRest, Running, NextWanted, Starting, Wanted, Ending
    <2>3. CASE UNCHANGED <<recorderCommands, status>> /\ rpc \notin {"writing", "reading"} /\ rpc' \notin {"writing", "reading"}
      BY <1>0, <2>2, <2>3 DEF Acquisition, Recorded, Ordered, Going, Stopping
    <2>4. CASE ReadStorage
      <3>1. /\ recorderCommands # <<>> /\ Head(recorderCommands).code = "Read"
            /\ recorderCommands' = Tail(recorderCommands) /\ rpc' = "reading" /\ UNCHANGED status
        BY <2>4 DEF ReadStorage, Handling
      <3>2. ~Recorded
        <4> SUFFICES ASSUME Ordered \/ Going \/ Stopping PROVE FALSE
          BY DEF Acquisition
        <4>1. recorderCommands \in {<<>>, <<[code |-> "Write"]>>, <<[code |-> "Stop"]>>}
          BY DEF Ordered, Going, Stopping
        <4> QED
          BY <3>1, <4>1
      <3> QED
        BY <1>0, <3>1, <3>2, Queued DEF Acquisition, Recorded
    <2>5. CASE CommandDone
      <3>1. /\ rpc \in {"writing", "reading"} /\ rpc' = "logic" /\ UNCHANGED recorderCommands
            /\ status' = IF rpc = "writing" THEN "Writing" ELSE "Reading"
        BY <2>5 DEF CommandDone
      <3>2. CASE rpc = "writing"
        <4>1. storagePath /\ receivers # {} /\ (Ordered \/ Going \/ Stopping)
          BY <3>2 DEF Acquisition, Recorded
        <4>2. Going
          BY <3>2, <4>1 DEF Ordered, Stopping
        <4>3. Going'
          BY <1>0, <2>2, <3>1, <4>2 DEF Going
        <4> QED
          BY <1>0, <4>1, <4>3 DEF Acquisition
      <3>3. CASE rpc = "reading"
        <4>1. ~Recorded
          BY <3>3 DEF Acquisition, Ordered, Going, Stopping
        <4> QED
          BY <1>0, <3>1, <3>3, <4>1 DEF Acquisition, Recorded
      <3> QED
        BY <3>1, <3>2, <3>3
    <2>6. CASE CloseStorage
      <3>1. /\ recorderCommands # <<>> /\ Head(recorderCommands).code = "Stop"
            /\ recorderCommands' = Tail(recorderCommands) /\ rpc' = "command" /\ status' = "Idle"
        BY <2>6 DEF CloseStorage, Handling
      <3>2. CASE Recorded
        <4>1. Ordered \/ Going \/ Stopping
          BY <3>2 DEF Acquisition
        <4>2. ~Going
          BY <3>1 DEF Going
        <4>3. ~Ordered
          <5>1. Ordered => recorderCommands \in {<<>>, <<[code |-> "Write"]>>}
            BY DEF Ordered
          <5> QED
            BY <3>1, <5>1
        <4>4. clears' = <<>> /\ recorderCommands' = <<>>
          BY <1>0, <3>1, <4>1, <4>2, <4>3 DEF Stopping
        <4> QED
          BY <3>1, <4>4, Queued DEF Acquisition, Recorded
      <3>3. CASE ~Recorded
        BY <1>0, <3>1, <3>3, Queued DEF Acquisition, Recorded
      <3> QED
        BY <3>2, <3>3
    <2>7. CASE ReadFinished
      <3>1. rpc = "check" /\ rpc' = "command" /\ status' \in {"Idle", status} /\ UNCHANGED recorderCommands
        BY <2>7 DEF ReadFinished
      <3>2. CASE status' = status
        BY <2>3, <3>1, <3>2
      <3>3. CASE status' = "Idle"
        <4> SUFFICES ASSUME Recorded' PROVE Acquisition'
          BY DEF Acquisition
        <4>1. Writes(recorderCommands) \/ Clearing(clears)
          BY <1>0, <3>1, <3>3 DEF Recorded
        <4>2. Ordered \/ Going \/ Stopping
          BY <4>1 DEF Acquisition, Recorded
        <4>3. Ordered
          <5>1. Going => ~Writes(recorderCommands) /\ ~Clearing(clears)
            BY Queued DEF Going
          <5>2. Stopping => ~Writes(recorderCommands) /\ ~Clearing(clears)
            <6> SUFFICES ASSUME Stopping PROVE ~Writes(recorderCommands) /\ ~Clearing(clears)
              OBVIOUS
            <6>1. recorderCommands = <<[code |-> "Stop"]>> /\ clears = <<>>
              BY DEF Stopping
            <6>2. ~Writes(<<[code |-> "Stop"]>>)
              BY Queued
            <6> QED
              BY <6>1, <6>2, Queued
          <5> QED
            BY <4>1, <4>2, <5>1, <5>2
        <4>4. Ordered'
          BY <1>0, <2>2, <3>1, <3>3, <4>3 DEF Ordered
        <4> QED
          BY <1>0, <4>1, <4>4 DEF Acquisition, Recorded
      <3> QED
        BY <3>1, <3>2, <3>3
    <2>8. CASE NoCommand
      BY <2>3, <2>8 DEF NoCommand
    <2>9. ASSUME NEW k \in Kinds, Replay(k) \/ WriteOne(k) PROVE Acquisition'
      <3>1. /\ UNCHANGED <<recorderCommands, status>>
            /\ rpc \notin {"writing", "reading"} /\ rpc' \notin {"writing", "reading"}
        BY <2>9 DEF Replay, ReadOne, WriteOne, NothingToWrite, WriteSamples, FinishFile, FinishNameless,
                    Writing, Kinds
      <3> QED
        BY <2>3, <3>1
    <2> QED
      BY <1>2, <2>4, <2>5, <2>6, <2>7, <2>8, <2>9 DEF RecorderThread
  <1> QED
    BY <1>1, <1>2

(* A receiver at rest stays so, one that is started streams what is wanted,  *)
(* and one that is stopped goes on with it until it is at rest.              *)
LEMMA ReceiverKeeps ==
  ASSUME BuffersTyped, Streams, NEW k \in Kinds, ReceiverThread(k), NEW j \in Kinds
  PROVE  /\ AtRest(j) /\ NextWanted(j) => AtRest(j)' /\ NextWanted(j)'
         /\ Starting(j) => Starting(j)'
         /\ Ending(j) => Ending(j)'
  <1> USE DEF AtRest, NextWanted, Starting, Ending, Wanted, Running
  <1>1. /\ UNCHANGED <<recorded, receivers, decoderCommands>>
        /\ \A i \in Kinds \ {k} : receiver'[i] = receiver[i] /\ receiverCommands'[i] = receiverCommands[i]
    BY ReceiverMoves DEF controlVars
  <1>2. CASE j # k
    BY <1>1, <1>2
  <1>3. CASE receiverCommands'[j] = receiverCommands[j] /\ receiver'[j] = receiver[j]
    BY <1>1, <1>3
  <1> SUFFICES ASSUME j = k PROVE /\ AtRest(k) /\ NextWanted(k) => AtRest(k)' /\ NextWanted(k)'
                                  /\ Starting(k) => Starting(k)'
                                  /\ Ending(k) => Ending(k)'
    BY <1>2
  <1>0. /\ receiver \in [Kinds -> Receiver] /\ receiver[k] \in Receiver
        /\ receiverCommands \in [Kinds -> Seq({"Start", "Stop"})]
        /\ receiver[k].status \in ReceiverStatus /\ receiver[k].stream \in Nat
        /\ receiver[k].status = "absent" <=> k \notin receivers
        /\ ~Running(k) => receiver[k].next = MaxUnits
    BY DEF BuffersTyped, Streams, Receiver
  <1>4. /\ Head(<<"Start">>) = "Start" /\ Tail(<<"Start">>) = <<>>
        /\ Head(<<"Stop">>) = "Stop" /\ Tail(<<"Stop">>) = <<>>
    OBVIOUS
  <1>5. CASE StartStream(k)
    <2>1. /\ receiverCommands[k] # <<>> /\ Head(receiverCommands[k]) = "Start"
          /\ receiverCommands' = [receiverCommands EXCEPT ![k] = Tail(receiverCommands[k])]
          /\ receiver' = IF receiver[k].status = "absent" THEN receiver
                         ELSE [receiver EXCEPT ![k] = [status |-> "streaming",
                                                       stream |-> @.stream + 1, next |-> 0]]
      BY <1>5 DEF StartStream
    <2>2. ~AtRest(k) /\ ~Ending(k)
      <3>1. receiverCommands[k] # <<>> /\ receiverCommands[k] # <<"Stop">>
        BY <2>1, <1>4
      <3> QED
        BY <3>1
    <2>3. ASSUME Starting(k) PROVE Starting(k)'
      <3>1. /\ k \in receivers /\ receiver[k].status = "idle" /\ NextWanted(k)
            /\ receiverCommands[k] = <<"Start">> /\ decoderCommands[k] = <<>>
        BY <2>1, <2>2, <2>3
      <3>2. receiverCommands'[k] = <<>>
        BY <1>0, <1>4, <2>1, <3>1
      <3>3. receiver'[k].status = "streaming" /\ receiver'[k].stream = receiver[k].stream + 1
        BY <1>0, <2>1, <3>1
      <3> QED
        BY <1>1, <3>1, <3>2, <3>3
    <2> QED
      BY <2>2, <2>3
  <1>6. CASE StopStream(k)
    <2>1. /\ receiverCommands[k] # <<>> /\ Head(receiverCommands[k]) = "Stop"
          /\ receiverCommands' = [receiverCommands EXCEPT ![k] = Tail(receiverCommands[k])]
          /\ receiver' = IF receiver[k].status = "absent" THEN receiver
                         ELSE [receiver EXCEPT ![k].status = "flush"]
      BY <1>6 DEF StopStream
    <2>2. ~AtRest(k) /\ ~Starting(k)
      <3>1. receiverCommands[k] # <<>> /\ receiverCommands[k] # <<"Start">>
        BY <2>1, <1>4
      <3> QED
        BY <3>1
    <2>3. ASSUME Ending(k) PROVE Ending(k)'
      <3>1. decoderCommands[k] = <<>> /\ receiverCommands[k] = <<"Stop">> /\ receiver[k].status = "streaming"
        BY <2>1, <2>3
      <3>2. receiverCommands'[k] = <<>>
        BY <1>0, <1>4, <2>1, <3>1
      <3>3. receiver'[k].stream = receiver[k].stream
        <4>1. receiver'[k] = [receiver[k] EXCEPT !.status = "flush"]
          BY <1>0, <2>1, <3>1
        <4> QED
          BY <1>0, <4>1 DEF Receiver
      <3> QED
        BY <1>1, <2>3, <3>1, <3>2, <3>3
    <2> QED
      BY <2>2, <2>3
  <1>7. CASE PublishSamples(k)
    <2>1. /\ receiver[k].next < MaxUnits /\ receiver' = [receiver EXCEPT ![k].next = @ + 1]
          /\ receiverCommands' = receiverCommands
      BY <1>7 DEF PublishSamples, Publish
    <2>2. receiver'[k].status = receiver[k].status /\ receiver'[k].stream = receiver[k].stream
      <3>1. receiver'[k] = [receiver[k] EXCEPT !.next = @ + 1]
        BY <1>0, <2>1
      <3> QED
        BY <1>0, <3>1 DEF Receiver
    <2> QED
      BY <1>1, <2>1, <2>2
  <1>8. CASE PublishEnd(k)
    <2>1. /\ receiver[k].status = "flush" /\ receiverCommands' = receiverCommands
          /\ receiver' = [receiver EXCEPT ![k].status = "idle", ![k].next = MaxUnits]
      BY <1>8 DEF PublishEnd, Publish
    <2>2. receiver'[k].status = "idle"
      <3>1. receiver'[k] = [receiver[k] EXCEPT !.status = "idle", !.next = MaxUnits]
        BY <1>0, <2>1
      <3> QED
        BY <1>0, <3>1 DEF Receiver
    <2>3. k \in receivers /\ ~AtRest(k) /\ ~Starting(k)
      BY <1>0, <2>1
    <2> QED
      BY <1>1, <2>1, <2>2, <2>3
  <1>9. CASE Offer(k) \/ Add(k)
    BY <1>3, <1>9 DEF Offer, Add
  <1> QED
    BY <1>5, <1>6, <1>7, <1>8, <1>9 DEF ReceiverThread

(* The only commands an acquisition meets are its own.                       *)
LEMMA AcquisitionStep ==
  ASSUME MaxUnplugs = 0, CommandsTyped, BuffersTyped, Streams, Acquisition, [Next]_vars
  PROVE  Acquisition'
  <1>0. /\ recorderCommands \in Seq(Command) /\ clears \in Seq(Then)
        /\ decoderCommands \in [Kinds -> Seq(Then)] /\ receiver \in [Kinds -> Receiver]
        /\ receiverCommands \in [Kinds -> Seq({"Start", "Stop"})]
        /\ receivers \subseteq Kinds
    BY DEF CommandsTyped, BuffersTyped, Streams
  <1>1. CASE RecorderThread
    BY <1>1, RecorderRecords
  <1>2. CASE TraceCleared
    <2>0. /\ UNCHANGED <<rpc, status, storagePath, recorded, receivers, receiver, receiverCommands>>
          /\ clears # <<>> /\ clears' = Tail(clears)
      BY <1>2 DEF TraceCleared
    <2>1. CASE Recorded
      <3>1. storagePath /\ receivers # {} /\ (Ordered \/ Going \/ Stopping)
        BY <2>1 DEF Acquisition
      <3>2. Ordered /\ clears = <<[then |-> "write"]>> /\ recorderCommands = <<>>
        BY <2>0, <3>1 DEF Ordered, Going, Stopping
      <3>3. Head(<<[then |-> "write"]>>) = [then |-> "write"] /\ Tail(<<[then |-> "write"]>>) = <<>>
        OBVIOUS
      <3>4. Append(<<>>, [code |-> "Write"]) = <<[code |-> "Write"]>>
        OBVIOUS
      <3>5. Head(clears).then = "write"
        BY <3>2, <3>3
      <3>6. recorderCommands' = <<[code |-> "Write"]>> /\ UNCHANGED decoderCommands
        BY <1>2, <3>2, <3>4, <3>5 DEF TraceCleared
      <3>7. Ordered'
        BY <2>0, <3>2, <3>3, <3>6 DEF Ordered, AtRest, Running, NextWanted
      <3> QED
        BY <2>0, <3>1, <3>7 DEF Acquisition
    <2>2. CASE ~Recorded
      <3>1. Head(clears).then # "write" /\ ~Clearing(clears')
        BY <1>0, <2>0, <2>2, Queued DEF Recorded
      <3>2. UNCHANGED recorderCommands
        BY <1>2, <3>1 DEF TraceCleared
      <3> QED
        BY <2>0, <2>2, <3>1, <3>2 DEF Recorded, Acquisition
    <2> QED
      BY <2>1, <2>2
  <1>3. ASSUME NEW record \in BOOLEAN, Start(record) PROVE Acquisition'
    <2>1. ~Recorded /\ ~Busy /\ ~Underway
      BY <1>0, <1>3, NobodyRecords DEF Start
    <2>2. /\ UNCHANGED <<rpc, status, receivers, receiver, receiverCommands, decoderCommands, recorderCommands>>
          /\ clears = <<>> /\ recorderCommands = <<>> /\ rpc \notin {"writing", "reading"} /\ status # "Writing"
      BY <1>3, <2>1 DEF Start, ControlOnly, Underway, Recorded
    <2>3. clears' = <<[then |-> IF record THEN "write" ELSE "start"]>>
      <3>1. Append(<<>>, [then |-> IF record THEN "write" ELSE "start"]) =
              <<[then |-> IF record THEN "write" ELSE "start"]>>
        OBVIOUS
      <3> QED
        BY <1>3, <2>2, <3>1 DEF Start
    <2>4. CASE record
      <3>1. receivers # {}
        BY <1>3 DEF Start, Streams
      <3>2. ASSUME NEW k \in Kinds PROVE AtRest(k)' /\ NextWanted(k)'
        <4>1. ~Running(k) /\ receiverCommands[k] = <<>> /\ decoderCommands[k] = <<>>
          BY <2>1 DEF Busy, Underway, Running
        <4>2. recorded' = recorded \cup {<<i, receiver[i].stream + 1>> : i \in Kinds}
          BY <1>3, <2>4 DEF Start
        <4> QED
          BY <2>2, <4>1, <4>2 DEF AtRest, NextWanted, Running
      <3>3. clears' = <<[then |-> "write"]>>
        BY <2>3, <2>4
      <3>4. Ordered'
        BY <2>2, <3>2, <3>3 DEF Ordered
      <3>5. storagePath' /\ receivers' # {}
        BY <1>3, <2>2, <2>4, <3>1 DEF Start
      <3> QED
        BY <3>4, <3>5 DEF Acquisition
    <2>5. CASE ~record
      <3>1. clears' = <<[then |-> "start"]>>
        BY <2>3, <2>5
      <3>2. ~Clearing(clears')
        BY <3>1, Queued
      <3> QED
        BY <2>1, <2>2, <3>2 DEF Acquisition, Recorded
    <2> QED
      BY <2>4, <2>5
  <1>4. CASE Stop
    <2>1. /\ UNCHANGED <<rpc, status, clears, storagePath, recorded, receivers, receiver, decoderCommands>>
          /\ clears = <<>> /\ recorderCommands = <<>> /\ rpc \notin {"writing", "reading"}
          /\ \A k \in Kinds : receiverCommands[k] = <<>> /\ decoderCommands[k] = <<>>
      BY <1>4 DEF Stop, ControlOnly, Underway
    <2>2. Append(<<>>, [code |-> "Stop"]) = <<[code |-> "Stop"]>> /\ Append(<<>>, "Stop") = <<"Stop">>
          /\ <<[code |-> "Write"]>> # <<>> /\ <<[then |-> "write"]>> # <<>> /\ <<[code |-> "Stop"]>> # <<>>
          /\ <<[then |-> "start"]>> # <<>> /\ <<"Start">> # <<>>
      OBVIOUS
    <2>3. CASE Recorded
      <3>1. storagePath /\ receivers # {} /\ Going
        BY <2>1, <2>2, <2>3 DEF Acquisition, Ordered, Stopping
      <3>2. status = "Writing"
        BY <2>1, <2>3, Queued DEF Recorded
      <3>3. recorderCommands' = <<[code |-> "Stop"]>>
        BY <1>4, <2>1, <2>2, <3>1 DEF Stop
      <3>4. ASSUME NEW k \in Kinds PROVE Ending(k)'
        <4>1. receiverCommands'[k] = IF receiver[k].status # "absent" THEN <<"Stop">> ELSE <<>>
          <5>1. receiverCommands'[k] = IF receiver[k].status # "absent"
                                       THEN Append(receiverCommands[k], "Stop") ELSE receiverCommands[k]
            BY <1>4 DEF Stop
          <5> QED
            BY <2>1, <2>2, <5>1
        <4>2. Starting(k) /\ (receiver[k].status = "absent" <=> k \notin receivers)
          BY <3>1 DEF Going, Streams
        <4>3. CASE k \in receivers
          <5>1. receiver[k].status = "streaming" /\ Wanted(k)
            BY <2>1, <2>2, <4>2, <4>3 DEF Starting
          <5> QED
            BY <2>1, <4>1, <5>1 DEF Ending, Wanted, Running
        <4>4. CASE k \notin receivers
          BY <2>1, <4>1, <4>2, <4>4 DEF Ending, Running
        <4> QED
          BY <4>3, <4>4
      <3>5. Stopping'
        BY <2>1, <3>2, <3>3, <3>4 DEF Stopping
      <3> QED
        BY <2>1, <3>1, <3>5 DEF Acquisition
    <2>4. CASE ~Recorded
      <3>1. recorderCommands' \in {<<>>, <<[code |-> "Stop"]>>}
        BY <1>4, <2>1, <2>2 DEF Stop
      <3>2. ~Writes(<<>>) /\ ~Writes(<<[code |-> "Stop"]>>)
        BY Queued
      <3>3. ~Writes(recorderCommands')
        BY <3>1, <3>2
      <3> QED
        BY <2>1, <2>4, <3>3 DEF Acquisition, Recorded
    <2> QED
      BY <2>3, <2>4
  <1>5. ASSUME NEW name \in Names, Open(name) PROVE Acquisition'
    <2>1. ~Recorded /\ ~Underway
      BY <1>0, <1>5, NobodyRecords DEF Open
    <2>2. UNCHANGED <<rpc, status, recorderCommands>> /\ clears = <<>>
      BY <1>5, <2>1 DEF Open, ControlOnly, Underway
    <2>3. clears' = <<[then |-> "read", name |-> name]>>
      <3>1. Append(<<>>, [then |-> "read", name |-> name]) = <<[then |-> "read", name |-> name]>>
        OBVIOUS
      <3> QED
        BY <1>5, <2>2, <3>1 DEF Open
    <2>4. ~Clearing(clears')
      BY <2>3, Queued
    <2> QED
      BY <2>1, <2>2, <2>4 DEF Acquisition, Recorded
  <1>6. ASSUME NEW k \in Kinds, ReceiverThread(k) PROVE Acquisition'
    <2>1. /\ UNCHANGED <<rpc, status, recorderCommands, receivers, clears, storagePath>>
      BY <1>6, ReceiverMoves DEF controlVars
    <2>2. Ordered => Ordered'
      BY <1>6, <2>1, ReceiverKeeps DEF Ordered
    <2>3. Going => Going'
      BY <1>6, <2>1, ReceiverKeeps DEF Going
    <2>4. Stopping => Stopping'
      BY <1>6, <2>1, ReceiverKeeps DEF Stopping
    <2> QED
      BY <2>1, <2>2, <2>3, <2>4 DEF Acquisition, Recorded
  <1>7. ASSUME NEW k \in Kinds, StartDecoding(k) PROVE Acquisition'
    <2>1. /\ UNCHANGED <<rpc, status, receivers, receiver, clears, storagePath, recorded>>
          /\ decoderCommands[k] # <<>>
          /\ decoderCommands' = [decoderCommands EXCEPT ![k] = Tail(decoderCommands[k])]
      BY <1>7 DEF StartDecoding, controlVars
    <2>2. CASE Recorded
      <3>1. storagePath /\ receivers # {} /\ Going
        BY <2>1, <2>2 DEF Acquisition, Ordered, Stopping, AtRest, Ending
      <3>2. /\ k \in receivers /\ receiver[k].status = "idle" /\ NextWanted(k)
            /\ receiverCommands[k] = <<>> /\ decoderCommands[k] = <<[then |-> "start"]>>
        BY <2>1, <3>1 DEF Going, Starting, AtRest
      <3>3. Head(<<[then |-> "start"]>>) = [then |-> "start"] /\ Tail(<<[then |-> "start"]>>) = <<>>
            /\ Append(<<>>, "Start") = <<"Start">>
        OBVIOUS
      <3>4. Head(decoderCommands[k]).then = "start"
        BY <3>2, <3>3
      <3>5. /\ UNCHANGED recorderCommands
            /\ receiverCommands' = [receiverCommands EXCEPT ![k] = <<"Start">>]
        BY <1>7, <3>2, <3>3, <3>4 DEF StartDecoding
      <3>6. Starting(k)'
        BY <1>0, <2>1, <3>2, <3>3, <3>5 DEF Starting, NextWanted
      <3>7. \A j \in Kinds \ {k} : Starting(j)'
        BY <1>0, <2>1, <3>1, <3>5 DEF Going, Starting, AtRest, Running, NextWanted, Wanted
      <3>8. Going'
        BY <2>1, <3>1, <3>5, <3>6, <3>7 DEF Going
      <3> QED
        BY <2>1, <3>1, <3>8 DEF Acquisition
    <2>3. CASE ~Recorded
      <3>1. \/ UNCHANGED recorderCommands
            \/ recorderCommands' = Append(recorderCommands, [code |-> "Read", name |-> Head(decoderCommands[k]).name])
        BY <1>7 DEF StartDecoding
      <3>2. ~Writes(recorderCommands')
        <4>1. ~Writes(recorderCommands)
          BY <2>3 DEF Recorded
        <4>2. ASSUME NEW e, e.code # "Write" PROVE ~Writes(Append(recorderCommands, e))
          <5> SUFFICES ASSUME NEW i \in 1..Len(Append(recorderCommands, e)), Append(recorderCommands, e)[i].code = "Write"
                       PROVE  FALSE
            BY DEF Writes
          <5>1. Len(recorderCommands) \in Nat /\ Len(Append(recorderCommands, e)) = Len(recorderCommands) + 1
            BY <1>0
          <5>2. CASE i = Len(recorderCommands) + 1
            BY <1>0, <4>2, <5>2
          <5>3. CASE i \in 1..Len(recorderCommands)
            BY <1>0, <4>1, <5>3 DEF Writes
          <5> QED
            BY <5>1, <5>2, <5>3
        <4> QED
          BY <3>1, <4>1, <4>2
      <3> QED
        BY <2>1, <2>3, <3>2 DEF Acquisition, Recorded
    <2> QED
      BY <2>2, <2>3
  <1>8. CASE Tick \/ UNCHANGED vars \/ \E k \in Kinds : DecoderStreaming(k)
    <2>1. UNCHANGED <<rpc, status, recorderCommands, storagePath, clears, recorded, receivers,
                      receiver, receiverCommands, decoderCommands>>
      BY <1>8 DEF Tick, DecoderStreaming, vars, recorderVars, partnerVars, controlVars
    <2> QED
      BY <2>1 DEF Acquisition, Recorded, Ordered, Going, Stopping, AtRest, NextWanted, Starting,
                  Ending, Wanted, Running
  <1>9. ASSUME NEW k \in Kinds, Unplug(k) \/ Plug(k) PROVE FALSE
    BY <1>9 DEF Unplug, Plug, Streams
  <1> QED
    BY <1>1, <1>2, <1>3, <1>4, <1>5, <1>6, <1>7, <1>8, <1>9 DEF Next, User, Environment, DecoderThread

-----------------------------------------------------------------------------
(* Only a buffer that is written changes what a file holds.                  *)
LEMMA ClosedKeepsSamples ==
  ASSUME NEW d \in [Names -> File], NEW device \in Device
  PROVE  /\ Closed(d, device) \in [Names -> File]
         /\ \A name \in Names : Closed(d, device)[name].samples = d[name].samples
  <1>1. ASSUME NEW name \in Names PROVE Closed(d, device)[name].samples = d[name].samples
    BY ClosedFile
  <1> QED
    BY <1>1, ClosedFile

LEMMA SamplesStay ==
  ASSUME CommandsTyped, Files, [Next]_vars, \A k \in Kinds : ~WriteSamples(k)
  PROVE  \A name \in Names : disk'[name].samples = disk[name].samples
  <1>0. /\ disk \in [Names -> File]
        /\ storage \in [Kinds -> {<<>>} \cup {<<device>> : device \in Device}]
        /\ \A k \in Kinds : IsSet(k) => Of(k) \in Device
    BY DEF Files, FilesOK, IsSet, Of
  <1>1. CASE UNCHANGED disk
    BY <1>1
  <1>2. ASSUME NEW k \in Kinds, ClosesSlot(k) PROVE \A name \in Names : disk'[name].samples = disk[name].samples
    <2>1. disk' = disk \/ \E device \in Device : disk' = Closed(disk, device)
      BY <1>0, <1>2 DEF ClosesSlot
    <2> QED
      BY <1>0, <2>1, ClosedKeepsSamples
  <1>3. CASE CloseStorage
    <2> DEFINE logic == IF IsSet("logic") THEN Closed(disk, Of("logic")) ELSE disk
    <2>1. disk' = IF IsSet("radio") THEN Closed(logic, Of("radio")) ELSE logic
      BY <1>3 DEF CloseStorage
    <2>2. logic \in [Names -> File] /\ \A name \in Names : logic[name].samples = disk[name].samples
      BY <1>0, ClosedKeepsSamples DEF Kinds
    <2> HIDE DEF logic
    <2> QED
      BY <1>0, <2>1, <2>2, ClosedKeepsSamples DEF Kinds
  <1>4. ASSUME NEW k \in Kinds, ReadOne(k), IsSet(k) PROVE \A name \in Names : disk'[name].samples = disk[name].samples
    BY <1>1, <1>2, <1>4, ReadSteps
  <1>5. CASE RecorderThread
    BY <1>1, <1>2, <1>3, <1>4, <1>5, RecorderSteps
  <1> QED
    BY <1>1, <1>5, OthersLeaveFiles

(* A buffer is added to the file of its kind, or is the first of a new one.  *)
LEMMA SamplesWritten ==
  ASSUME Files, BuffersTyped, NEW k \in Kinds, WriteSamples(k)
  PROVE  \E to \in Names :
           LET samples == Head(signalQueue[k]).samples IN
           /\ samples \in Samples /\ to.kind = k
           /\ \A j \in Kinds \ {k} : storage'[j] = storage[j]
           /\ \/ ~WriteOpen(k)' /\ UNCHANGED disk
              \/ /\ WriteOpen(k) /\ to = Of(k).name /\ UNCHANGED storage
                 /\ \A name \in Names : disk'[name].samples =
                      IF name = to THEN Append(disk[to].samples, samples) ELSE disk[name].samples
              \/ /\ storage[k] = <<>> /\ storage'[k] = <<Opened(to, "Write")>>
                 /\ \A name \in Names : disk'[name].samples =
                      IF name = to THEN <<samples>> ELSE disk[name].samples
  <1> DEFINE samples == Head(signalQueue[k]).samples
  <1>0. /\ disk \in [Names -> File]
        /\ storage \in [Kinds -> {<<>>} \cup {<<device>> : device \in Device}]
        /\ IsSet(k) => Of(k) \in Device /\ Of(k).name.kind = k /\ Sound(Of(k))
    BY DEF Files, FilesOK, IsSet, Of
  <1>1. samples \in Samples
    <2>1. signalQueue[k] \in Seq(Buffer) /\ signalQueue[k] # <<>>
      BY DEF BuffersTyped, WriteSamples
    <2>2. Head(signalQueue[k]) \in Buffer
      BY <2>1, HeadTailProperties
    <2> QED
      BY <2>2 DEF Buffer
  <1>2. FileName(k) \in Names /\ FileName(k).kind = k
    BY DEF FileName, Names, Files
  <1>3. /\ storage' = [storage EXCEPT ![k] =
                         <<AfterWrite(IF IsSet(k) THEN Of(k) ELSE Opened(FileName(k), "Write"))>>]
        /\ disk' = Written(IF IsSet(k) THEN disk ELSE Created(disk, FileName(k)),
                           IF IsSet(k) THEN Of(k) ELSE Opened(FileName(k), "Write"), samples)
    BY DEF WriteSamples
  <1> HIDE DEF samples
  <1>4. ASSUME NEW d \in [Names -> File], NEW to \in Names
        PROVE  \A name \in Names : [d EXCEPT ![to].samples = Append(@, samples)][name].samples =
                  IF name = to THEN Append(d[to].samples, samples) ELSE d[name].samples
    <2>1. [d EXCEPT ![to].samples = Append(@, samples)][to] = [d[to] EXCEPT !.samples = Append(@, samples)]
      OBVIOUS
    <2>2. [d[to] EXCEPT !.samples = Append(@, samples)].samples = Append(d[to].samples, samples)
      BY DEF File
    <2> QED
      BY <2>1, <2>2
  <1>5. CASE IsSet(k)
    <2> DEFINE next == AfterWrite(Of(k))
    <2>1. storage' = [storage EXCEPT ![k] = <<next>>] /\ disk' = Written(disk, Of(k), samples)
      BY <1>3, <1>5
    <2>2. Of(k).mode \in {"Read", "Write"} /\ Of(k).name \in Names /\ Of(k).name.kind = k
      BY <1>0, <1>5 DEF Device
    <2>3. CASE Of(k).mode = "Read"
      <3>1. UNCHANGED disk
        BY <2>1, <2>3 DEF Written
      <3>2. next.mode = "Read"
        BY <1>0, <1>5, <2>3 DEF AfterWrite, Device
      <3> HIDE DEF next
      <3>3. storage'[k] = <<next>> /\ \A j \in Kinds \ {k} : storage'[j] = storage[j]
        BY <1>0, <2>1
      <3>4. ~WriteOpen(k)'
        BY <3>2, <3>3 DEF WriteOpen, Of
      <3> QED
        BY <1>1, <2>2, <3>1, <3>3, <3>4 DEF samples
    <2>4. CASE Of(k).mode = "Write"
      <3>0. ~Of(k).failed /\ next = Of(k)
        BY <1>0, <1>5, <2>4 DEF Sound, AfterWrite, Device
      <3> HIDE DEF next
      <3>4. UNCHANGED storage
        BY <1>0, <1>5, <2>1, <3>0 DEF IsSet, Of
      <3>1. disk' = [disk EXCEPT ![Of(k).name].samples = Append(@, samples)]
        BY <2>1, <2>4, <3>0 DEF Written
      <3>2. \A name \in Names : disk'[name].samples =
              IF name = Of(k).name THEN Append(disk[Of(k).name].samples, samples) ELSE disk[name].samples
        BY <1>0, <1>4, <2>2, <3>1
      <3> QED
        BY <1>1, <1>5, <2>2, <2>4, <3>2, <3>4 DEF IsSet, samples, WriteOpen
    <2> QED
      BY <2>2, <2>3, <2>4
  <1>6. CASE ~IsSet(k)
    <2> DEFINE to == FileName(k)
               device == Opened(to, "Write")
               created == Created(disk, to)
    <2>2. device.mode = "Write" /\ device.name = to /\ ~device.failed
      BY DEF Opened
    <2>1. storage' = [storage EXCEPT ![k] = <<device>>]
      <3>1. device \in Device
        BY <1>2 DEF Opened, Device
      <3>2. storage' = [storage EXCEPT ![k] = <<AfterWrite(device)>>]
        BY <1>3, <1>6
      <3> HIDE DEF device
      <3>3. AfterWrite(device) = device
        BY <2>2, <3>1 DEF AfterWrite, Device
      <3> QED
        BY <3>2, <3>3
    <2>3. storage'[k] = <<device>> /\ \A j \in Kinds \ {k} : storage'[j] = storage[j]
      BY <1>0, <2>1
    <2>4. disk' = Written(created, device, samples)
      BY <1>3, <1>6, <2>3
    <2>5. created = [disk EXCEPT ![to] = Truncated] /\ Truncated \in File /\ Truncated.samples = <<>>
      <3>1. NoFile \in File /\ NoFile.samples = <<>>
        BY DEF NoFile, File
      <3>2. ASSUME NEW file \in File
            PROVE  [file EXCEPT !.exists = TRUE] \in File /\ [file EXCEPT !.exists = TRUE].samples = file.samples
        BY DEF File
      <3>3. created = [disk EXCEPT ![to] = Truncated]
        BY DEF Created
      <3> HIDE DEF created, to
      <3> QED
        BY <3>1, <3>2, <3>3 DEF Truncated
    <2>6. /\ created \in [Names -> File] /\ created[to].samples = <<>>
          /\ \A name \in Names \ {to} : created[name].samples = disk[name].samples
      <3> HIDE DEF created, to
      <3> QED
        BY <1>0, <1>2, <2>5 DEF to
    <2>7. disk' = [created EXCEPT ![to].samples = Append(@, samples)]
      BY <2>2, <2>4 DEF Written
    <2>8. Append(<<>>, samples) = <<samples>>
      OBVIOUS
    <2> HIDE DEF created
    <2>9. \A name \in Names : disk'[name].samples = IF name = to THEN <<samples>> ELSE disk[name].samples
      BY <1>2, <1>4, <2>6, <2>7, <2>8
    <2> HIDE DEF to
    <2> QED
      BY <1>1, <1>2, <1>6, <2>3, <2>9 DEF IsSet, samples, to
  <1> QED
    BY <1>5, <1>6

(* What a step does not touch keeps its line.                                *)
LEMMA LineKept ==
  ASSUME NEW k \in Kinds,
         signalQueue'[k] = signalQueue[k], raw'[k] = raw[k], receiver'[k] = receiver[k],
         storage'[k] = storage[k], WriteOpen(k) => Contents(k)' = Contents(k),
         recorded \subseteq recorded'
  PROVE  /\ Line(k) => Line(k)'
         /\ Unheard(k) <=> Unheard(k)'
         /\ WriteOpen(k) <=> WriteOpen(k)'
  <1>1. WriteOpen(k) <=> WriteOpen(k)'
    BY DEF WriteOpen, Of
  <1>2. Unheard(k) <=> Unheard(k)'
    BY <1>1 DEF Unheard
  <1>3. Coming(k)' = Coming(k) /\ Running(k)' = Running(k)
    BY DEF Coming, Running
  <1>4. Line(k) => Line(k)'
    BY <1>1, <1>3 DEF Line
  <1> QED
    BY <1>1, <1>2, <1>4

(* A line on which nothing has come yet is one.                              *)
LEMMA LineOfUnheard ==
  ASSUME BuffersTyped, NEW k \in Kinds, Unheard(k)
  PROVE  Line(k)
  <1>1. signalQueue[k] \in Seq(Buffer) /\ Len(signalQueue[k]) \in Nat /\ DOMAIN signalQueue[k] = 1..Len(signalQueue[k])
    BY DEF BuffersTyped
  <1>2. \A i \in 1..Len(signalQueue[k]) : ~IsValid(signalQueue[k][i])
    BY <1>1 DEF Unheard
  <1>3. signalQueue[k] # <<>> => Len(signalQueue[k]) \in 1..Len(signalQueue[k]) /\ 1 \in 1..Len(signalQueue[k])
    BY <1>1
  <1>4. \A i \in 1..Len(signalQueue[k]) - 1 : i \in 1..Len(signalQueue[k])
    BY <1>1
  <1>5. ~WriteOpen(k)
    BY DEF Unheard
  <1> QED
    BY <1>2, <1>3, <1>4, <1>5 DEF Line

(* What is taken from the queue of a line                                    *)
LEMMA Taken ==
  ASSUME NEW q \in Seq(Buffer), q # <<>>
  PROVE  /\ Tail(q) \in Seq(Buffer) /\ Len(q) \in Nat /\ Len(q) >= 1 /\ Head(q) = q[1]
         /\ Len(Tail(q)) = Len(q) - 1
         /\ \A i \in 1..Len(q) - 1 : i + 1 \in 1..Len(q) /\ Tail(q)[i] = q[i + 1]
         /\ Tail(q) # <<>> => /\ Len(q) - 1 \in 1..Len(q) - 1
                              /\ Tail(q)[Len(Tail(q))] = q[Len(q)] /\ Tail(q)[1] = q[2]
         /\ Tail(q) = <<>> => q[Len(q)] = q[1]
  <1>1. /\ Tail(q) \in Seq(Buffer) /\ Len(q) \in Nat /\ Len(q) >= 1 /\ Head(q) = q[1]
        /\ Len(Tail(q)) = Len(q) - 1
        /\ \A i \in 1..Len(Tail(q)) : Tail(q)[i] = q[i + 1]
    OBVIOUS
  <1>2. \A i \in 1..Len(q) - 1 : i + 1 \in 1..Len(q) /\ Tail(q)[i] = q[i + 1]
    BY <1>1
  <1>3. Tail(q) = <<>> <=> Len(q) = 1
    BY <1>1
  <1> QED
    BY <1>1, <1>2, <1>3

(* writeLogic and writeRadio go on with the line, or end it.                 *)
LEMMA LineWritten ==
  ASSUME Files, BuffersTyped, NEW k \in Kinds, WriteSamples(k) \/ FinishFile(k),
         UNCHANGED <<partnerVars, controlVars>>, Line(k)
  PROVE  Line(k)'
  <1> DEFINE q == signalQueue[k]
             t == Tail(q)
  <1>0. /\ signalQueue \in [Kinds -> Seq(Buffer)] /\ q \in Seq(Buffer) /\ q # <<>>
        /\ signalQueue' = [signalQueue EXCEPT ![k] = t]
        /\ storage \in [Kinds -> {<<>>} \cup {<<device>> : device \in Device}]
        /\ disk \in [Names -> File]
    BY DEF BuffersTyped, WriteSamples, FinishFile, EndQueued, Files, FilesOK
  <1>1. signalQueue'[k] = t
    BY <1>0
  <1> HIDE DEF t, q
  <1>2. /\ t \in Seq(Buffer) /\ Len(q) \in Nat /\ Len(q) >= 1 /\ Head(q) = q[1]
        /\ Len(t) = Len(q) - 1 /\ Len(t) \in Nat
        /\ \A i \in 1..Len(q) - 1 : i + 1 \in 1..Len(q) /\ t[i] = q[i + 1]
        /\ t # <<>> => Len(q) - 1 \in 1..Len(q) - 1 /\ t[Len(t)] = q[Len(q)] /\ t[1] = q[2]
        /\ t = <<>> => q[Len(q)] = q[1]
    <2>1. t = Tail(q)
      BY DEF t
    <2>2. Len(t) = Len(q) - 1 /\ t \in Seq(Buffer)
      BY <1>0, <2>1, Taken
    <2>3. Len(t) \in Nat
      BY <2>2
    <2> QED
      BY <1>0, <2>1, <2>2, <2>3, Taken
  <1>3. /\ \A i \in 1..Len(q) : IsValid(q[i]) => <<k, q[i].samples.stream>> \in recorded
        /\ \A i \in 1..Len(q) - 1 : IsValid(q[i]) /\ IsValid(q[i + 1]) => Follows(q[i].samples, q[i + 1].samples)
        /\ Running(k) /\ IsValid(q[Len(q)]) => Follows(q[Len(q)].samples, Coming(k))
    BY <1>0 DEF Line, q
  <1>4. UNCHANGED <<recorded, receiver, raw>>
    BY DEF partnerVars, controlVars
  <1>5. Coming(k)' = Coming(k) /\ Running(k)' = Running(k)
    BY <1>4 DEF Coming, Running
  <1>6. /\ \A i \in 1..Len(t) : IsValid(t[i]) => <<k, t[i].samples.stream>> \in recorded
        /\ \A i \in 1..Len(t) - 1 : IsValid(t[i]) /\ IsValid(t[i + 1]) => Follows(t[i].samples, t[i + 1].samples)
        /\ Running(k) /\ t # <<>> /\ IsValid(t[Len(t)]) => Follows(t[Len(t)].samples, Coming(k))
    <2>1. \A i \in 1..Len(t) : i \in 1..Len(q) - 1
      BY <1>2
    <2>2. \A i \in 1..Len(t) - 1 : i \in 1..Len(q) - 1 /\ i + 1 \in 1..Len(q) - 1
      BY <1>2
    <2> QED
      BY <1>2, <1>3, <2>1, <2>2
  <1>7. CASE FinishFile(k)
    <2>1. storage'[k] = <<>>
      BY <1>0, <1>7 DEF FinishFile
    <2>2. ~WriteOpen(k)'
      BY <2>1 DEF WriteOpen
    <2> QED
      BY <1>1, <1>4, <1>5, <1>6, <2>2 DEF Line
  <1>8. CASE WriteSamples(k)
    <2>1. IsValid(q[1])
      BY <1>2, <1>8 DEF WriteSamples, q
    <2>2. PICK to \in Names :
           LET samples == q[1].samples IN
           /\ samples \in Samples /\ to.kind = k
           /\ \/ ~WriteOpen(k)' /\ UNCHANGED disk
              \/ /\ WriteOpen(k) /\ to = Of(k).name /\ UNCHANGED storage
                 /\ \A name \in Names : disk'[name].samples =
                      IF name = to THEN Append(disk[to].samples, samples) ELSE disk[name].samples
              \/ /\ storage[k] = <<>> /\ storage'[k] = <<Opened(to, "Write")>>
                 /\ \A name \in Names : disk'[name].samples =
                      IF name = to THEN <<samples>> ELSE disk[name].samples
      BY <1>2, <1>8, SamplesWritten DEF q
    <2>3. WriteOpen(k)' => Contents(k)' # <<>> /\ LastOf(Contents(k)') = q[1].samples
      <3>1. CASE ~WriteOpen(k)'
        BY <3>1
      <3>2. CASE /\ WriteOpen(k) /\ to = Of(k).name /\ UNCHANGED storage
                 /\ disk'[to].samples = Append(disk[to].samples, q[1].samples)
        <4>1. Contents(k)' = Append(disk[to].samples, q[1].samples) /\ disk[to].samples \in Seq(Samples)
          BY <1>0, <3>2 DEF Contents, Of, File
        <4>2. ASSUME NEW s \in Seq(Samples), NEW e \in Samples
              PROVE  Append(s, e) # <<>> /\ Append(s, e)[Len(Append(s, e))] = e
          OBVIOUS
        <4>3. q[1].samples \in Samples
          BY <2>2
        <4> QED
          BY <4>1, <4>2, <4>3 DEF LastOf
      <3>3. CASE storage'[k] = <<Opened(to, "Write")>> /\ disk'[to].samples = <<q[1].samples>>
        <4>1. Contents(k)' = <<q[1].samples>>
          BY <3>3 DEF Contents, Of, Opened
        <4>2. \A e : <<e>> # <<>> /\ <<e>>[Len(<<e>>)] = e
          OBVIOUS
        <4> QED
          BY <4>1, <4>2 DEF LastOf
      <3> QED
        BY <2>2, <3>1, <3>2, <3>3
    <2>4. t # <<>> /\ IsValid(t[1]) => Follows(q[1].samples, t[1].samples)
      <3>1. t # <<>> => 1 \in 1..Len(q) - 1
        BY <1>2
      <3> QED
        BY <1>2, <1>3, <2>1, <3>1
    <2>5. Running(k) /\ t = <<>> => Follows(q[1].samples, Coming(k))
      BY <1>2, <1>3, <2>1
    <2> QED
      BY <1>1, <1>4, <1>5, <1>6, <2>3, <2>4, <2>5 DEF Line
  <1> QED
    BY <1>7, <1>8

(* A receiver adds to its line what comes next.                              *)
LEMMA ReceiverAdds ==
  ASSUME Files, BuffersTyped, Streams, Acquisition, NEW k \in Kinds, InLine(k), ReceiverThread(k)
  PROVE  InLine(k)'
  <1> DEFINE q == signalQueue[k]
  <1>0. /\ receiver \in [Kinds -> Receiver] /\ receiver[k] \in Receiver
        /\ signalQueue \in [Kinds -> Seq(Buffer)]
        /\ raw \in [Kinds -> [pc : {"none", "heard", "add"}, buffer : Buffer]]
        /\ receiver[k].stream \in Nat /\ receiver[k].next \in Nat /\ receiver[k].status \in ReceiverStatus
        /\ q \in Seq(Buffer) /\ Len(q) \in Nat /\ (q # <<>> => Len(q) >= 1)
        /\ raw[k].pc # "none" =>
             /\ IsValid(raw[k].buffer) <=> Running(k)
             /\ Running(k) => /\ receiver[k].next > 0
                              /\ raw[k].buffer = Data(receiver[k].stream, receiver[k].next - 1)
        /\ ~Running(k) => receiver[k].next = MaxUnits
    BY DEF BuffersTyped, Streams, Receiver
  <1>1. UNCHANGED <<disk, rpc, status, storage, recorderCommands, recorded>>
    BY ReceiverMoves DEF controlVars
  <1>2. (WriteOpen(k)' <=> WriteOpen(k)) /\ Contents(k)' = Contents(k)
    BY <1>1 DEF WriteOpen, Contents, Of
  (* while the recorder writes, what runs is wanted                          *)
  <1>3. ASSUME status = "Writing"
        PROVE  /\ rpc # "writing" /\ (Running(k) => Wanted(k))
               /\ recorderCommands = <<>> => Starting(k)
               /\ recorderCommands # <<>> => Ending(k)
    <2>1. Ordered \/ Going \/ Stopping
      BY <1>3 DEF Acquisition, Recorded
    <2>2. ~Ordered
      BY <1>3 DEF Ordered
    <2>3. <<[code |-> "Stop"]>> # <<>>
      OBVIOUS
    <2>4. CASE Going
      BY <1>3, <2>4 DEF Going, Starting, Wanted, AtRest, Running
    <2>5. CASE Stopping
      BY <2>3, <2>5 DEF Stopping, Ending
    <2> QED
      BY <2>1, <2>2, <2>4, <2>5
  <1>4. ASSUME signalQueue'[k] = q, raw'[k] = raw[k], receiver'[k] = receiver[k] PROVE InLine(k)'
    BY <1>1, <1>2, <1>4, LineKept DEF InLine
  <1>5. CASE StartStream(k) \/ StopStream(k)
    <2>1. UNCHANGED <<signalQueue, raw>> /\ raw[k].pc = "none"
      BY <1>5 DEF StartStream, StopStream, Ready, ReceiverOnly, recorderVars
    <2>2. Unheard(k)' <=> Unheard(k)
      BY <1>2, <2>1 DEF Unheard
    <2>3. CASE status # "Writing"
      BY <1>1, <1>2, <2>2, <2>3 DEF InLine
    <2>4. CASE status = "Writing" /\ StartStream(k)
      <3>1. receiverCommands[k] # <<>> /\ receiverCommands[k] # <<"Stop">>
        <4>1. Head(<<"Stop">>) = "Stop"
          OBVIOUS
        <4> QED
          BY <2>4, <4>1 DEF StartStream
      <3>2. recorderCommands = <<>> /\ receiver[k].status # "streaming"
        BY <1>3, <2>4, <3>1 DEF Starting, Ending, AtRest
      <3>3. Unheard(k)
        BY <2>4, <3>2 DEF InLine
      <3>4. Unheard(k)'
        BY <2>2, <3>3
      <3>6. Line(k)'
        <4>1. \A i \in 1..Len(q) : ~IsValid(q[i])
          BY <1>0, <3>3 DEF Unheard
        <4>2. /\ q # <<>> => Len(q) \in 1..Len(q) /\ 1 \in 1..Len(q)
              /\ \A i \in 1..Len(q) - 1 : i \in 1..Len(q)
          BY <1>0
        <4>3. ~WriteOpen(k)
          BY <3>3 DEF Unheard
        <4> QED
          BY <1>2, <2>1, <4>1, <4>2, <4>3 DEF Line
      <3> QED
        BY <1>1, <1>3, <2>4, <3>4, <3>6 DEF InLine
    <2>5. CASE status = "Writing" /\ StopStream(k)
      <3>1. receiverCommands[k] # <<>> /\ receiverCommands[k] # <<"Start">>
        <4>1. Head(<<"Start">>) = "Start"
          OBVIOUS
        <4> QED
          BY <2>5, <4>1 DEF StopStream
      <3>2. recorderCommands # <<>> /\ receiver[k].status = "streaming"
        BY <1>3, <2>5, <3>1 DEF Starting, Ending, AtRest
      <3>3. receiver'[k] = [receiver[k] EXCEPT !.status = "flush"]
        BY <1>0, <2>5, <3>2 DEF StopStream
      <3>4. /\ receiver'[k].stream = receiver[k].stream /\ receiver'[k].next = receiver[k].next
            /\ receiver'[k].status = "flush"
        BY <1>0, <3>3 DEF Receiver
      <3>5. Running(k) /\ Coming(k)' = Coming(k)
        BY <2>1, <3>2, <3>4 DEF Running, Coming
      <3>6. Line(k)'
        BY <1>1, <1>2, <2>1, <2>5, <3>5 DEF InLine, Line
      <3> QED
        BY <1>1, <1>3, <2>5, <3>2, <3>6 DEF InLine
    <2> QED
      BY <1>5, <2>3, <2>4, <2>5
  <1>6. CASE PublishSamples(k)
    <2>1. /\ raw[k].pc = "none" /\ receiver[k].next < MaxUnits /\ UNCHANGED signalQueue
          /\ raw' = [raw EXCEPT ![k] = [pc |-> "heard", buffer |-> Data(receiver[k].stream, receiver[k].next)]]
          /\ receiver' = [receiver EXCEPT ![k].next = @ + 1]
      BY <1>6 DEF PublishSamples, Publish, Ready, ReceiverOnly, recorderVars
    <2>2. raw'[k] = [pc |-> "heard", buffer |-> Data(receiver[k].stream, receiver[k].next)]
      BY <1>0, <2>1
    <2>3. receiver'[k].status = receiver[k].status
      <3>1. receiver'[k] = [receiver[k] EXCEPT !.next = @ + 1]
        BY <1>0, <2>1
      <3> QED
        BY <1>0, <3>1 DEF Receiver
    <2>4. Coming(k)' = Coming(k) /\ Running(k)' = Running(k)
      BY <2>1, <2>2, <2>3 DEF Coming, Data, Running
    <2>5. Line(k) => Line(k)'
      BY <1>1, <1>2, <2>1, <2>4 DEF Line
    <2>6. Unheard(k) => Unheard(k)'
      BY <1>2, <2>1, <2>2 DEF Unheard
    <2> QED
      BY <1>1, <1>2, <2>3, <2>5, <2>6 DEF InLine
  <1>7. CASE PublishEnd(k)
    <2>1. /\ raw[k].pc = "none" /\ receiver[k].status = "flush" /\ UNCHANGED signalQueue
          /\ raw' = [raw EXCEPT ![k] = [pc |-> "heard", buffer |-> EndOfStream("flush")]]
          /\ receiver' = [receiver EXCEPT ![k].status = "idle", ![k].next = MaxUnits]
      BY <1>7 DEF PublishEnd, Publish, Ready, ReceiverOnly, recorderVars
    <2>2. raw'[k] = [pc |-> "heard", buffer |-> EndOfStream("flush")]
      BY <1>0, <2>1
    <2>3. ~Running(k)'
      <3>1. receiver'[k] = [receiver[k] EXCEPT !.status = "idle", !.next = MaxUnits]
        BY <1>0, <2>1
      <3>2. receiver'[k].status = "idle"
        BY <1>0, <3>1 DEF Receiver
      <3> QED
        BY <3>2 DEF Running
    <2>4. Line(k) => Line(k)'
      BY <1>1, <1>2, <2>1, <2>3 DEF Line
    <2>5. Unheard(k) => Unheard(k)'
      BY <1>2, <2>1, <2>2 DEF Unheard
    <2> QED
      BY <1>1, <1>2, <2>1, <2>4, <2>5 DEF InLine
  <1>8. CASE Offer(k)
    <2>1. /\ raw[k].pc = "heard" /\ UNCHANGED <<signalQueue, receiver>>
          /\ raw' = [raw EXCEPT ![k].pc = IF status = "Writing" THEN "add" ELSE "none"]
      BY <1>8 DEF Offer, ReceiverOnly, recorderVars
    <2>2. raw'[k].buffer = raw[k].buffer /\ raw'[k].pc = IF status = "Writing" THEN "add" ELSE "none"
      BY <1>0, <2>1
    <2>3. CASE status # "Writing"
      BY <1>1, <1>2, <2>1, <2>2, <2>3 DEF InLine, Unheard
    <2>4. CASE status = "Writing"
      <3>1. Coming(k)' = Coming(k) /\ Running(k)' = Running(k)
        BY <2>1, <2>2, <2>4 DEF Coming, Running
      <3>2. Line(k)'
        BY <1>1, <1>2, <2>1, <2>4, <3>1 DEF Line, InLine
      <3>3. ASSUME recorderCommands = <<>>, receiver[k].status # "streaming" PROVE Unheard(k)'
        <4>1. Unheard(k) /\ Starting(k)
          BY <1>3, <2>4, <3>3 DEF InLine
        <4>2. ~IsValid(raw[k].buffer)
          BY <1>0, <2>1, <3>3, <4>1 DEF Starting, AtRest, Running
        <4> QED
          BY <1>2, <2>1, <2>2, <4>1, <4>2 DEF Unheard
      <3> QED
        BY <1>1, <1>3, <2>1, <2>4, <3>2, <3>3 DEF InLine
    <2> QED
      BY <2>3, <2>4
  <1>9. CASE Add(k)
    <2> DEFINE buffer == raw[k].buffer
               n == Len(q)
               a == Append(q, buffer)
    <2>1. /\ raw[k].pc = "add" /\ UNCHANGED receiver
          /\ signalQueue' = [signalQueue EXCEPT ![k] = Append(@, buffer)]
          /\ raw' = [raw EXCEPT ![k].pc = "none"]
      BY <1>9 DEF Add
    <2>2. signalQueue'[k] = a /\ raw'[k].pc = "none" /\ buffer \in Buffer
      BY <1>0, <2>1
    <2>3. /\ Len(a) = n + 1 /\ a[n + 1] = buffer /\ a # <<>> /\ DOMAIN a = 1..n + 1
          /\ \A i \in 1..n : a[i] = q[i] /\ i \in 1..n + 1
          /\ n \in Nat /\ DOMAIN q = 1..n
      <3> HIDE DEF q
      <3>1. q \in Seq(Buffer) /\ buffer \in Buffer /\ n \in Nat
        BY <1>0, <2>2
      <3> HIDE DEF buffer
      <3>2. Len(a) = n + 1 /\ a[n + 1] = buffer /\ a \in Seq(Buffer) /\ \A i \in 1..n : a[i] = q[i]
        BY <3>1, AppendProperties
      <3>3. n + 1 \in Nat /\ \A i \in 1..n : i \in 1..n + 1
        BY <3>1
      <3> HIDE DEF a, n
      <3>4. DOMAIN a = 1..n + 1 /\ a # <<>>
        BY <3>1, <3>2, <3>3
      <3> QED
        BY <3>1, <3>2, <3>3, <3>4 DEF n
    <2>4. \A i \in 1..n + 1 : i \in 1..n \/ i = n + 1
      BY <2>3
    <2>5. Running(k)' = Running(k)
      BY <2>1 DEF Running
    <2> HIDE DEF a
    <2>6. Unheard(k) => Unheard(k)'
      <3> SUFFICES ASSUME Unheard(k) PROVE Unheard(k)'
        OBVIOUS
      <3>1. ~IsValid(buffer) /\ \A i \in 1..n : ~IsValid(q[i])
        BY <2>1, <2>3 DEF Unheard
      <3>2. \A i \in DOMAIN a : ~IsValid(a[i])
        BY <2>3, <2>4, <3>1
      <3> QED
        BY <1>2, <2>2, <3>2 DEF Unheard
    <2>7. CASE status # "Writing"
      BY <1>1, <1>2, <2>1, <2>6, <2>7 DEF InLine
    <2>8. CASE status = "Writing"
      <3>1. Line(k) /\ (Running(k) => Wanted(k))
        BY <1>3, <2>8 DEF InLine
      <3>2. Coming(k) = buffer.samples
        BY <2>1 DEF Coming
      <3>3. IsValid(buffer) => /\ Running(k) /\ buffer.samples.stream = receiver[k].stream
                               /\ Follows(buffer.samples, Coming(k)')
        <4> SUFFICES ASSUME IsValid(buffer)
                     PROVE  /\ Running(k) /\ buffer.samples.stream = receiver[k].stream
                            /\ Follows(buffer.samples, Coming(k)')
          OBVIOUS
        <4>1. Running(k) /\ buffer = Data(receiver[k].stream, receiver[k].next - 1)
          BY <1>0, <2>1
        <4>2. buffer.samples.stream = receiver[k].stream /\ buffer.samples.offset = receiver[k].next - 1
          BY <4>1 DEF Data
        <4>3. Coming(k)' = [stream |-> receiver[k].stream, offset |-> receiver[k].next]
          BY <2>1, <2>2 DEF Coming
        <4>4. receiver[k].next = receiver[k].next - 1 + 1
          BY <1>0
        <4> QED
          BY <4>1, <4>2, <4>3, <4>4 DEF Follows
      <3>4. \A i \in 1..n + 1 : IsValid(a[i]) => <<k, a[i].samples.stream>> \in recorded
        BY <2>3, <2>4, <3>1, <3>3 DEF Line, Wanted
      <3>5. \A i \in 1..n : IsValid(a[i]) /\ IsValid(a[i + 1]) => Follows(a[i].samples, a[i + 1].samples)
        <4> SUFFICES ASSUME NEW i \in 1..n, IsValid(a[i]), IsValid(a[i + 1])
                     PROVE  Follows(a[i].samples, a[i + 1].samples)
          OBVIOUS
        <4>1. CASE i = n
          <5>1. a[i] = q[n] /\ a[i + 1] = buffer /\ q # <<>>
            BY <1>0, <2>3, <4>1
          <5> QED
            BY <3>1, <3>2, <3>3, <5>1 DEF Line
        <4>2. CASE i # n
          <5>1. i \in 1..n - 1 /\ i + 1 \in 1..n
            BY <2>3, <4>2
          <5> QED
            BY <2>3, <3>1, <5>1 DEF Line
        <4> QED
          BY <4>1, <4>2
      <3>6. WriteOpen(k) /\ IsValid(a[1]) => Follows(LastOf(Contents(k)), a[1].samples)
        <4>1. CASE q = <<>>
          <5>1. n = 0 /\ a[1] = buffer
            BY <2>3, <4>1
          <5> QED
            BY <3>1, <3>2, <3>3, <4>1, <5>1 DEF Line
        <4>2. CASE q # <<>>
          <5>1. a[1] = q[1]
            BY <1>0, <2>3, <4>2
          <5> QED
            BY <3>1, <4>2, <5>1 DEF Line
        <4> QED
          BY <4>1, <4>2
      <3>7. Running(k) /\ IsValid(a[n + 1]) => Follows(a[n + 1].samples, Coming(k)')
        BY <2>3, <3>3
      <3>8. (n + 1) - 1 = n
        BY <2>3
      <3>9. Line(k)'
        BY <1>1, <1>2, <2>2, <2>3, <2>5, <3>1, <3>4, <3>5, <3>6, <3>7, <3>8 DEF Line
      <3> QED
        BY <1>1, <1>3, <2>1, <2>6, <2>8, <3>9 DEF InLine
    <2> QED
      BY <2>7, <2>8
  <1> QED
    BY <1>5, <1>6, <1>7, <1>8, <1>9 DEF ReceiverThread

(* The recorder begins with nothing of a stream before and ends every line.  *)
LEMMA LinesStep ==
  ASSUME MaxUnplugs = 0, CommandsTyped, BuffersTyped, Files, Streams, Acquisition, Lines, [Next]_vars
  PROVE  Lines'
  <1>0. /\ storage \in [Kinds -> {<<>>} \cup {<<device>> : device \in Device}]
        /\ signalQueue \in [Kinds -> Seq(Buffer)]
        /\ recorderCommands \in Seq(Command)
        /\ \A k \in Kinds : storage[k] # <<>> => Of(k) \in Device /\ Of(k).name \in Names /\ Of(k).name.kind = k
    BY DEF Files, FilesOK, BuffersTyped, CommandsTyped, Of, Device
  <1>a. ASSUME NEW k \in Kinds, storage'[k] = storage[k],
               \A name \in Names : name.kind = k => disk'[name].samples = disk[name].samples
        PROVE  WriteOpen(k) => Contents(k)' = Contents(k)
    <2> SUFFICES ASSUME WriteOpen(k) PROVE Contents(k)' = Contents(k)
      OBVIOUS
    <2>1. Of(k).name \in Names /\ Of(k).name.kind = k /\ Of(k)' = Of(k)
      BY <1>0, <1>a DEF WriteOpen, Of
    <2> QED
      BY <1>a, <2>1 DEF Contents
  <1>1. ASSUME \A k \in Kinds : ~WriteSamples(k),
               UNCHANGED <<status, storage, signalQueue, raw, receiver>>, recorded \subseteq recorded',
               rpc' = "writing" => rpc = "writing", recorderCommands' = <<>> => recorderCommands = <<>>
        PROVE  Lines'
    <2> SUFFICES ASSUME NEW k \in Kinds PROVE InLine(k)'
      BY DEF Lines
    <2>1. WriteOpen(k) => Contents(k)' = Contents(k)
      BY <1>1, <1>a, SamplesStay
    <2>2. /\ Line(k) => Line(k)'
          /\ Unheard(k) <=> Unheard(k)'
          /\ WriteOpen(k) <=> WriteOpen(k)'
      BY <1>1, <2>1, LineKept
    <2> QED
      BY <1>1, <2>2 DEF Lines, InLine
  <1>2. ASSUME NEW k \in Kinds, ReceiverThread(k) PROVE Lines'
    <2> SUFFICES ASSUME NEW j \in Kinds PROVE InLine(j)'
      BY DEF Lines
    <2>1. CASE j = k
      BY <1>2, <2>1, ReceiverAdds DEF Lines
    <2>2. CASE j # k
      <3>1. /\ UNCHANGED <<disk, rpc, status, storage, recorderCommands, recorded>>
            /\ receiver'[j] = receiver[j] /\ raw'[j] = raw[j] /\ signalQueue'[j] = signalQueue[j]
        BY <1>2, <2>2, ReceiverMoves DEF controlVars
      <3>2. WriteOpen(j) => Contents(j)' = Contents(j)
        BY <1>a, <3>1
      <3>3. /\ Line(j) => Line(j)'
            /\ Unheard(j) <=> Unheard(j)'
            /\ WriteOpen(j) <=> WriteOpen(j)'
        BY <3>1, <3>2, LineKept
      <3> QED
        BY <3>1, <3>3 DEF Lines, InLine
    <2> QED
      BY <2>1, <2>2
  <1>3. CASE RecorderThread
    <2>0. UNCHANGED <<receiver, raw, recorded>>
      BY <1>3 DEF RecorderThread, ResolveWrite, Replay, partnerVars, controlVars
    <2>1. CASE ResolveWrite
      <3>1. /\ recorderCommands # <<>> /\ Head(recorderCommands).code = "Write"
            /\ rpc' = "writing" /\ UNCHANGED <<status, storage, disk>>
            /\ \A k \in Kinds : signalQueue'[k] = <<>>
        BY <2>1 DEF ResolveWrite, WriteStorage, Handling, Emptied
      <3>2. Ordered
        <4>1. Recorded
          BY <1>0, <3>1, Queued DEF Recorded
        <4>2. ~Going
          BY <3>1 DEF Going
        <4>3. ~Stopping
          <5> SUFFICES ASSUME Stopping PROVE FALSE
            OBVIOUS
          <5>1. recorderCommands = <<[code |-> "Stop"]>>
            BY DEF Stopping
          <5> QED
            BY <3>1, <5>1
        <4> QED
          BY <4>1, <4>2, <4>3 DEF Acquisition
      <3>3. ASSUME NEW k \in Kinds PROVE InLine(k)'
        <4>1. status # "Writing" /\ ~Running(k)
          BY <3>2 DEF Ordered, AtRest
        <4>2. ~WriteOpen(k)'
          BY <3>1, <4>1 DEF Lines, InLine, WriteOpen, Of
        <4>3. raw[k].pc = "add" => ~IsValid(raw[k].buffer)
          BY <4>1 DEF Streams
        <4>4. Unheard(k)'
          BY <2>0, <3>1, <4>2, <4>3 DEF Unheard
        <4> QED
          BY <3>1, <4>1, <4>2, <4>4 DEF InLine
      <3> QED
        BY <3>3 DEF Lines
    <2>2. CASE ReadStorage
      <3> DEFINE name == Head(recorderCommands).name
      <3>1. /\ recorderCommands # <<>> /\ Head(recorderCommands).code = "Read"
            /\ rpc' = "reading" /\ UNCHANGED status
            /\ storage' = [storage EXCEPT ![name.kind] = <<Opened(name, "Read")>>]
        BY <2>2 DEF ReadStorage, Handling
      <3>2. status # "Writing"
        <4> SUFFICES ASSUME Ordered \/ Going \/ Stopping PROVE FALSE
          BY DEF Acquisition, Recorded
        <4>1. recorderCommands \in {<<>>, <<[code |-> "Write"]>>, <<[code |-> "Stop"]>>}
          BY DEF Ordered, Going, Stopping
        <4> QED
          BY <3>1, <4>1
      <3>3. Opened(name, "Read").mode = "Read"
        BY DEF Opened
      <3> HIDE DEF name
      <3>4. ASSUME NEW k \in Kinds PROVE InLine(k)'
        <4>1. storage'[k] = storage[k] \/ storage'[k] = <<Opened(name, "Read")>>
          BY <1>0, <3>1
        <4>2. ~WriteOpen(k)
          BY <3>2 DEF Lines, InLine
        <4>3. ~WriteOpen(k)'
          BY <3>3, <4>1, <4>2 DEF WriteOpen, Of
        <4> QED
          BY <3>1, <3>2, <4>3 DEF InLine
      <3> QED
        BY <3>4 DEF Lines
    <2>3. CASE CommandDone
      <3>1. /\ rpc \in {"writing", "reading"} /\ rpc' = "logic"
            /\ status' = IF rpc = "writing" THEN "Writing" ELSE "Reading"
            /\ UNCHANGED <<disk, storage, signalQueue>>
        BY <2>3 DEF CommandDone
      <3>2. ASSUME NEW k \in Kinds PROVE InLine(k)'
        <4>1. /\ Line(k) => Line(k)'
              /\ Unheard(k) <=> Unheard(k)'
              /\ WriteOpen(k) <=> WriteOpen(k)'
          BY <1>a, <2>0, <3>1, LineKept
        <4>2. CASE rpc = "writing"
          <5>1. Unheard(k) /\ Line(k)
            BY <4>2, LineOfUnheard DEF Lines, InLine
          <5> QED
            BY <3>1, <4>1, <4>2, <5>1 DEF InLine
        <4>3. CASE rpc = "reading"
          <5>1. status # "Writing"
            BY <4>3 DEF Acquisition, Recorded, Ordered, Going, Stopping
          <5> QED
            BY <3>1, <4>1, <4>3, <5>1 DEF Lines, InLine
        <4> QED
          BY <3>1, <4>2, <4>3
      <3> QED
        BY <3>2 DEF Lines
    <2>4. CASE CloseStorage
      <3>1. rpc' = "command" /\ status' = "Idle" /\ \A k \in Kinds : storage'[k] = <<>>
        BY <2>4 DEF CloseStorage, Emptied
      <3> QED
        BY <3>1 DEF Lines, InLine, WriteOpen
    <2>5. CASE NoCommand
      BY <1>1, <2>0, <2>5 DEF NoCommand, WriteSamples, Writing, Kinds
    <2>6. CASE ReadFinished
      <3>1. /\ UNCHANGED <<storage, signalQueue, recorderCommands>> /\ rpc' = "command"
            /\ \A k \in Kinds : ~WriteSamples(k)
        BY <2>6 DEF ReadFinished, WriteSamples, Writing, Kinds
      <3>2. CASE status' = status
        BY <1>1, <2>0, <3>1, <3>2
      <3>3. CASE status' # status
        <4>1. status' = "Idle" /\ \A k \in Kinds : storage[k] = <<>>
          BY <2>6, <3>3 DEF ReadFinished, IsSet
        <4> QED
          BY <3>1, <4>1 DEF Lines, InLine, WriteOpen
      <3> QED
        BY <3>2, <3>3
    <2>7. ASSUME NEW i \in Kinds, ReadOne(i) PROVE Lines'
      <3>1. status = "Reading" /\ UNCHANGED status /\ rpc' \in {"radio", "check"}
        BY <2>7 DEF ReadOne
      <3>2. ASSUME NEW k \in Kinds PROVE ~WriteOpen(k)'
        <4>1. ~WriteOpen(k)
          BY <3>1 DEF Lines, InLine
        <4>2. CASE storage'[k] = storage[k]
          BY <4>1, <4>2 DEF WriteOpen, Of
        <4>3. CASE IsSet(i) /\ ClosesSlot(i)
          <5>1. PICK next :
                  /\ next = <<>> \/ \E name \in Names : next = <<Opened(name, "Read")>>
                  /\ storage' = [storage EXCEPT ![i] = next]
            BY <4>3 DEF ClosesSlot
          <5>2. next # <<>> => next[1].mode = "Read"
            BY <5>1 DEF Opened
          <5>3. storage'[k] = storage[k] \/ storage'[k] = next
            BY <1>0, <5>1
          <5> QED
            BY <4>2, <5>2, <5>3 DEF WriteOpen, Of
        <4>4. CASE /\ IsSet(i)
                   /\ \E device \in Device : /\ device.name = Of(i).name /\ device.mode = Of(i).mode
                                             /\ storage' = [storage EXCEPT ![i] = <<device>>]
          <5>1. PICK device \in Device : /\ device.mode = Of(i).mode
                                         /\ storage' = [storage EXCEPT ![i] = <<device>>]
            BY <4>4
          <5>2. storage'[k] = storage[k] \/ (k = i /\ storage'[k] = <<device>>)
            BY <1>0, <5>1
          <5> QED
            BY <4>1, <4>2, <4>4, <5>1, <5>2 DEF WriteOpen, Of, IsSet
        <4>5. ~IsSet(i) => storage' = storage
          BY <2>7 DEF ReadOne
        <4> QED
          BY <2>7, <4>2, <4>3, <4>4, <4>5, ReadSteps
      <3> QED
        BY <3>1, <3>2 DEF Lines, InLine
    <2>8. ASSUME NEW i \in Kinds, WriteOne(i), UNCHANGED <<partnerVars, controlVars>> PROVE Lines'
      <3>1. /\ status = "Writing" /\ UNCHANGED <<status, recorderCommands>>
            /\ rpc = i /\ rpc' \in {"radio", "command"}
        BY <2>8 DEF WriteOne, NothingToWrite, WriteSamples, FinishFile, FinishNameless, Writing
      <3>2. CASE NothingToWrite(i) \/ FinishNameless(i)
        <4>1. \A k \in Kinds : ~WriteSamples(k)
          BY <3>1, <3>2 DEF NothingToWrite, FinishNameless, EndQueued, WriteSamples, Writing
        <4> QED
          BY <1>1, <2>0, <3>1, <3>2, <4>1 DEF NothingToWrite, FinishNameless
      <3>3. CASE WriteSamples(i) \/ FinishFile(i)
        <4>1. Line(i)'
          BY <2>8, <3>1, <3>3, LineWritten DEF Lines, InLine
        <4>2. signalQueue' = [signalQueue EXCEPT ![i] = Tail(@)]
          BY <3>3 DEF WriteSamples, FinishFile
        <4>3. ASSUME recorderCommands = <<>>, receiver[i].status # "streaming" PROVE Unheard(i)'
          <5>1. Unheard(i)
            BY <3>1, <4>3 DEF Lines, InLine
          <5>2. signalQueue[i] \in Seq(Buffer) /\ signalQueue[i] # <<>>
            BY <1>0, <3>3 DEF WriteSamples, FinishFile, EndQueued
          <5>3. \A j \in DOMAIN Tail(signalQueue[i]) :
                   j + 1 \in DOMAIN signalQueue[i] /\ Tail(signalQueue[i])[j] = signalQueue[i][j + 1]
            BY <5>2
          <5>4. ~WriteSamples(i)
            <6>1. ~IsValid(signalQueue[i][1])
              BY <5>1, <5>2 DEF Unheard
            <6> QED
              BY <5>2, <6>1 DEF WriteSamples
          <5>5. storage'[i] = <<>>
            BY <1>0, <3>3, <5>4 DEF FinishFile
          <5>6. signalQueue'[i] = Tail(signalQueue[i])
            BY <1>0, <4>2
          <5> QED
            BY <2>0, <5>1, <5>3, <5>5, <5>6 DEF Unheard, WriteOpen
        <4>4. InLine(i)'
          BY <2>0, <3>1, <4>1, <4>3 DEF InLine, Kinds
        <4>5. ASSUME NEW k \in Kinds \ {i} PROVE InLine(k)'
          <5>1. signalQueue'[k] = signalQueue[k]
            BY <1>0, <4>2
          <5>2. storage'[k] = storage[k] /\ \A name \in Names : name.kind = k => disk'[name].samples = disk[name].samples
            <6>1. CASE FinishFile(i)
              <7>1. \A j \in Kinds : ~WriteSamples(j)
                BY <3>1, <6>1 DEF FinishFile, EndQueued, WriteSamples, Writing
              <7> QED
                BY <1>0, <6>1, <7>1, SamplesStay DEF FinishFile
            <6>2. CASE WriteSamples(i)
              BY <6>2, SamplesWritten
            <6> QED
              BY <3>3, <6>1, <6>2
          <5>3. WriteOpen(k) => Contents(k)' = Contents(k)
            BY <1>a, <5>2
          <5>4. /\ Line(k) => Line(k)'
                /\ Unheard(k) <=> Unheard(k)'
                /\ WriteOpen(k) <=> WriteOpen(k)'
            BY <2>0, <5>1, <5>2, <5>3, LineKept
          <5> QED
            BY <2>0, <3>1, <5>4 DEF Lines, InLine, Kinds
        <4> QED
          BY <4>4, <4>5 DEF Lines
      <3> QED
        BY <2>8, <3>2, <3>3 DEF WriteOne
    <2> QED
      BY <1>3, <2>1, <2>2, <2>3, <2>4, <2>5, <2>6, <2>7, <2>8 DEF RecorderThread, Replay
  <1>4. CASE ~RecorderThread
    <2>1. CASE TraceCleared \/ User \/ Tick \/ (\E k \in Kinds : DecoderThread(k)) \/ UNCHANGED vars
      <3>1. /\ UNCHANGED <<rpc, status, storage, signalQueue, raw, receiver>> /\ recorded \subseteq recorded'
        BY <2>1 DEF TraceCleared, User, Start, Stop, Open, ControlOnly, Tick, DecoderThread,
                    StartDecoding, DecoderStreaming, vars, recorderVars, partnerVars, controlVars
      <3>2. recorderCommands' = <<>> => recorderCommands = <<>>
        <4>1. recorderCommands' = recorderCommands \/ \E e : recorderCommands' = Append(recorderCommands, e)
          BY <2>1 DEF TraceCleared, User, Start, Stop, Open, ControlOnly, Tick, DecoderThread,
                      StartDecoding, DecoderStreaming, vars, recorderVars
        <4>2. \A e : Append(recorderCommands, e) # <<>>
          BY <1>0
        <4> QED
          BY <4>1, <4>2
      <3>3. \A k \in Kinds : ~WriteSamples(k)
        BY <3>1 DEF WriteSamples, Writing, Kinds
      <3> QED
        BY <1>1, <3>1, <3>2, <3>3
    <2>2. ASSUME NEW k \in Kinds, Unplug(k) \/ Plug(k) PROVE FALSE
      BY <2>2 DEF Unplug, Plug, Streams
    <2> QED
      BY <1>2, <1>4, <2>1, <2>2 DEF Next, Environment
  <1> QED
    BY <1>3, <1>4

(* What follows the last sample keeps a file of one stream.                  *)
LEMMA OneMore ==
  ASSUME NEW s \in Seq(Samples), NEW e \in Samples, OneStream(s), s # <<>>, Follows(LastOf(s), e)
  PROVE  OneStream(Append(s, e))
  <1> DEFINE n == Len(s)
             a == Append(s, e)
  <1>1. /\ n \in Nat /\ n \in 1..n /\ Len(a) = n + 1 /\ a[n + 1] = e
        /\ \A i \in 1..n : a[i] = s[i] /\ s[i] \in Samples
    OBVIOUS
  <1> HIDE DEF a
  <1>2. \A i \in 1..n : s[i].stream \in Nat /\ s[i].offset \in Nat
    BY <1>1 DEF Samples
  <1>3. e.stream = s[n].stream /\ e.offset = s[n].offset + 1
    BY DEF Follows, LastOf
  <1>4. \A i, j \in 1..n : s[i].stream = s[j].stream /\ s[j].offset - s[i].offset = j - i
    BY DEF OneStream
  <1>5. \A i \in 1..n : s[i].stream = e.stream /\ e.offset - s[i].offset = (n + 1) - i
    <2> TAKE i \in 1..n
    <2>1. s[i].stream = s[n].stream /\ s[n].offset - s[i].offset = n - i
      BY <1>1, <1>4
    <2>2. e.stream = s[n].stream /\ e.offset = s[n].offset + 1 /\ s[n].offset \in Nat /\ s[i].offset \in Nat
      BY <1>1, <1>2, <1>3
    <2>3. \A x, y \in Nat : y - x = n - i => (y + 1) - x = (n + 1) - i
      BY <1>1
    <2> QED
      BY <2>1, <2>2, <2>3
  <1>6. e.offset - e.offset = (n + 1) - (n + 1)
    <2>1. e.offset \in Nat
      BY DEF Samples
    <2> QED
      BY <1>1, <2>1
  <1>7. \A i \in 1..n : s[i].offset - e.offset = i - (n + 1)
    <2> TAKE i \in 1..n
    <2>1. e.offset - s[i].offset = (n + 1) - i /\ e.offset \in Nat /\ s[i].offset \in Nat
      BY <1>2, <1>5 DEF Samples
    <2> QED
      BY <1>1, <2>1
  <1>8. \A i \in 1..n + 1 : i \in 1..n \/ i = n + 1
    BY <1>1
  <1>9. ASSUME NEW i \in 1..n + 1, NEW j \in 1..n + 1
        PROVE  a[i].stream = a[j].stream /\ a[j].offset - a[i].offset = j - i
    <2>1. CASE i \in 1..n /\ j \in 1..n
      BY <1>1, <1>4, <2>1
    <2>2. CASE i \in 1..n /\ j = n + 1
      BY <1>1, <1>5, <2>2
    <2>3. CASE i = n + 1 /\ j \in 1..n
      BY <1>1, <1>5, <1>7, <2>3
    <2>4. CASE i = n + 1 /\ j = n + 1
      BY <1>1, <1>6, <2>4
    <2> QED
      BY <1>8, <2>1, <2>2, <2>3, <2>4
  <1>10. OneStream(a)
    BY <1>1, <1>9 DEF OneStream
  <1> QED
    BY <1>10 DEF a

(* A file only grows by what follows, and only by what is wanted.            *)
LEMMA PiecesStep ==
  ASSUME CommandsTyped, BuffersTyped, Files, Lines, Pieces, [Next]_vars
  PROVE  Pieces'
  <1>0. disk \in [Names -> File] /\ signalQueue \in [Kinds -> Seq(Buffer)]
    BY DEF Files, FilesOK, BuffersTyped
  <1>1. recorded \subseteq recorded'
    BY DEF Next, vars, RecorderThread, ResolveWrite, Replay, TraceCleared, User, Start, Stop, Open,
           Environment, Tick, Unplug, Plug, Publish, ReceiverThread, StartStream, StopStream,
           PublishSamples, PublishEnd, Offer, Add, ReceiverOnly, DecoderThread, StartDecoding,
           DecoderStreaming, controlVars
  <1>2. CASE \A k \in Kinds : ~WriteSamples(k)
    <2>1. \A name \in Names : disk'[name].samples = disk[name].samples
      BY <1>2, SamplesStay
    <2> QED
      BY <1>1, <2>1 DEF Pieces
  <1>3. ASSUME NEW k \in Kinds, WriteSamples(k) PROVE Pieces'
    <2> DEFINE samples == Head(signalQueue[k]).samples
    <2>1. status = "Writing" /\ signalQueue[k] # <<>> /\ IsValid(Head(signalQueue[k]))
      BY <1>3 DEF WriteSamples, Writing
    <2>2. Line(k)
      BY <2>1 DEF Lines, InLine
    <2>3. 1 \in 1..Len(signalQueue[k]) /\ Head(signalQueue[k]) = signalQueue[k][1]
      BY <1>0, <2>1
    <2>4. /\ <<k, samples.stream>> \in recorded
          /\ WriteOpen(k) => Contents(k) # <<>> /\ Follows(LastOf(Contents(k)), samples)
      BY <2>1, <2>2, <2>3 DEF Line
    <2>5. PICK to \in Names :
            /\ samples \in Samples /\ to.kind = k
            /\ \/ UNCHANGED disk
               \/ /\ WriteOpen(k) /\ to = Of(k).name
                  /\ \A name \in Names : disk'[name].samples =
                       IF name = to THEN Append(disk[to].samples, samples) ELSE disk[name].samples
               \/ \A name \in Names : disk'[name].samples =
                       IF name = to THEN <<samples>> ELSE disk[name].samples
      BY <1>3, SamplesWritten
    <2> HIDE DEF samples
    <2>6. ASSUME NEW name \in Names, disk'[name].samples = disk[name].samples
          PROVE  /\ OneStream(disk'[name].samples)
                 /\ \A i \in 1..Len(disk'[name].samples) : <<name.kind, disk'[name].samples[i].stream>> \in recorded
      BY <2>6 DEF Pieces
    <2>7. ASSUME WriteOpen(k), to = Of(k).name, disk'[to].samples = Append(disk[to].samples, samples)
          PROVE  /\ OneStream(disk'[to].samples)
                 /\ \A i \in 1..Len(disk'[to].samples) : <<to.kind, disk'[to].samples[i].stream>> \in recorded
      <3>1. disk[to].samples \in Seq(Samples) /\ disk[to].samples = Contents(k)
        BY <1>0, <2>7 DEF File, Contents
      <3>2. OneStream(disk'[to].samples)
        BY <2>4, <2>5, <2>7, <3>1, OneMore DEF Pieces
      <3>3. \A i \in 1..Len(disk[to].samples) : <<to.kind, disk[to].samples[i].stream>> \in recorded
        BY DEF Pieces
      <3>4. ASSUME NEW s \in Seq(Samples), NEW i \in 1..Len(Append(s, samples))
            PROVE  (i \in 1..Len(s) /\ Append(s, samples)[i] = s[i]) \/ Append(s, samples)[i] = samples
        BY <2>5, <3>4
      <3> QED
        BY <2>4, <2>5, <2>7, <3>1, <3>2, <3>3, <3>4
    <2>8. ASSUME disk'[to].samples = <<samples>>
          PROVE  /\ OneStream(disk'[to].samples)
                 /\ \A i \in 1..Len(disk'[to].samples) : <<to.kind, disk'[to].samples[i].stream>> \in recorded
      <3>1. Len(<<samples>>) = 1 /\ <<samples>>[1] = samples /\ samples.offset \in Nat
        BY <2>5 DEF Samples
      <3>2. \A i \in 1..1 : i = 1
        OBVIOUS
      <3>3. samples.offset - samples.offset = 1 - 1
        BY <3>1
      <3> QED
        BY <2>4, <2>5, <2>8, <3>1, <3>2, <3>3 DEF OneStream
    <2>9. ASSUME NEW name \in Names
          PROVE  /\ OneStream(disk'[name].samples)
                 /\ \A i \in 1..Len(disk'[name].samples) : <<name.kind, disk'[name].samples[i].stream>> \in recorded
      BY <2>5, <2>6, <2>7, <2>8
    <2> QED
      BY <1>1, <2>9 DEF Pieces
  <1> QED
    BY <1>2, <1>3

(* The invariant holds in every behaviour in which the receivers stay.       *)
LEMMA OneAlways ==
  ASSUME MaxUnplugs = 0
  PROVE  Spec => []One
  <1>1. ASSUME Init PROVE One
    <2>1. /\ receiver = [k \in Kinds |-> [status |-> IF k \in receivers THEN "idle" ELSE "absent",
                                          stream |-> 0, next |-> MaxUnits]]
          /\ receivers \in Fitted /\ unplugs = 0
          /\ raw = [k \in Kinds |-> [pc |-> "none", buffer |-> EndOfStream("flush")]]
          /\ receiverCommands = [k \in Kinds |-> <<>>]
          /\ recorderCommands = <<>> /\ clears = <<>> /\ status = "Idle" /\ rpc = "command"
          /\ storage = [k \in Kinds |-> <<>>]
          /\ disk = [name \in Names |-> NoFile]
      BY <1>1 DEF Init, RecorderInit, DiskInit
    <2>2. Streams
      <3>1. receiverCommands \in [Kinds -> Seq({"Start", "Stop"})] /\ receivers \subseteq Kinds
        BY <2>1 DEF RecordingAssumption
      <3>2. ASSUME NEW k \in Kinds
            PROVE  /\ receiver[k].status = "absent" <=> k \notin receivers
                   /\ raw[k].pc = "none" /\ receiver[k].next = MaxUnits
        BY <2>1
      <3> QED
        BY <2>1, <3>1, <3>2 DEF Streams
    <2>3. Acquisition
      BY <2>1, Queued DEF Acquisition, Recorded
    <2>4. Lines
      BY <2>1 DEF Lines, InLine, WriteOpen
    <2>5. Pieces
      <3>1. ASSUME NEW name \in Names PROVE disk[name].samples = <<>>
        BY <2>1 DEF NoFile
      <3>2. Len(<<>>) = 0 /\ \A i \in 1..0 : FALSE
        OBVIOUS
      <3> QED
        BY <3>1, <3>2 DEF Pieces, OneStream
    <2> QED
      BY <2>2, <2>3, <2>4, <2>5 DEF One
  <1>2. ASSUME One, CommandsTyped, BuffersTyped, Files, [Next]_vars PROVE One'
    BY <1>2, StreamsStep, AcquisitionStep, LinesStep, PiecesStep DEF One
  <1> QED
    <2>1. Init => One
      BY <1>1
    <2>2. One /\ CommandsTyped /\ BuffersTyped /\ Files /\ [Next]_vars => One'
      BY <1>2
    <2> QED
      BY <2>1, <2>2, CommandsAreTyped, BuffersAreTyped, FilesAreOK, PTL DEF Spec

(* The raw callbacks, writeLogic and writeRadio: while the receivers stay, a  *)
(* recording is one piece of one stream, whatever the queues hold when it is  *)
(* started and whatever comes after its end.                                  *)
THEOREM RecordingsAreWhole ==
  ASSUME MaxUnplugs = 0
  PROVE  Spec => []OneStreamPerFile
  <1>1. One /\ Files => OneStreamPerFile
    <2> SUFFICES ASSUME One, Files, NEW name \in Names,
                        NEW i \in DOMAIN disk[name].samples, NEW j \in DOMAIN disk[name].samples
                 PROVE  /\ disk[name].samples[i].stream = disk[name].samples[j].stream
                        /\ disk[name].samples[j].offset - disk[name].samples[i].offset = j - i
      BY DEF OneStreamPerFile
    <2>1. DOMAIN disk[name].samples = 1..Len(disk[name].samples)
      BY DEF Files, FilesOK, File
    <2> QED
      BY <2>1 DEF One, Pieces, OneStream
  <1>2. Spec => []One
    BY OneAlways
  <1> QED
    BY <1>1, <1>2, FilesAreOK, PTL

(* ... and of a stream that was started with a storage path.                  *)
THEOREM NothingElseRecorded ==
  ASSUME MaxUnplugs = 0
  PROVE  Spec => []OnlyWantedIsRecorded
  <1>1. One /\ Files => OnlyWantedIsRecorded
    <2> SUFFICES ASSUME One, Files, NEW name \in Names, NEW i \in DOMAIN disk[name].samples
                 PROVE  <<name.kind, disk[name].samples[i].stream>> \in recorded
      BY DEF OnlyWantedIsRecorded
    <2>1. DOMAIN disk[name].samples = 1..Len(disk[name].samples)
      BY DEF Files, FilesOK, File
    <2> QED
      BY <2>1 DEF One, Pieces
  <1>2. Spec => []One
    BY OneAlways
  <1> QED
    BY <1>1, <1>2, FilesAreOK, PTL

(* close() and open(): while the receivers stay, a recording that fits a WAV  *)
(* file is left with its header, however it was ended and whatever was read   *)
(* or recorded since.  (What is open for writing is never read then: a read   *)
(* would fail the stream, and the header would stay as open() wrote it.)      *)
THEOREM HeadersAreWritten ==
  ASSUME MaxUnplugs = 0
  PROVE  Spec => []HeaderIsWritten
  <1> DEFINE AllHeaded == Headed(disk, storage)
  <1>1. Init => AllHeaded
    <2> SUFFICES ASSUME Init, NEW name \in Names PROVE Settled(disk[name])
      BY DEF Headed
    <2>1. disk[name] = NoFile
      BY DEF Init, RecorderInit, DiskInit
    <2> QED
      BY <2>1 DEF NoFile, Settled
  <1>2. One /\ CommandsTyped /\ BuffersTyped /\ Files /\ AllHeaded /\ [Next]_vars => AllHeaded'
    <2>1. One => NoneReadWriting
      BY DEF One, Lines, InLine, NoneReadWriting
    <2> QED
      BY <2>1, FilesStep
  <1>3. Files /\ AllHeaded => HeaderIsWritten
    <2> SUFFICES ASSUME Files, AllHeaded, NEW name \in Names, disk[name].exists,
                        ~OpenForWriting(name), Len(disk[name].samples) < SizeModulus
                 PROVE  disk[name].header = Len(disk[name].samples)
      BY DEF HeaderIsWritten
    <2>1. ~WritesTo(storage, name)
      BY OpenIsInSlot
    <2> QED
      BY <2>1 DEF Headed, Settled
  <1>4. Spec => []One
    BY OneAlways
  <1> HIDE DEF AllHeaded
  <1> QED
    BY <1>1, <1>2, <1>3, <1>4, CommandsAreTyped, BuffersAreTyped, FilesAreOK, PTL DEF Spec

-----------------------------------------------------------------------------
(* A replay gives a piece of the file back, from where the decoder begins to *)
(* take buffers to the end, while the receivers stay (MaxUnplugs = 0) and    *)
(* nobody stops it (StopsReplay FALSE)                                       *)

DecodersTyped == decoder \in [Kinds -> Decoder]

ReadOpen(k) == storage[k] # <<>> /\ Of(k).mode = "Read"

Replays(k) == decoder[k].replay /\ decoder[k].status # "idle"

AsksToRead(thens) == \E i \in 1..Len(thens) : thens[i].then = "read"
ToRead(commands) == \E i \in 1..Len(commands) : commands[i].code = "Read"

(* no file is asked for, read or decoded                                     *)
Silent ==
  /\ ~AsksToRead(clears) /\ ~ToRead(recorderCommands) /\ rpc # "reading"
  /\ \A k \in Kinds : ~AsksToRead(decoderCommands[k]) /\ ~ReadOpen(k) /\ ~Replays(k)

(* nothing else goes on: nobody records, no receiver has anything to send    *)
Resting == ~Recorded /\ \A k \in Kinds : ~Running(k) /\ receiverCommands[k] = <<>>

Unread ==
  /\ rpc # "reading" /\ recorderCommands = <<>>
  /\ \A k \in Kinds : storage[k] = <<>> /\ ~Replays(k)

(* the file waits for the trace storage to be cleared, then for its decoder  *)
Asked(name) ==
  /\ Unread
  /\ clears = <<[then |-> "read", name |-> name]>> /\ \A k \in Kinds : decoderCommands[k] = <<>>

Passed(name) ==
  /\ Unread
  /\ clears = <<>>
  /\ \A k \in Kinds : decoderCommands[k] =
       IF k = DecoderFor(name) THEN <<[then |-> "read", name |-> name]>> ELSE <<>>

(* the samples of a recording from one place to another, as they are heard   *)
Piece(all, from, to) == Numbered(SubSeq(all, from + 1, to), from)

(* The decoder waits for the file: it is to be opened, or goes to the other  *)
(* decoder or has been read too soon, or has been heard as far as it has     *)
(* been read, from where the decoder was ready.                              *)
ToOpen(name, k) ==
  /\ recorderCommands = <<[code |-> "Read", name |-> name]>>
  /\ rpc # "reading" /\ \A j \in Kinds : storage[j] = <<>>
  /\ decoder[k].heard = <<>>

Elsewhere(k) ==
  /\ recorderCommands = <<>>
  /\ storage[k] = <<>> /\ decoder[k].heard = <<>>

Given(name, k) ==
  /\ recorderCommands = <<>> /\ name.kind = k
  /\ rpc = "reading" \/ status = "Reading"
  /\ ReadOpen(k) /\ Of(k).name = name /\ ~Of(k).eof /\ ~Of(k).failed
  /\ \A j \in Kinds \ {k} : storage[j] = <<>>
  /\ Of(k).at <= Len(decoder[k].wanted)
  /\ \E from \in 0..Of(k).at : decoder[k].heard = Piece(decoder[k].wanted, from, Of(k).at)

FollowsFile(name, k) ==
  /\ clears = <<>> /\ \A j \in Kinds : decoderCommands[j] = <<>>
  /\ Replays(k) /\ \A j \in Kinds \ {k} : ~Replays(j)
  /\ disk[name].samples = decoder[k].wanted
  /\ decoder[k].status = "starting" => decoder[k].heard = <<>>
  /\ ToOpen(name, k) \/ Elsewhere(k) \/ Given(name, k)

Under(name) == Asked(name) \/ Passed(name) \/ \E k \in Kinds : FollowsFile(name, k)

(* From the opening of a file to the end of its decoding nobody gives        *)
(* another command.                                                          *)
Reading ==
  \/ Silent
  \/ Resting /\ \E name \in Names : Under(name)

(* A replay that is over was heard to the end.                               *)
Heards ==
  \A k \in Kinds : decoder[k].replay /\ decoder[k].status = "idle" =>
    LET wanted == decoder[k].wanted IN
    \E from \in 0..Len(wanted) : decoder[k].heard = Piece(wanted, from, Len(wanted))

Faithful == Reading /\ Heards

(* The samples as they are heard                                             *)
LEMMA NumberedSamples ==
  ASSUME NEW s \in Seq(Samples), NEW first \in Nat
  PROVE  /\ Numbered(s, first) \in Seq(Heard) /\ Len(Numbered(s, first)) = Len(s)
         /\ \A i \in 1..Len(s) : Numbered(s, first)[i] = [at |-> first + i - 1, samples |-> s[i]]
  <1> DEFINE f == Numbered(s, first)
             n == Len(s)
  <1>1. n \in Nat /\ DOMAIN s = 1..n /\ \A i \in 1..n : s[i] \in Samples
    OBVIOUS
  <1>2. f = [i \in 1..n |-> [at |-> first + i - 1, samples |-> s[i]]]
    BY <1>1 DEF Numbered
  <1> HIDE DEF f, n
  <1>3. \A i \in 1..n : [at |-> first + i - 1, samples |-> s[i]] \in Heard
    <2> TAKE i \in 1..n
    <2>1. first + i - 1 \in Nat
      BY <1>1
    <2> QED
      BY <1>1, <2>1 DEF Heard
  <1>4. f \in [1..n -> Heard]
    BY <1>2, <1>3
  <1>5. f \in Seq(Heard)
    BY <1>1, <1>4, SeqDef
  <1>6. Len(f) = n
    <2>1. Len(f) \in Nat /\ DOMAIN f = 1..Len(f)
      BY <1>5, LenProperties
    <2>2. 1..Len(f) = 1..n
      BY <1>4, <2>1
    <2>3. ASSUME NEW a \in Nat, NEW b \in Nat, 1..a = 1..b PROVE ~(a > b)
      <3> SUFFICES ASSUME a > b PROVE FALSE
        OBVIOUS
      <3>1. a \in 1..a
        OBVIOUS
      <3>2. a \in 1..b
        BY <2>3, <3>1, Zenon
      <3> QED
        BY <3>2
    <2>4. ~(Len(f) > n) /\ ~(n > Len(f))
      BY <1>1, <2>1, <2>2, <2>3
    <2> QED
      <3>1. \A a, b \in Nat : ~(a > b) /\ ~(b > a) => a = b
        OBVIOUS
      <3> QED
        BY <1>1, <2>1, <2>4, <3>1
  <1>7. \A i \in 1..n : f[i] = [at |-> first + i - 1, samples |-> s[i]]
    BY <1>2
  <1> QED
    BY <1>5, <1>6, <1>7 DEF f, n

(* A piece has the samples of the recording, with the offsets they have there. *)
LEMMA PieceIs ==
  ASSUME NEW s \in Seq(Samples), NEW m \in Nat, NEW n \in Nat, m <= n, n <= Len(s)
  PROVE  /\ Piece(s, m, n) \in Seq(Heard) /\ Len(Piece(s, m, n)) = n - m
         /\ \A i \in 1..n - m : Piece(s, m, n)[i] = [at |-> m + i - 1, samples |-> s[m + i]]
  <1> DEFINE part == SubSeq(s, m + 1, n)
  <1>1. part \in Seq(Samples) /\ Len(part) = n - m /\ \A i \in 1..n - m : part[i] = s[m + i]
    OBVIOUS
  <1>2. Piece(s, m, n) = Numbered(part, m)
    BY DEF Piece
  <1> HIDE DEF part
  <1> QED
    BY <1>1, <1>2, NumberedSamples

(* Nothing is a piece, too. *)
LEMMA EmptyPiece ==
  ASSUME NEW s \in Seq(Samples), NEW n \in Nat, n <= Len(s)
  PROVE  Piece(s, n, n) = <<>>
  <1>1. Piece(s, n, n) \in Seq(Heard) /\ Len(Piece(s, n, n)) = n - n
    BY PieceIs
  <1>2. \A t \in Seq(Heard) : Len(t) = 0 => t = <<>>
    OBVIOUS
  <1>3. n - n = 0
    OBVIOUS
  <1> QED
    BY <1>1, <1>2, <1>3

(* Two pieces, one after the other *)
LEMMA NextPiece ==
  ASSUME NEW s \in Seq(Samples), NEW m \in Nat, NEW a \in Nat, NEW b \in Nat,
         m <= a, a <= b, b <= Len(s)
  PROVE  Piece(s, m, a) \o Piece(s, a, b) = Piece(s, m, b)
  <1> DEFINE l == Piece(s, m, a)
             r == Piece(s, a, b)
             w == Piece(s, m, b)
  <1>0. Len(s) \in Nat /\ m <= b /\ a <= Len(s)
    OBVIOUS
  <1>1. l \in Seq(Heard) /\ Len(l) = a - m /\ \A i \in 1..a - m : l[i] = [at |-> m + i - 1, samples |-> s[m + i]]
    BY <1>0, PieceIs
  <1>2. r \in Seq(Heard) /\ Len(r) = b - a /\ \A i \in 1..b - a : r[i] = [at |-> a + i - 1, samples |-> s[a + i]]
    BY <1>0, PieceIs
  <1>3. w \in Seq(Heard) /\ Len(w) = b - m /\ \A i \in 1..b - m : w[i] = [at |-> m + i - 1, samples |-> s[m + i]]
    BY <1>0, PieceIs
  <1> HIDE DEF l, r, w
  <1>4. /\ l \o r \in Seq(Heard) /\ Len(l \o r) = b - m
        /\ \A i \in 1..b - m : (l \o r)[i] = IF i <= a - m THEN l[i] ELSE r[i - (a - m)]
    <2> DEFINE p == a - m
               q == b - a
    <2>1. p \in Nat /\ q \in Nat /\ p + q = b - m /\ Len(l) = p /\ Len(r) = q
      BY <1>1, <1>2
    <2> HIDE DEF p, q
    <2>2. /\ l \o r \in Seq(Heard) /\ Len(l \o r) = p + q
          /\ \A i \in 1..p + q : (l \o r)[i] = IF i <= p THEN l[i] ELSE r[i - p]
      <3>1. l \in Seq(Heard) /\ r \in Seq(Heard)
        BY <1>1, <1>2
      <3> QED
        BY <2>1, <3>1, ConcatProperties
    <2> QED
      BY <2>1, <2>2 DEF p
  <1>5. ASSUME NEW i \in 1..b - m PROVE (l \o r)[i] = w[i]
    <2>1. CASE i <= a - m
      <3>1. i \in 1..a - m
        BY <2>1
      <3> QED
        BY <1>1, <1>3, <1>4, <2>1, <3>1
    <2>2. CASE ~(i <= a - m)
      <3> DEFINE j == i - (a - m)
      <3>1. j \in 1..b - a /\ a + j = m + i /\ a + j - 1 = m + i - 1
        BY <2>2
      <3>2. (l \o r)[i] = r[j]
        BY <1>4, <2>2
      <3> HIDE DEF j
      <3>3. r[j] = [at |-> a + j - 1, samples |-> s[a + j]]
        BY <1>2, <3>1
      <3> QED
        BY <1>3, <3>1, <3>2, <3>3
    <2> QED
      BY <2>1, <2>2
  <1>6. l \o r = w
    BY <1>3, <1>4, <1>5, SeqEqual
  <1> QED
    BY <1>6 DEF l, r, w

(* The rest of a recording is a piece, and begins with the shorter ones.     *)
LEMMA PieceOfRest ==
  ASSUME NEW s \in Seq(Samples), NEW m \in Nat, NEW n \in Nat, m <= n, n <= Len(s)
  PROVE  LET all  == Numbered(s, 0)
             rest == SubSeq(all, m + 1, Len(all))
         IN /\ Len(all) = Len(s)
            /\ rest = Piece(s, m, Len(s))
            /\ IsPrefix(Piece(s, m, n), rest)
  <1> DEFINE all == Numbered(s, 0)
             rest == SubSeq(all, m + 1, Len(all))
             last == Piece(s, m, Len(s))
             piece == Piece(s, m, n)
  <1>0. Len(s) \in Nat /\ m <= Len(s) /\ n - m <= Len(s) - m /\ n - m \in Nat /\ Len(s) - m \in Nat
    OBVIOUS
  <1>1. all \in Seq(Heard) /\ Len(all) = Len(s) /\ \A i \in 1..Len(s) : all[i] = [at |-> 0 + i - 1, samples |-> s[i]]
    BY NumberedSamples
  <1>2. last \in Seq(Heard) /\ Len(last) = Len(s) - m
        /\ \A i \in 1..Len(s) - m : last[i] = [at |-> m + i - 1, samples |-> s[m + i]]
    <2>1. Len(s) \in Nat /\ m <= Len(s) /\ Len(s) <= Len(s)
      OBVIOUS
    <2> QED
      BY <2>1, PieceIs, Zenon
  <1>3. piece \in Seq(Heard) /\ Len(piece) = n - m
        /\ \A i \in 1..n - m : piece[i] = [at |-> m + i - 1, samples |-> s[m + i]]
    BY PieceIs
  <1> HIDE DEF all, last, piece
  <1>4. rest \in Seq(Heard) /\ Len(rest) = Len(s) - m /\ \A i \in 1..Len(s) - m : rest[i] = all[m + i]
    <2>1. ASSUME NEW t \in Seq(Heard), Len(t) = Len(s)
          PROVE  /\ SubSeq(t, m + 1, Len(t)) \in Seq(Heard)
                 /\ Len(SubSeq(t, m + 1, Len(t))) = Len(s) - m
                 /\ \A i \in 1..Len(s) - m : SubSeq(t, m + 1, Len(t))[i] = t[m + i]
      BY <1>0, <2>1
    <2> QED
      BY <1>1, <2>1
  <1> HIDE DEF rest
  <1>5. ASSUME NEW i \in 1..Len(s) - m PROVE rest[i] = last[i]
    <2>1. m + i \in 1..Len(s) /\ 0 + (m + i) - 1 = m + i - 1
      BY <1>0
    <2> QED
      BY <1>1, <1>2, <1>4, <2>1
  <1>6. rest = last
    BY <1>2, <1>4, <1>5, SeqEqual
  <1>7. \A i \in 1..n - m : i \in 1..Len(s) - m
    BY <1>0
  <1>8. ASSUME NEW t \in Seq(Heard), NEW u \in Seq(Heard), Len(t) <= Len(u),
               \A i \in 1..Len(t) : t[i] = u[i]
        PROVE  IsPrefix(t, u)
    <2>1. /\ SubSeq(u, 1, Len(t)) \in Seq(Heard) /\ Len(SubSeq(u, 1, Len(t))) = Len(t)
          /\ \A i \in 1..Len(t) : SubSeq(u, 1, Len(t))[i] = u[i]
      BY <1>8
    <2>2. SubSeq(u, 1, Len(t)) = t
      BY <1>8, <2>1, SeqEqual
    <2>3. SubSeq(t, 1, Len(t)) = t
      OBVIOUS
    <2> QED
      BY <1>8, <2>2, <2>3 DEF IsPrefix
  <1>9. IsPrefix(piece, last)
    BY <1>0, <1>2, <1>3, <1>7, <1>8
  <1> QED
    BY <1>1, <1>6, <1>9 DEF all, rest, last, piece

(* What is read of a file is the part that follows what has been read.       *)
LEMMA ReadPart ==
  ASSUME NEW d \in [Names -> File], NEW device \in Device, device.at <= Len(d[device.name].samples),
         device.mode = "Read", ~device.failed
  PROVE  LET all == d[device.name].samples IN
         \E to \in Nat :
           /\ device.at <= to /\ to <= Len(all)
           /\ ReadBy(d, device, ReadLength) = SubSeq(all, device.at + 1, to)
           /\ Len(ReadBy(d, device, ReadLength)) = to - device.at
           /\ to - device.at < ReadLength => to = Len(all)
  <1> DEFINE all == d[device.name].samples
             to == IF device.at + ReadLength < Len(all) THEN device.at + ReadLength ELSE Len(all)
  <1>1. device.at \in Nat /\ all \in Seq(Samples) /\ Len(all) \in Nat /\ ReadLength \in Nat /\ ReadLength >= 1
    BY DEF Device, File
  <1>2. to \in Nat /\ device.at <= to /\ to <= Len(all) /\ (to - device.at < ReadLength => to = Len(all))
    BY <1>1
  <1>3. ReadBy(d, device, ReadLength) = SubSeq(all, device.at + 1, to)
    BY DEF ReadBy
  <1> HIDE DEF all, to
  <1>4. Len(SubSeq(all, device.at + 1, to)) = to - device.at
    <2>1. device.at + 1 \in 1..Len(all) + 1 /\ to \in 0..Len(all) /\ to \in device.at..Len(all)
      BY <1>1, <1>2
    <2>2. ASSUME NEW s \in Seq(Samples), NEW a \in Nat, NEW b \in Nat, a <= b, b <= Len(s)
          PROVE  Len(SubSeq(s, a + 1, b)) = b - a
      BY <2>2
    <2> QED
      BY <1>1, <1>2, <2>2
  <1> QED
    BY <1>2, <1>3, <1>4 DEF all

LEMMA ReadTyped ==
  ASSUME NEW d \in [Names -> File], NEW device \in Device
  PROVE  ReadBy(d, device, ReadLength) \in Seq(Samples)
  <1> DEFINE all == d[device.name].samples
             to == IF device.at + ReadLength < Len(all) THEN device.at + ReadLength ELSE Len(all)
  <1>1. device.at \in Nat /\ all \in Seq(Samples) /\ Len(all) \in Nat /\ ReadLength \in Nat
    BY DEF Device, File
  <1>2. to \in Nat /\ to <= Len(all)
    BY <1>1
  <1>3. CASE device.mode = "Write" \/ device.failed
    BY <1>3 DEF ReadBy
  <1>4. CASE ~(device.mode = "Write" \/ device.failed)
    <2>1. ReadBy(d, device, ReadLength) = SubSeq(all, device.at + 1, to)
      BY <1>4 DEF ReadBy
    <2> HIDE DEF all, to
    <2>2. ASSUME NEW s \in Seq(Samples), NEW a \in Nat, NEW b \in Nat, b <= Len(s)
          PROVE  SubSeq(s, a + 1, b) \in Seq(Samples)
      BY <2>2
    <2> QED
      BY <1>1, <1>2, <2>1, <2>2
  <1> QED
    BY <1>3, <1>4

(* A decoder that hears something                                            *)
LEMMA Hears ==
  ASSUME NEW d \in Decoder, NEW heard \in Seq(Heard), NEW end \in BOOLEAN
  PROVE  /\ Hear(d, heard, end) \in Decoder
         /\ Hear(d, heard, end).replay = d.replay /\ Hear(d, heard, end).wanted = d.wanted
         /\ d.status # "decoding" => Hear(d, heard, end) = d
         /\ d.status = "decoding" => /\ Hear(d, heard, end).heard = d.heard \o heard
                                     /\ Hear(d, heard, end).status = IF end THEN "idle" ELSE "decoding"
  <1>1. CASE d.status # "decoding"
    BY <1>1 DEF Hear
  <1>2. CASE d.status = "decoding"
    <2> DEFINE told == [d EXCEPT !.heard = d.heard \o heard]
               next == [told EXCEPT !.status = IF end THEN "idle" ELSE told.status]
    <2>1. d.heard \o heard \in Seq(Heard)
      BY DEF Decoder
    <2>2. /\ told \in Decoder /\ told.heard = d.heard \o heard /\ told.status = "decoding"
          /\ told.replay = d.replay /\ told.wanted = d.wanted
      BY <1>2, <2>1 DEF Decoder
    <2>3. Hear(d, heard, end) = next
      BY <1>2, <2>2 DEF Hear
    <2> HIDE DEF told
    <2>4. /\ next \in Decoder /\ next.heard = told.heard /\ next.status = IF end THEN "idle" ELSE "decoding"
          /\ next.replay = told.replay /\ next.wanted = told.wanted
      BY <2>2 DEF Decoder
    <2> HIDE DEF next
    <2> QED
      BY <1>2, <2>2, <2>3, <2>4
  <1> QED
    BY <1>1, <1>2 DEF Decoder

(* What a publisher does to the decoder of its kind                          *)
LEMMA DecoderTold ==
  ASSUME DecodersTyped, BuffersTyped, NEW k \in Kinds, NEW buffer \in Buffer, Publish(k, buffer)
  PROVE  /\ DecodersTyped' /\ \A j \in Kinds \ {k} : decoder'[j] = decoder[j]
         /\ decoder'[k].replay = decoder[k].replay /\ decoder'[k].wanted = decoder[k].wanted
         /\ decoder[k].status # "decoding" => /\ decoder'[k].status = decoder[k].status
                                              /\ decoder'[k].heard = decoder[k].heard
  <1>1. decoder \in [Kinds -> Decoder] /\ decoder[k] \in Decoder
    BY DEF DecodersTyped
  <1>2. CASE IsValid(buffer)
    <2> DEFINE next == Hear(decoder[k], Numbered(<<buffer.samples>>, buffer.samples.offset), FALSE)
    <2>1. buffer.samples \in Samples /\ buffer.samples.offset \in Nat
      BY DEF Buffer, Samples
    <2>2. <<buffer.samples>> \in Seq(Samples)
      BY <2>1
    <2>3. Numbered(<<buffer.samples>>, buffer.samples.offset) \in Seq(Heard)
      BY <2>1, <2>2, NumberedSamples
    <2>4. /\ next \in Decoder /\ next.replay = decoder[k].replay /\ next.wanted = decoder[k].wanted
          /\ decoder[k].status # "decoding" => next = decoder[k]
      BY <1>1, <2>3, Hears
    <2>5. decoder' = [decoder EXCEPT ![k] = next]
      BY <1>2 DEF Publish
    <2> HIDE DEF next
    <2> QED
      BY <1>1, <2>4, <2>5 DEF DecodersTyped
  <1>3. CASE ~IsValid(buffer)
    <2> DEFINE told == Hear(decoder[k], <<>>, TRUE)
               next == [told EXCEPT !.cut = @ \/ decoder[k].status = "decoding"]
    <2>1. /\ told \in Decoder /\ told.replay = decoder[k].replay /\ told.wanted = decoder[k].wanted
          /\ decoder[k].status # "decoding" => told = decoder[k]
      <3>1. <<>> \in Seq(Heard)
        OBVIOUS
      <3> QED
        BY <1>1, <3>1, Hears
    <2>2. decoder' = [decoder EXCEPT ![k] = next]
      BY <1>3 DEF Publish
    <2> HIDE DEF told
    <2>3. /\ next \in Decoder /\ next.replay = told.replay /\ next.wanted = told.wanted
          /\ next.status = told.status /\ next.heard = told.heard
      BY <2>1 DEF Decoder
    <2> HIDE DEF next
    <2> QED
      BY <1>1, <2>1, <2>2, <2>3 DEF DecodersTyped
  <1> QED
    BY <1>2, <1>3

(* A replayed part of a file comes to the decoder of its kind.               *)
LEMMA DecoderReplayed ==
  ASSUME DecodersTyped, Files, NEW k \in Kinds, Replay(k)
  PROVE  /\ DecodersTyped' /\ \A j \in Kinds \ {k} : decoder'[j] = decoder[j]
         /\ decoder'[k].replay = decoder[k].replay /\ decoder'[k].wanted = decoder[k].wanted
         /\ ~IsSet(k) => decoder' = decoder
         /\ decoder[k].status # "decoding" => /\ decoder'[k].status = decoder[k].status
                                              /\ decoder'[k].heard = decoder[k].heard
         /\ IsSet(k) /\ decoder[k].status = "decoding" =>
              /\ decoder'[k].heard = decoder[k].heard \o Numbered(Replayed(k), Of(k).at)
              /\ decoder'[k].status = IF storage'[k] = <<>> THEN "idle" ELSE "decoding"
  <1>1. decoder \in [Kinds -> Decoder] /\ decoder[k] \in Decoder
    BY DEF DecodersTyped
  <1>2. CASE IsSet(k)
    <2> DEFINE heard == Numbered(Replayed(k), Of(k).at)
               next == Hear(decoder[k], heard, storage'[k] = <<>>)
    <2>1. Of(k) \in Device /\ disk \in [Names -> File] /\ Of(k).at \in Nat
      BY <1>2 DEF Files, FilesOK, IsSet, Of, Device
    <2>2. heard \in Seq(Heard)
      BY <2>1, ReadTyped, NumberedSamples DEF Replayed
    <2>3. decoder' = [decoder EXCEPT ![k] = next]
      BY <1>2 DEF Replay
    <2>4. (storage'[k] = <<>>) \in BOOLEAN
      OBVIOUS
    <2> HIDE DEF heard
    <2>5. /\ next \in Decoder
          /\ next.replay = decoder[k].replay /\ next.wanted = decoder[k].wanted
          /\ decoder[k].status # "decoding" => next = decoder[k]
          /\ decoder[k].status = "decoding" => /\ next.heard = decoder[k].heard \o heard
                                               /\ next.status = IF storage'[k] = <<>> THEN "idle" ELSE "decoding"
      BY <1>1, <2>2, <2>4, Hears
    <2> HIDE DEF next
    <2>6. decoder'[k] = next /\ decoder' \in [Kinds -> Decoder] /\ \A j \in Kinds \ {k} : decoder'[j] = decoder[j]
      BY <1>1, <2>3, <2>5
    <2> QED
      BY <1>2, <2>5, <2>6 DEF DecodersTyped, heard
  <1>3. CASE ~IsSet(k)
    <2>1. decoder' = decoder
      BY <1>3 DEF Replay
    <2> QED
      BY <1>1, <1>3, <2>1 DEF DecodersTyped
  <1> QED
    BY <1>2, <1>3

(* A decoder that is started                                                 *)
LEMMA DecoderStarted ==
  ASSUME DecodersTyped, Files, CommandsTyped, NEW k \in Kinds, StartDecoding(k)
  PROVE  LET then == Head(decoderCommands[k]) IN
         /\ DecodersTyped' /\ \A j \in Kinds \ {k} : decoder'[j] = decoder[j]
         /\ decoder'[k].status = "starting" /\ decoder'[k].heard = <<>>
         /\ decoder'[k].replay <=> then.then = "read"
         /\ then.then = "read" => then.name \in Names /\ decoder'[k].wanted = disk[then.name].samples
  <1> DEFINE then == Head(decoderCommands[k])
             wanted == IF then.then = "read" THEN disk[then.name].samples ELSE <<>>
             next == [status |-> "starting", replay |-> then.then = "read", cut |-> FALSE,
                      wanted |-> wanted, heard |-> <<>>]
  <1>1. decoder \in [Kinds -> Decoder] /\ disk \in [Names -> File]
    BY DEF DecodersTyped, Files, FilesOK
  <1>2. then \in Then
    BY HeadTailProperties DEF StartDecoding, CommandsTyped
  <1>3. decoder' = [decoder EXCEPT ![k] = next]
    BY DEF StartDecoding
  <1> HIDE DEF then
  <1>4. then.then = "read" => then.name \in Names
    BY <1>2 DEF Then
  <1>5. wanted \in Seq(Samples) /\ <<>> \in Seq(Heard)
    BY <1>1, <1>4 DEF File
  <1>6. next \in Decoder /\ next.status = "starting" /\ next.heard = <<>> /\ (next.replay <=> then.then = "read")
        /\ next.wanted = wanted
    <2> HIDE DEF wanted
    <2> QED
      BY <1>5 DEF Decoder
  <1> HIDE DEF next
  <1>7. decoder'[k] = next /\ decoder' \in [Kinds -> Decoder] /\ \A j \in Kinds \ {k} : decoder'[j] = decoder[j]
    BY <1>1, <1>3, <1>6
  <1> QED
    BY <1>4, <1>6, <1>7 DEF DecodersTyped, then

(* A decoder that is Streaming from now on                                   *)
LEMMA DecoderBegins ==
  ASSUME DecodersTyped, NEW k \in Kinds, DecoderStreaming(k)
  PROVE  /\ DecodersTyped' /\ \A j \in Kinds \ {k} : decoder'[j] = decoder[j]
         /\ decoder[k].status = "starting" /\ decoder'[k].status = "decoding"
         /\ decoder'[k].replay = decoder[k].replay /\ decoder'[k].wanted = decoder[k].wanted
         /\ decoder'[k].heard = decoder[k].heard
  <1> DEFINE next == [decoder[k] EXCEPT !.status = "decoding"]
  <1>1. decoder \in [Kinds -> Decoder] /\ decoder[k] \in Decoder
    BY DEF DecodersTyped
  <1>2. /\ next \in Decoder /\ next.status = "decoding" /\ next.replay = decoder[k].replay
        /\ next.wanted = decoder[k].wanted /\ next.heard = decoder[k].heard
    BY <1>1 DEF Decoder
  <1>3. decoder' = [decoder EXCEPT ![k] = next] /\ decoder[k].status = "starting"
    BY DEF DecoderStreaming
  <1> HIDE DEF next
  <1> QED
    BY <1>1, <1>2, <1>3 DEF DecodersTyped

(* Nobody else touches a decoder.                                            *)
LEMMA DecodersStay ==
  ASSUME BuffersTyped, [Next]_vars,
         \A k \in Kinds : ~Replay(k) /\ ~DecoderThread(k),
         \A k \in Kinds, buffer \in Buffer : ~Publish(k, buffer)
  PROVE  UNCHANGED decoder
  <1>1. \A k \in Kinds : Data(receiver[k].stream, receiver[k].next) \in Buffer
    BY DEF BuffersTyped, Receiver, Data, Buffer, Samples
  <1>2. EndOfStream("flush") \in Buffer /\ EndOfStream("detach") \in Buffer
    BY DEF EndOfStream, NoSamples, Buffer, Samples
  <1>3. \A k \in Kinds : ~PublishSamples(k) /\ ~PublishEnd(k) /\ ~Unplug(k)
    BY <1>1, <1>2 DEF PublishSamples, PublishEnd, Unplug
  <1> QED
    BY <1>3 DEF Next, vars, partnerVars, RecorderThread, ResolveWrite, TraceCleared, User, Start, Stop, Open,
                ControlOnly, Environment, Tick, Plug, ReceiverThread, StartStream, StopStream, Offer, Add

LEMMA DecodersAreTyped == Spec => []DecodersTyped
  <1>1. Init => DecodersTyped
    <2> SUFFICES ASSUME Init PROVE DecodersTyped
      OBVIOUS
    <2>1. decoder = [k \in Kinds |-> [status |-> "idle", replay |-> FALSE,
                                      cut |-> FALSE, wanted |-> <<>>, heard |-> <<>>]]
      BY DEF Init
    <2>2. <<>> \in Seq(Samples) /\ <<>> \in Seq(Heard)
      OBVIOUS
    <2> QED
      BY <2>1, <2>2 DEF DecodersTyped, Decoder
  <1>2. ASSUME DecodersTyped, BuffersTyped, CommandsTyped, Files, [Next]_vars PROVE DecodersTyped'
    <2>1. CASE UNCHANGED decoder
      BY <1>2, <2>1 DEF DecodersTyped
    <2> QED
      BY <1>2, <2>1, DecodersStay, DecoderTold, DecoderReplayed, DecoderStarted, DecoderBegins DEF DecoderThread
  <1> QED
    <2>1. DecodersTyped /\ BuffersTyped /\ CommandsTyped /\ Files /\ [Next]_vars => DecodersTyped'
      BY <1>2
    <2> QED
      BY <1>1, <2>1, BuffersAreTyped, CommandsAreTyped, FilesAreOK, PTL DEF Spec

(* Which files queues ask for                                                *)
LEMMA AskedFor ==
  /\ ~AsksToRead(<<>>) /\ ~ToRead(<<>>)
  /\ \A e : (AsksToRead(<<e>>) <=> e.then = "read") /\ (ToRead(<<e>>) <=> e.code = "Read")
  /\ \A q \in Seq(Command) :
       /\ q # <<>> => (ToRead(Tail(q)) => ToRead(q)) /\ (Head(q).code = "Read" => ToRead(q))
       /\ \A e : ToRead(Append(q, e)) => ToRead(q) \/ e.code = "Read"
  /\ \A q \in Seq(Then) :
       /\ q # <<>> => (AsksToRead(Tail(q)) => AsksToRead(q)) /\ (Head(q).then = "read" => AsksToRead(q))
       /\ \A e : AsksToRead(Append(q, e)) => AsksToRead(q) \/ e.then = "read"
  <1>1. ASSUME NEW S, NEW q \in Seq(S)
        PROVE  /\ Len(q) \in Nat
               /\ q # <<>> => /\ 1 \in 1..Len(q) /\ Head(q) = q[1]
                              /\ \A i \in 1..Len(Tail(q)) : Tail(q)[i] = q[i + 1] /\ i + 1 \in 1..Len(q)
    <2>1. q # <<>> => Len(q) >= 1 /\ Len(Tail(q)) = Len(q) - 1
      OBVIOUS
    <2> QED
      BY <2>1
  <1>2. ASSUME NEW S, NEW q \in Seq(S), NEW e, NEW i \in 1..Len(Append(q, e))
        PROVE  (i \in 1..Len(q) /\ Append(q, e)[i] = q[i]) \/ Append(q, e)[i] = e
    <2>1. Len(q) \in Nat /\ Len(Append(q, e)) = Len(q) + 1
      OBVIOUS
    <2>2. CASE i = Len(q) + 1
      BY <2>1, <2>2
    <2>3. CASE i \in 1..Len(q)
      BY <2>1, <2>3
    <2> QED
      BY <2>1, <2>2, <2>3
  <1>3. ASSUME NEW q \in Seq(Command)
        PROVE  /\ q # <<>> => (ToRead(Tail(q)) => ToRead(q)) /\ (Head(q).code = "Read" => ToRead(q))
               /\ \A e : ToRead(Append(q, e)) => ToRead(q) \/ e.code = "Read"
    <2>1. q # <<>> => (ToRead(Tail(q)) => ToRead(q)) /\ (Head(q).code = "Read" => ToRead(q))
      BY <1>1 DEF ToRead
    <2>2. ASSUME NEW e, ToRead(Append(q, e)) PROVE ToRead(q) \/ e.code = "Read"
      BY <1>2, <2>2 DEF ToRead
    <2> QED
      BY <2>1, <2>2
  <1>4. ASSUME NEW q \in Seq(Then)
        PROVE  /\ q # <<>> => (AsksToRead(Tail(q)) => AsksToRead(q)) /\ (Head(q).then = "read" => AsksToRead(q))
               /\ \A e : AsksToRead(Append(q, e)) => AsksToRead(q) \/ e.then = "read"
    <2>1. q # <<>> => (AsksToRead(Tail(q)) => AsksToRead(q)) /\ (Head(q).then = "read" => AsksToRead(q))
      BY <1>1 DEF AsksToRead
    <2>2. ASSUME NEW e, AsksToRead(Append(q, e)) PROVE AsksToRead(q) \/ e.then = "read"
      BY <1>2, <2>2 DEF AsksToRead
    <2> QED
      BY <2>1, <2>2
  <1>5. \A e : Len(<<e>>) = 1 /\ <<e>>[1] = e
    OBVIOUS
  <1>6. \A e : (AsksToRead(<<e>>) <=> e.then = "read") /\ (ToRead(<<e>>) <=> e.code = "Read")
    BY <1>5 DEF AsksToRead, ToRead
  <1>7. ~AsksToRead(<<>>) /\ ~ToRead(<<>>)
    BY DEF AsksToRead, ToRead
  <1> QED
    BY <1>3, <1>4, <1>6, <1>7

(* An open device either reads or writes.                                    *)
LEMMA OpenModes ==
  ASSUME Files, NEW k \in Kinds
  PROVE  storage[k] = <<>> \/ ReadOpen(k) \/ WriteOpen(k)
  BY DEF Files, FilesOK, Device, ReadOpen, WriteOpen, Of

(* A decoder that becomes Streaming leaves it silent. *)
LEMMA SilentBegins ==
  ASSUME DecodersTyped, Silent, NEW k \in Kinds, DecoderStreaming(k)
  PROVE  Silent'
  <1>1. UNCHANGED <<clears, recorderCommands, rpc, decoderCommands, storage>>
    BY DEF DecoderStreaming, recorderVars, controlVars
  <1>2. ASSUME NEW j \in Kinds PROVE ~Replays(j)'
    BY DecoderBegins DEF Silent, Replays
  <1> QED
    BY <1>1, <1>2 DEF Silent, ReadOpen, Of

(* As long as nobody opens a file none is read.                              *)
LEMMA SilentStep ==
  ASSUME MaxUnplugs = 0, CommandsTyped, BuffersTyped, Files, DecodersTyped, Streams, Lines, Silent,
         [Next]_vars, \A name \in Names : ~Open(name)
  PROVE  Silent'
  <1>0. /\ storage \in [Kinds -> {<<>>} \cup {<<device>> : device \in Device}]
        /\ recorderCommands \in Seq(Command) /\ clears \in Seq(Then)
        /\ decoderCommands \in [Kinds -> Seq(Then)]
    BY DEF Files, FilesOK, CommandsTyped
  <1>1. ASSUME UNCHANGED <<clears, decoder>>, ~ToRead(recorderCommands'), rpc' # "reading",
               \A k \in Kinds : ~AsksToRead(decoderCommands'[k]) /\ ~ReadOpen(k)'
        PROVE  Silent'
    BY <1>1 DEF Silent, Replays
  <1>2. ASSUME UNCHANGED <<decoderCommands, storage>>
        PROVE  \A k \in Kinds : ~AsksToRead(decoderCommands'[k]) /\ ~ReadOpen(k)'
    BY <1>2 DEF Silent, ReadOpen, Of
  <1>3. StartDecoders => \A k \in Kinds : ~AsksToRead(decoderCommands'[k])
    <2> SUFFICES ASSUME StartDecoders, NEW k \in Kinds PROVE ~AsksToRead(decoderCommands'[k])
      OBVIOUS
    <2>1. decoderCommands'[k] \in {decoderCommands[k], Append(decoderCommands[k], [then |-> "start"])}
      BY DEF StartDecoders
    <2>2. decoderCommands[k] \in Seq(Then) /\ ~AsksToRead(decoderCommands[k])
      BY <1>0 DEF Silent
    <2>3. ~AsksToRead(Append(decoderCommands[k], [then |-> "start"]))
      BY <2>2, AskedFor
    <2> QED
      BY <2>1, <2>2, <2>3
  <1>4. CASE RecorderThread
    <2>0. UNCHANGED clears
      BY <1>4 DEF RecorderThread, ResolveWrite, Replay, controlVars
    <2>1. CASE ResolveWrite
      <3>1. /\ UNCHANGED <<decoder, storage>> /\ rpc' = "writing" /\ StartDecoders
            /\ recorderCommands # <<>> /\ recorderCommands' = Tail(recorderCommands)
        BY <2>1 DEF ResolveWrite, WriteStorage, Handling
      <3>2. ~ToRead(recorderCommands')
        BY <1>0, <3>1, AskedFor DEF Silent
      <3>3. \A k \in Kinds : ~ReadOpen(k)'
        BY <3>1 DEF Silent, ReadOpen, Of
      <3> QED
        BY <1>1, <1>3, <2>0, <3>1, <3>2, <3>3
    <2>2. ASSUME ReadStorage PROVE FALSE
      BY <1>0, <2>2, AskedFor DEF ReadStorage, Handling, Silent
    <2>3. CASE (CommandDone \/ NoCommand \/ ReadFinished) /\ UNCHANGED <<partnerVars, controlVars>>
      <3>1. /\ UNCHANGED <<recorderCommands, storage, decoder, decoderCommands>>
            /\ rpc' # "reading"
        BY <2>3 DEF CommandDone, NoCommand, ReadFinished, partnerVars
      <3> QED
        BY <1>1, <1>2, <2>0, <3>1 DEF Silent
    <2>4. CASE CloseStorage /\ UNCHANGED <<partnerVars, controlVars>>
      <3>1. /\ UNCHANGED <<decoder, decoderCommands>> /\ rpc' = "command"
            /\ recorderCommands # <<>> /\ recorderCommands' = Tail(recorderCommands)
            /\ \A k \in Kinds : storage'[k] = <<>>
        BY <2>4 DEF CloseStorage, Handling, Emptied, partnerVars
      <3>2. ~ToRead(recorderCommands')
        BY <1>0, <3>1, AskedFor DEF Silent
      <3> QED
        BY <1>1, <2>0, <3>1, <3>2 DEF Silent, ReadOpen
    <2>5. ASSUME NEW k \in Kinds, Replay(k) PROVE Silent'
      <3>1. /\ status = "Reading" /\ UNCHANGED <<recorderCommands, decoderCommands>>
            /\ rpc' \in {"radio", "check"}
        BY <2>5 DEF Replay, ReadOne
      <3>2. ~IsSet(k)
        BY <3>1, OpenModes DEF Lines, InLine, Silent, IsSet
      <3>3. UNCHANGED <<storage, decoder>>
        BY <2>5, <3>2 DEF Replay, ReadOne
      <3> QED
        BY <1>1, <1>2, <2>0, <3>1, <3>3 DEF Silent
    <2>6. ASSUME NEW k \in Kinds, WriteOne(k), UNCHANGED <<partnerVars, controlVars>> PROVE Silent'
      <3>1. /\ UNCHANGED <<recorderCommands, decoderCommands, decoder>> /\ rpc' \in {"radio", "command"}
        BY <2>6 DEF WriteOne, NothingToWrite, WriteSamples, FinishFile, FinishNameless, Writing, partnerVars
      <3> DEFINE device == IF IsSet(k) THEN Of(k) ELSE Opened(FileName(k), "Write")
                 next == AfterWrite(device)
      <3>3. next.mode = "Write"
        <4>1. device.mode = "Write"
          BY OpenModes DEF Silent, IsSet, WriteOpen, Opened
        <4>2. next.mode = device.mode
          <5>1. device \in Device
            BY DEF Opened, Device, FileName, Names, Files, FilesOK, IsSet, Of
          <5> HIDE DEF device
          <5> QED
            BY <5>1 DEF AfterWrite, Device
        <4> QED
          BY <4>1, <4>2
      <3>2. \/ storage' = storage \/ storage' = [storage EXCEPT ![k] = <<>>]
            \/ storage' = [storage EXCEPT ![k] = <<next>>]
        <4> HIDE DEF AfterWrite
        <4> QED
          BY <2>6 DEF WriteOne, NothingToWrite, WriteSamples, FinishFile, FinishNameless
      <3> HIDE DEF device, next
      <3>4. ASSUME NEW j \in Kinds PROVE ~ReadOpen(j)'
        <4>1. storage'[j] = storage[j] \/ storage'[j] = <<>> \/ storage'[j] = <<next>>
          BY <1>0, <3>2
        <4> QED
          BY <3>3, <4>1 DEF Silent, ReadOpen, Of
      <3> QED
        BY <1>1, <2>0, <3>1, <3>4 DEF Silent
    <2> QED
      BY <1>4, <2>1, <2>2, <2>3, <2>4, <2>5, <2>6 DEF RecorderThread
  <1>5. CASE TraceCleared
    <2>1. /\ UNCHANGED <<rpc, storage, decoder>> /\ clears # <<>> /\ clears' = Tail(clears)
      BY <1>5 DEF TraceCleared
    <2>2. Head(clears).then # "read" /\ ~AsksToRead(clears')
      BY <1>0, <2>1, AskedFor DEF Silent
    <2>3. ~ToRead(recorderCommands')
      <3>1. recorderCommands' = recorderCommands \/ recorderCommands' = Append(recorderCommands, [code |-> "Write"])
        BY <1>5 DEF TraceCleared
      <3>2. ~ToRead(recorderCommands)
        BY DEF Silent
      <3>3. ~ToRead(Append(recorderCommands, [code |-> "Write"]))
        BY <1>0, <3>2, AskedFor
      <3> QED
        BY <3>1, <3>2, <3>3
    <2>4. \A k \in Kinds : ~AsksToRead(decoderCommands'[k])
      BY <1>3, <1>5, <2>2 DEF TraceCleared, Silent
    <2> QED
      BY <2>1, <2>2, <2>3, <2>4 DEF Silent, ReadOpen, Of, Replays
  <1>6. CASE User
    <2>1. UNCHANGED <<rpc, storage, decoder, decoderCommands>>
      BY <1>6 DEF User, Start, Stop, Open, ControlOnly
    <2>2. ~AsksToRead(clears')
      <3>1. clears' = clears \/ \E then \in {"write", "start"} : clears' = Append(clears, [then |-> then])
        BY <1>6 DEF User, Start, Stop
      <3>2. ~AsksToRead(clears)
        BY DEF Silent
      <3>3. ASSUME NEW then \in {"write", "start"} PROVE ~AsksToRead(Append(clears, [then |-> then]))
        BY <1>0, <3>2, AskedFor
      <3> QED
        BY <3>1, <3>2, <3>3
    <2>3. ~ToRead(recorderCommands')
      <3>1. recorderCommands' = recorderCommands \/ recorderCommands' = Append(recorderCommands, [code |-> "Stop"])
        BY <1>6 DEF User, Start, Stop
      <3>2. ~ToRead(recorderCommands)
        BY DEF Silent
      <3>3. ~ToRead(Append(recorderCommands, [code |-> "Stop"]))
        BY <1>0, <3>2, AskedFor
      <3> QED
        BY <3>1, <3>2, <3>3
    <2> QED
      BY <2>1, <2>2, <2>3 DEF Silent, ReadOpen, Of, Replays
  <1>7. ASSUME NEW k \in Kinds, ReceiverThread(k) PROVE Silent'
    <2>1. UNCHANGED <<rpc, storage, decoderCommands, recorderCommands, clears>>
      BY <1>7, ReceiverMoves DEF controlVars
    <2>2. CASE UNCHANGED decoder
      BY <1>1, <1>2, <2>1, <2>2 DEF Silent
    <2>3. ASSUME NEW buffer \in Buffer, NEW i \in Kinds, Publish(i, buffer) PROVE Silent'
      <3>1. \A j \in Kinds : ~Replays(j)'
        <4>1. /\ \A j \in Kinds \ {i} : decoder'[j] = decoder[j]
              /\ decoder'[i].replay = decoder[i].replay
              /\ decoder[i].status = "idle" => decoder'[i].status = "idle"
          BY <2>3, DecoderTold
        <4> QED
          BY <4>1 DEF Silent, Replays
      <3> QED
        BY <2>1, <3>1 DEF Silent, ReadOpen, Of
    <2>4. CASE \A i \in Kinds, buffer \in Buffer : ~Publish(i, buffer)
      <3> SUFFICES ASSUME \A j \in Kinds : ~DecoderStreaming(j) PROVE Silent'
        BY SilentBegins
      <3>1. \A j \in Kinds : ~Replay(j) /\ ~DecoderThread(j)
        <4>1. UNCHANGED <<rpc, decoderCommands>>
          BY <2>1
        <4>2. ASSUME NEW j \in Kinds, Replay(j) PROVE FALSE
          BY <4>1, <4>2 DEF Replay, ReadOne, Kinds
        <4>3. ASSUME NEW j \in Kinds, StartDecoding(j) PROVE FALSE
          <5>1. decoderCommands[j] # <<>> /\ decoderCommands[j] \in Seq(Then)
            BY <1>0, <4>3 DEF StartDecoding
          <5>2. decoderCommands'[j] = Tail(decoderCommands[j])
            BY <1>0, <4>3 DEF StartDecoding
          <5>3. Tail(decoderCommands[j]) # decoderCommands[j]
            <6>1. Len(Tail(decoderCommands[j])) # Len(decoderCommands[j])
              BY <5>1
            <6> QED
              BY <6>1
          <5> QED
            BY <4>1, <5>2, <5>3
        <4> QED
          BY <4>2, <4>3 DEF DecoderThread
      <3> QED
        BY <2>2, <2>4, <3>1, DecodersStay
    <2> QED
      BY <2>3, <2>4
  <1>8. ASSUME NEW k \in Kinds, StartDecoding(k) PROVE Silent'
    <2>1. /\ UNCHANGED <<rpc, storage, clears>> /\ decoderCommands[k] # <<>>
          /\ decoderCommands' = [decoderCommands EXCEPT ![k] = Tail(decoderCommands[k])]
      BY <1>8 DEF StartDecoding, controlVars
    <2>2. /\ Head(decoderCommands[k]).then # "read" /\ ~AsksToRead(Tail(decoderCommands[k]))
      BY <1>0, <2>1, AskedFor DEF Silent
    <2>3. UNCHANGED recorderCommands
      BY <1>8, <2>2 DEF StartDecoding
    <2>4. \A j \in Kinds : ~AsksToRead(decoderCommands'[j])
      BY <1>0, <2>1, <2>2 DEF Silent
    <2>5. \A j \in Kinds : ~Replays(j)'
      BY <1>8, <2>2, DecoderStarted DEF Silent, Replays
    <2> QED
      BY <2>1, <2>3, <2>4, <2>5 DEF Silent, ReadOpen, Of
  <1>9. CASE Tick \/ UNCHANGED vars
    BY <1>9 DEF Tick, vars, recorderVars, partnerVars, controlVars, Silent, ReadOpen, Of, Replays
  <1>10. ASSUME NEW k \in Kinds, Unplug(k) \/ Plug(k) PROVE FALSE
    BY <1>10 DEF Unplug, Plug, Streams
  <1> QED
    BY <1>4, <1>5, <1>6, <1>7, <1>8, <1>9, <1>10, SilentBegins DEF Next, Environment, DecoderThread

(* When a file is asked for nothing else goes on.                            *)
LEMMA OpenAsks ==
  ASSUME Streams, Acquisition, Files, Lines, Silent, NEW name \in Names, Open(name)
  PROVE  Resting' /\ Asked(name)'
  <1>1. /\ ~Busy /\ ~Underway
        /\ clears' = Append(clears, [then |-> "read", name |-> name])
        /\ UNCHANGED <<rpc, status, storage, decoder, receiver, receiverCommands,
                       recorderCommands, decoderCommands>>
    BY DEF Open, ControlOnly
  <1>2. ~Recorded
    BY <1>1, NobodyRecords
  <1>3. /\ clears = <<>> /\ recorderCommands = <<>> /\ rpc # "reading"
        /\ \A k \in Kinds : receiverCommands[k] = <<>> /\ decoderCommands[k] = <<>>
    BY <1>1 DEF Underway
  <1>4. \A k \in Kinds : ~Running(k)
    BY <1>1 DEF Busy, Underway, Running
  <1>5. \A k \in Kinds : storage[k] = <<>>
    BY <1>2, OpenModes DEF Recorded, Lines, InLine, Silent
  <1>6. clears' = <<[then |-> "read", name |-> name]>>
    <2>1. \A e : Append(<<>>, e) = <<e>>
      OBVIOUS
    <2> QED
      BY <1>1, <1>3, <2>1
  <1>7. ~Clearing(clears')
    BY <1>6, Queued
  <1>8. Resting'
    BY <1>1, <1>2, <1>3, <1>4, <1>7 DEF Resting, Recorded, Running
  <1>9. Asked(name)'
    BY <1>1, <1>3, <1>5, <1>6 DEF Asked, Unread, Silent, Replays
  <1> QED
    BY <1>8, <1>9

(* What does not touch the replay                                            *)
LEMMA FileFrame ==
  ASSUME Resting, NEW name \in Names, Under(name),
         UNCHANGED <<clears, recorderCommands, decoder, decoderCommands, storage, receiver, receiverCommands>>,
         rpc' = "reading" => rpc = "reading", rpc' # "writing", status' # "Writing",
         \A k \in Kinds : ReadOpen(k) /\ (rpc = "reading" \/ status = "Reading") =>
                            rpc' = "reading" \/ status' = "Reading",
         \A file \in Names : disk'[file].samples = disk[file].samples
  PROVE  Resting' /\ Under(name)'
  <1>1. Resting'
    BY DEF Resting, Recorded, Running
  <1>2. Asked(name) => Asked(name)'
    BY DEF Asked, Unread, Replays
  <1>3. Passed(name) => Passed(name)'
    BY DEF Passed, Unread, Replays
  <1>4. ASSUME NEW k \in Kinds, FollowsFile(name, k) PROVE FollowsFile(name, k)'
    <2>1. ToOpen(name, k) => ToOpen(name, k)'
      BY DEF ToOpen
    <2>2. Elsewhere(k) => Elsewhere(k)'
      BY DEF Elsewhere
    <2>3. Given(name, k) => Given(name, k)'
      BY DEF Given, ReadOpen, Of
    <2> QED
      BY <1>4, <2>1, <2>2, <2>3 DEF FollowsFile, Replays
  <1> QED
    BY <1>1, <1>2, <1>3, <1>4 DEF Under

(* A receiver at rest only hands on what it has published.                   *)
LEMMA RestingReceivers ==
  ASSUME Streams, BuffersTyped, Resting, NEW k \in Kinds, ReceiverThread(k)
  PROVE  UNCHANGED <<disk, rpc, status, storage, recorderCommands, clears, decoder, decoderCommands,
                     receiver, receiverCommands>>
  <1>1. /\ receiverCommands[k] = <<>> /\ receiver[k].next = MaxUnits /\ receiver[k].status # "flush"
    BY DEF Streams, Resting, Running
  <1>2. Offer(k) \/ Add(k)
    BY <1>1 DEF ReceiverThread, StartStream, StopStream, PublishSamples, PublishEnd
  <1> QED
    BY <1>2 DEF Offer, Add, ReceiverOnly, recorderVars, controlVars

(* A part of the file, or its end, comes to the decoder that waits for it.   *)
LEMMA PartReplayed ==
  ASSUME Files, DecodersTyped, Resting, Heards, NEW name \in Names, NEW k \in Kinds,
         FollowsFile(name, k), Given(name, k), Replay(k),
         \A file \in Names : disk'[file].samples = disk[file].samples
  PROVE  Heards' /\ (Silent' \/ (Resting' /\ Under(name)'))
  <1> DEFINE wanted == decoder[k].wanted
             at == Of(k).at
  <1>1. /\ clears = <<>> /\ recorderCommands = <<>> /\ \A j \in Kinds : decoderCommands[j] = <<>>
        /\ UNCHANGED <<clears, recorderCommands, decoderCommands, receiver, receiverCommands, status>>
        /\ rpc' \notin {"reading", "writing"}
    BY DEF FollowsFile, Given, Replay, ReadOne, controlVars
  <1>2. Resting'
    BY <1>1 DEF Resting, Recorded, Running
  <1>3. /\ storage \in [Kinds -> {<<>>} \cup {<<device>> : device \in Device}]
        /\ disk \in [Names -> File] /\ decoder \in [Kinds -> Decoder] /\ wanted \in Seq(Samples)
        /\ storage[k] # <<>> /\ Of(k) \in Device /\ Of(k).mode = "Read" /\ Of(k).name = name
        /\ ~Of(k).eof /\ ~Of(k).failed
        /\ at \in Nat /\ at <= Len(wanted) /\ disk[name].samples = wanted
        /\ \E from \in 0..at : decoder[k].heard = Piece(wanted, from, at)
        /\ decoder[k].replay /\ decoder[k].status \in {"starting", "decoding"}
        /\ decoder[k].status = "starting" => decoder[k].heard = <<>>
        /\ status = "Reading" /\ name.kind = k
    BY DEF Files, FilesOK, DecodersTyped, Decoder, Device, FollowsFile, Replays, Given, ReadOpen, Of,
           Replay, ReadOne
  <1>4. PICK to \in Nat :
           /\ at <= to /\ to <= Len(wanted)
           /\ Replayed(k) = SubSeq(wanted, at + 1, to)
           /\ Len(Replayed(k)) = to - at
           /\ to - at < ReadLength => to = Len(wanted)
    <2>1. /\ Of(k).at <= Len(disk[Of(k).name].samples) /\ disk[Of(k).name].samples = wanted
          /\ disk \in [Names -> File] /\ Of(k) \in Device /\ Of(k).mode = "Read" /\ ~Of(k).failed
      BY <1>3
    <2>2. at = Of(k).at
      OBVIOUS
    <2> HIDE DEF wanted, at
    <2> QED
      BY <2>1, <2>2, ReadPart DEF Replayed
  <1>5. /\ DecodersTyped' /\ \A j \in Kinds \ {k} : decoder'[j] = decoder[j]
        /\ decoder'[k].replay = decoder[k].replay /\ decoder'[k].wanted = wanted
        /\ decoder[k].status = "decoding" =>
             /\ decoder'[k].heard = decoder[k].heard \o Numbered(Replayed(k), at)
             /\ decoder'[k].status = IF storage'[k] = <<>> THEN "idle" ELSE "decoding"
        /\ decoder[k].status = "starting" =>
             decoder'[k].heard = <<>> /\ decoder'[k].status = "starting"
    BY <1>3, DecoderReplayed DEF IsSet
  <1> HIDE DEF wanted, at
  <1>6. \E from \in 0..to : decoder'[k].heard = Piece(wanted, from, to)
    <2>1. CASE decoder[k].status = "decoding"
      <3>1. PICK from \in 0..at : decoder[k].heard = Piece(wanted, from, at)
        BY <1>3
      <3>2. Numbered(Replayed(k), at) = Piece(wanted, at, to)
        BY <1>4 DEF Piece
      <3>4. from \in Nat /\ from <= at /\ from \in 0..to
        BY <1>3, <1>4, <3>1
      <3>3. Piece(wanted, from, at) \o Piece(wanted, at, to) = Piece(wanted, from, to)
        <4>1. wanted \in Seq(Samples) /\ at \in Nat /\ at <= to /\ to <= Len(wanted)
          BY <1>3, <1>4
        <4> QED
          BY <3>4, <4>1, NextPiece
      <3> QED
        BY <1>5, <2>1, <3>1, <3>2, <3>3, <3>4
    <2>2. CASE decoder[k].status = "starting"
      <3>1. Piece(wanted, to, to) = <<>> /\ to \in 0..to
        BY <1>3, <1>4, EmptyPiece
      <3> QED
        BY <1>5, <2>2, <3>1
    <2> QED
      BY <1>3, <2>1, <2>2
  <1> DEFINE after == AfterRead(disk, Of(k), ReadLength)
  <1>7. /\ after.at = to /\ after.name = name /\ after.mode = "Read"
        /\ after.eof => to = Len(wanted)
        /\ ~after.eof => ~after.failed
    <2> DEFINE short == ~Of(k).failed /\ Len(Replayed(k)) < ReadLength
               moved == [Of(k) EXCEPT !.at = Of(k).at + Len(Replayed(k))]
               found == [moved EXCEPT !.eof = Of(k).eof \/ short]
    <2>1. after = [found EXCEPT !.failed = Of(k).failed \/ short]
      BY <1>3 DEF AfterRead, Replayed, Device
    <2>5. (Of(k).eof \/ short) \in BOOLEAN /\ (Of(k).failed \/ short) \in BOOLEAN
      BY <1>3 DEF Device
    <2>6. (Of(k).eof \/ short <=> Len(Replayed(k)) < ReadLength) /\ (Of(k).failed \/ short <=> Of(k).eof \/ short)
      BY <1>3
    <2>2. Of(k).at + Len(Replayed(k)) = to
      BY <1>3, <1>4 DEF at
    <2>3. /\ moved \in Device /\ moved.at = to /\ moved.name = name /\ moved.mode = "Read"
      BY <1>3, <2>2 DEF Device
    <2> HIDE DEF moved, after, short
    <2>7. /\ found \in Device /\ found.at = to /\ found.name = name /\ found.mode = "Read"
          /\ found.eof = (Of(k).eof \/ short)
      BY <2>3, <2>5 DEF Device
    <2> HIDE DEF found
    <2>4. /\ after.at = to /\ after.name = name /\ after.mode = "Read"
          /\ after.eof = (Of(k).eof \/ short) /\ after.failed = (Of(k).failed \/ short)
      BY <2>1, <2>5, <2>7 DEF Device
    <2> QED
      BY <1>4, <2>4, <2>6
  <1>8. storage' = [storage EXCEPT ![k] = IF after.eof THEN <<>> ELSE <<after>>]
    BY <1>3 DEF Replay, ReadOne, IsSet
  <1> HIDE DEF after
  <1>9. /\ \A j \in Kinds \ {k} : storage'[j] = <<>>
        /\ storage'[k] = IF after.eof THEN <<>> ELSE <<after>>
    BY <1>3, <1>8 DEF Given
  <1>10. \A j \in Kinds \ {k} : ~Replays(j)'
    BY <1>5 DEF FollowsFile, Replays
  <1>13. CASE after.eof /\ decoder[k].status = "starting"
    <2>1. /\ storage'[k] = <<>> /\ recorderCommands' = <<>>
          /\ decoder'[k].status = "starting" /\ decoder'[k].heard = <<>> /\ decoder'[k].replay
      BY <1>1, <1>3, <1>5, <1>9, <1>13
    <2>2. Heards'
      BY <1>5, <2>1 DEF Heards
    <2>3. Elsewhere(k)'
      BY <2>1 DEF Elsewhere
    <2>4. FollowsFile(name, k)'
      BY <1>1, <1>3, <1>5, <1>10, <2>1, <2>3 DEF FollowsFile, Replays
    <2> QED
      BY <1>2, <2>2, <2>4 DEF Under
  <1>11. CASE after.eof /\ decoder[k].status = "decoding"
    <2>1. storage'[k] = <<>> /\ decoder'[k].status = "idle"
      BY <1>5, <1>9, <1>11
    <2>2. \E from \in 0..Len(wanted) : decoder'[k].heard = Piece(wanted, from, Len(wanted))
      BY <1>6, <1>7, <1>11
    <2>3. Heards'
      <3>1. decoder'[k].wanted = wanted
        BY <1>5
      <3> QED
        BY <1>5, <2>2, <3>1 DEF Heards
    <2>4. Silent'
      <3>1. ~AsksToRead(clears') /\ ~ToRead(recorderCommands') /\ \A j \in Kinds : ~AsksToRead(decoderCommands'[j])
        BY <1>1, AskedFor
      <3> QED
        BY <1>1, <1>9, <1>10, <2>1, <3>1 DEF Silent, ReadOpen, Replays
    <2> QED
      BY <2>3, <2>4
  <1>12. CASE ~after.eof
    <2>1. <<after>> # <<>> /\ <<after>>[1] = after
      OBVIOUS
    <2>2. storage'[k] = <<after>> /\ decoder'[k].status = decoder[k].status /\ decoder'[k].replay
          /\ decoder'[k].status # "idle" /\ (decoder'[k].status = "starting" => decoder'[k].heard = <<>>)
      BY <1>3, <1>5, <1>9, <1>12, <2>1
    <2>3. Heards'
      BY <1>5, <2>2 DEF Heards
    <2>4. Given(name, k)'
      <3>1. /\ ReadOpen(k)' /\ Of(k)'.name = name /\ ~Of(k)'.eof /\ ~Of(k)'.failed /\ Of(k)'.at = to
        BY <1>7, <1>12, <2>1, <2>2 DEF ReadOpen, Of
      <3> QED
        BY <1>1, <1>3, <1>4, <1>5, <1>6, <1>9, <3>1 DEF Given
    <2>5. FollowsFile(name, k)'
      BY <1>1, <1>3, <1>5, <1>10, <2>2, <2>4 DEF FollowsFile, Replays
    <2> QED
      BY <1>2, <2>3, <2>5 DEF Under
  <1> QED
    BY <1>3, <1>11, <1>12, <1>13

(* The file a decoder does not decode goes by.                               *)
LEMMA PartPasses ==
  ASSUME Files, DecodersTyped, Resting, Heards, NEW name \in Names, NEW k \in Kinds, NEW j \in Kinds \ {k},
         FollowsFile(name, k), Elsewhere(k), Replay(j),
         \A file \in Names : disk'[file].samples = disk[file].samples
  PROVE  Heards' /\ Resting' /\ Under(name)'
  <1>1. /\ clears = <<>> /\ recorderCommands = <<>> /\ \A i \in Kinds : decoderCommands[i] = <<>>
        /\ UNCHANGED <<clears, recorderCommands, decoderCommands, receiver, receiverCommands, status>>
        /\ rpc' \notin {"reading", "writing"}
    BY DEF FollowsFile, Elsewhere, Replay, ReadOne, controlVars
  <1>2. Resting'
    BY <1>1 DEF Resting, Recorded, Running
  <1>3. /\ decoder'[k] = decoder[k] /\ decoder'[j].replay = decoder[j].replay
        /\ decoder'[j].wanted = decoder[j].wanted
        /\ decoder[j].status = "idle" => decoder'[j].status = "idle" /\ decoder'[j].heard = decoder[j].heard
        /\ \A i \in Kinds \ {j} : decoder'[i] = decoder[i]
    BY DecoderReplayed
  <1>4. decoder[j].replay => decoder[j].status = "idle"
    BY DEF FollowsFile, Replays, DecodersTyped, Decoder
  <1>5. Heards'
    BY <1>3, <1>4 DEF Heards
  <1>6. storage'[k] = storage[k]
    BY DEF Replay, ReadOne, Files, FilesOK
  <1>7. Elsewhere(k)'
    BY <1>1, <1>3, <1>6 DEF Elsewhere
  <1>8. \A i \in Kinds \ {k} : ~Replays(i)'
    BY <1>3, <1>4 DEF FollowsFile, Replays
  <1>9. Replays(k)' /\ disk'[name].samples = decoder'[k].wanted
    BY <1>3 DEF FollowsFile, Replays
  <1>10. FollowsFile(name, k)'
    <2>1. decoder'[k].status = "starting" => decoder'[k].heard = <<>>
      BY <1>3 DEF FollowsFile
    <2> QED
      BY <1>1, <1>7, <1>8, <1>9, <2>1 DEF FollowsFile
  <1> QED
    BY <1>2, <1>5, <1>10 DEF Under

(* Every step from the opening of a file to the end of its decoding          *)
LEMMA FileStep ==
  ASSUME MaxUnplugs = 0, ~StopsReplay, CommandsTyped, BuffersTyped, Files, DecodersTyped, Streams, Heards,
         Resting, NEW name \in Names, Under(name), [Next]_vars
  PROVE  Heards' /\ (Silent' \/ (Resting' /\ Under(name)'))
  <1>0. /\ ~Recorded /\ status # "Writing" /\ rpc # "writing"
        /\ \A k \in Kinds : ~Running(k) /\ receiverCommands[k] = <<>>
    BY DEF Resting, Recorded
  <1>1. \A k \in Kinds : ~WriteSamples(k)
    BY <1>0 DEF WriteSamples, Writing
  <1>2. \A file \in Names : disk'[file].samples = disk[file].samples
    BY <1>1, SamplesStay
  <1>3. ASSUME UNCHANGED <<clears, recorderCommands, decoder, decoderCommands, storage, receiver, receiverCommands>>,
               rpc' = "reading" => rpc = "reading", rpc' # "writing", status' # "Writing",
               \A k \in Kinds : ReadOpen(k) /\ (rpc = "reading" \/ status = "Reading") =>
                                  rpc' = "reading" \/ status' = "Reading"
        PROVE  Heards' /\ Resting' /\ Under(name)'
    <2>1. Heards'
      BY <1>3 DEF Heards
    <2> QED
      BY <1>2, <1>3, <2>1, FileFrame
  <1>4. CASE RecorderThread
    <2>1. ASSUME ResolveWrite PROVE FALSE
      BY <2>1, <1>0, Queued DEF ResolveWrite, WriteStorage, Handling, CommandsTyped, Recorded
    <2>2. ASSUME CloseStorage PROVE FALSE
      <3>1. recorderCommands # <<>> /\ Head(recorderCommands).code = "Stop"
        BY <2>2 DEF CloseStorage, Handling
      <3>2. PICK k \in Kinds : recorderCommands = <<[code |-> "Read", name |-> name]>>
        BY <3>1 DEF Under, Asked, Passed, Unread, FollowsFile, ToOpen, Elsewhere, Given
      <3>3. Head(recorderCommands) = [code |-> "Read", name |-> name]
        BY <3>2
      <3> QED
        BY <3>1, <3>3
    <2>3. ASSUME NEW k \in Kinds, WriteOne(k) PROVE FALSE
      BY <2>3, <1>0 DEF WriteOne, NothingToWrite, WriteSamples, FinishFile, FinishNameless, Writing
    <2>4. CASE (CommandDone \/ NoCommand \/ ReadFinished) /\ UNCHANGED <<partnerVars, controlVars>>
      <3>1. /\ UNCHANGED <<clears, recorderCommands, decoder, decoderCommands, storage, receiver, receiverCommands>>
            /\ rpc' \notin {"reading", "writing"}
        BY <2>4 DEF CommandDone, NoCommand, ReadFinished, partnerVars, controlVars
      <3>2. status' # "Writing"
        BY <1>0, <2>4 DEF CommandDone, NoCommand, ReadFinished
      <3>3. ASSUME NEW k \in Kinds, ReadOpen(k), rpc = "reading" \/ status = "Reading" PROVE status' = "Reading"
        <4>1. CASE CommandDone
          BY <1>0, <4>1 DEF CommandDone
        <4>2. CASE NoCommand
          BY <3>3, <4>2 DEF NoCommand
        <4>3. CASE ReadFinished
          BY <3>3, <4>3 DEF ReadFinished, ReadOpen, IsSet
        <4> QED
          BY <2>4, <4>1, <4>2, <4>3
      <3> QED
        BY <1>3, <3>1, <3>2, <3>3
    <2>5. CASE ReadStorage /\ UNCHANGED <<partnerVars, controlVars>>
      <3>1. /\ UNCHANGED <<clears, decoder, decoderCommands, receiver, receiverCommands, status>>
            /\ recorderCommands # <<>> /\ recorderCommands' = Tail(recorderCommands) /\ rpc' = "reading"
        BY <2>5 DEF ReadStorage, Handling, partnerVars, controlVars
      <3>2. PICK k \in Kinds : FollowsFile(name, k) /\ ToOpen(name, k)
        BY <3>1 DEF Under, Asked, Passed, Unread, FollowsFile, Elsewhere, Given
      <3>3. recorderCommands = <<[code |-> "Read", name |-> name]>> /\ \A j \in Kinds : storage[j] = <<>>
        BY <3>2 DEF ToOpen
      <3>4. Head(recorderCommands).name = name /\ recorderCommands' = <<>>
        <4>1. \A e : Tail(<<e>>) = <<>> /\ Head(<<e>>) = e
          OBVIOUS
        <4> QED
          BY <3>1, <3>3, <4>1
      <3>5. storage' = [storage EXCEPT ![name.kind] = <<Opened(name, "Read")>>]
        BY <2>5, <3>4 DEF ReadStorage
      <3>6. name.kind \in Kinds /\ storage \in [Kinds -> {<<>>} \cup {<<device>> : device \in Device}]
        BY DEF Names, Files, FilesOK
      <3>7. /\ \A j \in Kinds \ {name.kind} : storage'[j] = <<>>
            /\ storage'[name.kind] = <<Opened(name, "Read")>>
        BY <3>3, <3>5, <3>6
      <3>8. ~Writes(recorderCommands')
        BY <3>4, Queued
      <3>9. Resting'
        BY <1>0, <3>1, <3>8 DEF Resting, Recorded, Running
      <3>10. Heards' /\ Replays(k)' /\ \A j \in Kinds \ {k} : ~Replays(j)'
        BY <3>1, <3>2 DEF Heards, FollowsFile, Replays
      <3>11. CASE name.kind = k
        <4>1. /\ storage'[k] # <<>>
              /\ storage'[k][1] = [name |-> name, mode |-> "Read", at |-> 0, eof |-> FALSE, failed |-> FALSE]
          <5>1. \A e : <<e>> # <<>> /\ <<e>>[1] = e
            OBVIOUS
          <5> QED
            BY <3>7, <3>11, <5>1 DEF Opened
        <4>2. decoder[k].wanted \in Seq(Samples) /\ decoder[k].heard = <<>>
          BY <3>2 DEF DecodersTyped, Decoder, ToOpen
        <4>3. ASSUME NEW s \in Seq(Samples) PROVE 0 <= Len(s) /\ 0 \in 0..0 /\ Piece(s, 0, 0) = <<>>
          <5>1. 0 <= Len(s) /\ 0 \in 0..0
            OBVIOUS
          <5> QED
            BY <5>1, EmptyPiece
        <4>4. Given(name, k)'
          BY <3>1, <3>4, <3>7, <3>11, <4>1, <4>2, <4>3 DEF Given, ReadOpen, Of
        <4>5. FollowsFile(name, k)'
          BY <1>2, <3>1, <3>2, <3>10, <4>4 DEF FollowsFile
        <4> QED
          BY <3>9, <3>10, <4>5 DEF Under
      <3>12. CASE name.kind # k
        <4>1. Elsewhere(k)'
          BY <3>1, <3>2, <3>4, <3>7, <3>12 DEF Elsewhere, ToOpen
        <4>2. FollowsFile(name, k)'
          BY <1>2, <3>1, <3>2, <3>10, <4>1 DEF FollowsFile
        <4> QED
          BY <3>9, <3>10, <4>2 DEF Under
      <3> QED
        BY <3>11, <3>12
    <2>6. ASSUME NEW j \in Kinds, Replay(j) PROVE Heards' /\ (Silent' \/ (Resting' /\ Under(name)'))
      <3>1. CASE ~IsSet(j)
        <4>1. /\ UNCHANGED <<clears, recorderCommands, decoder, decoderCommands, storage, receiver, receiverCommands, status>>
              /\ rpc' \in {"radio", "check"} /\ status = "Reading"
          BY <2>6, <3>1 DEF Replay, ReadOne, controlVars
        <4> QED
          BY <1>0, <1>3, <4>1
      <3>2. CASE IsSet(j)
        <4>1. PICK k \in Kinds : FollowsFile(name, k)
          BY <3>2 DEF IsSet, Under, Asked, Passed, Unread
        <4>2. Elsewhere(k) \/ Given(name, k)
          BY <3>2, <4>1 DEF FollowsFile, ToOpen, IsSet
        <4>3. CASE Elsewhere(k)
          <5>1. j # k
            BY <3>2, <4>3 DEF Elsewhere, IsSet
          <5> QED
            BY <1>2, <2>6, <4>1, <4>3, <5>1, PartPasses
        <4>4. CASE Given(name, k)
          <5>1. j = k
            BY <3>2, <4>4 DEF Given, IsSet
          <5> QED
            BY <1>2, <2>6, <4>1, <4>4, <5>1, PartReplayed
        <4> QED
          BY <4>2, <4>3, <4>4
      <3> QED
        BY <3>1, <3>2
    <2> QED
      BY <1>4, <2>1, <2>2, <2>3, <2>4, <2>5, <2>6 DEF RecorderThread
  <1>5. CASE TraceCleared
    <2>1. /\ clears # <<>> /\ clears' = Tail(clears)
          /\ UNCHANGED <<rpc, status, storage, decoder, receiver, receiverCommands>>
      BY <1>5 DEF TraceCleared
    <2>2. Asked(name)
      BY <2>1 DEF Under, Passed, FollowsFile
    <2> DEFINE then == [then |-> "read", name |-> name]
    <2>3. clears' = <<>> /\ Head(clears) = then
      <3>1. \A e : Tail(<<e>>) = <<>> /\ Head(<<e>>) = e
        OBVIOUS
      <3>2. clears = <<then>>
        BY <2>2 DEF Asked
      <3> HIDE DEF then
      <3> QED
        BY <2>1, <3>1, <3>2
    <2>4. then.then = "read" /\ then.name = name
      OBVIOUS
    <2> HIDE DEF then
    <2>5. /\ decoderCommands' = [decoderCommands EXCEPT ![DecoderFor(name)] = Append(@, then)]
          /\ UNCHANGED recorderCommands
      BY <1>5, <2>3, <2>4 DEF TraceCleared
    <2>6. DecoderFor(name) \in Kinds /\ decoderCommands \in [Kinds -> Seq(Then)] /\ \A k \in Kinds : decoderCommands[k] = <<>>
      BY <2>2 DEF DecoderFor, Kinds, CommandsTyped, Asked
    <2>7. \A k \in Kinds : decoderCommands'[k] = IF k = DecoderFor(name) THEN <<then>> ELSE <<>>
      <3>1. Append(<<>>, then) = <<then>>
        OBVIOUS
      <3> QED
        BY <2>5, <2>6, <3>1
    <2>8. Passed(name)'
      BY <2>1, <2>2, <2>3, <2>5, <2>7 DEF Passed, Asked, Unread, Replays, then
    <2>9. ~Clearing(clears')
      BY <2>3, Queued
    <2>10. Resting'
      BY <1>0, <2>1, <2>5, <2>9 DEF Resting, Recorded, Running
    <2>11. Heards'
      BY <2>1 DEF Heards
    <2> QED
      BY <2>8, <2>10, <2>11 DEF Under
  <1>6. ASSUME User PROVE FALSE
    <2>1. CASE Asked(name) \/ Passed(name)
      <3>1. Underway
        <4>1. CASE Asked(name)
          BY <4>1 DEF Asked, Underway
        <4>2. CASE Passed(name)
          <5>1. DecoderFor(name) \in Kinds
            BY DEF DecoderFor, Kinds
          <5>2. decoderCommands[DecoderFor(name)] # <<>>
            BY <4>2, <5>1 DEF Passed
          <5> QED
            BY <5>1, <5>2 DEF Underway
        <4> QED
          BY <2>1, <4>1, <4>2
      <3> QED
        BY <1>6, <3>1 DEF User, Start, Stop, Open
    <2>2. ASSUME NEW k \in Kinds, FollowsFile(name, k) PROVE FALSE
      <3>1. decoder[k].replay /\ decoder[k].status \in {"starting", "decoding"}
        BY <2>2 DEF FollowsFile, Replays, DecodersTyped, Decoder
      <3> QED
        BY <1>6, <3>1 DEF User, Start, Stop, Open, Busy, Underway
    <2> QED
      BY <2>1, <2>2 DEF Under
  <1>7. ASSUME NEW k \in Kinds, ReceiverThread(k) PROVE Heards' /\ Resting' /\ Under(name)'
    <2>1. UNCHANGED <<rpc, status, storage, recorderCommands, clears, decoder, decoderCommands, receiver, receiverCommands>>
      BY <1>7, RestingReceivers
    <2> QED
      BY <1>0, <1>3, <2>1
  <1>8. ASSUME NEW k \in Kinds, StartDecoding(k) PROVE Heards' /\ Resting' /\ Under(name)'
    <2> DEFINE then == [then |-> "read", name |-> name]
    <2>1. decoderCommands[k] # <<>>
      BY <1>8 DEF StartDecoding
    <2>2. Passed(name)
      BY <2>1 DEF Under, Asked, FollowsFile
    <2>3. k = DecoderFor(name) /\ decoderCommands[k] = <<then>>
      BY <2>1, <2>2 DEF Passed
    <2>4. then.then = "read" /\ then.name = name
      OBVIOUS
    <2> HIDE DEF then
    <2>5. Head(decoderCommands[k]) = then /\ Tail(decoderCommands[k]) = <<>>
      BY <2>3
    <2>6. /\ UNCHANGED <<clears, rpc, status, storage, disk, receiver, receiverCommands>>
          /\ recorderCommands' = Append(recorderCommands, [code |-> "Read", name |-> name])
          /\ decoderCommands' = [decoderCommands EXCEPT ![k] = <<>>]
      BY <1>8, <2>4, <2>5 DEF StartDecoding, controlVars
    <2>7. /\ clears = <<>> /\ rpc # "reading" /\ recorderCommands = <<>>
          /\ \A j \in Kinds : storage[j] = <<>> /\ ~Replays(j)
          /\ \A j \in Kinds : decoderCommands'[j] = <<>>
      BY <2>2, <2>3, <2>6 DEF Passed, Unread, CommandsTyped
    <2>8. recorderCommands' = <<[code |-> "Read", name |-> name]>>
      <3>1. \A e : Append(<<>>, e) = <<e>>
        OBVIOUS
      <3> QED
        BY <2>6, <2>7, <3>1
    <2>9. /\ \A j \in Kinds \ {k} : decoder'[j] = decoder[j]
          /\ decoder'[k].status = "starting" /\ decoder'[k].heard = <<>> /\ decoder'[k].replay
          /\ decoder'[k].wanted = disk[name].samples
      BY <1>8, <2>4, <2>5, DecoderStarted
    <2>10. Heards'
      BY <2>9 DEF Heards
    <2>11. ~Writes(recorderCommands')
      BY <2>8, Queued
    <2>12. Resting'
      BY <1>0, <2>6, <2>11 DEF Resting, Recorded, Running
    <2>13. ToOpen(name, k)'
      BY <2>6, <2>7, <2>8, <2>9 DEF ToOpen
    <2>14. FollowsFile(name, k)'
      BY <2>6, <2>7, <2>9, <2>13 DEF FollowsFile, Replays
    <2> QED
      BY <2>10, <2>12, <2>14 DEF Under
  <1>11. ASSUME NEW k \in Kinds, DecoderStreaming(k) PROVE Heards' /\ Resting' /\ Under(name)'
    <2>1. UNCHANGED <<rpc, status, storage, disk, recorderCommands, clears, decoderCommands, receiver, receiverCommands>>
      BY <1>11 DEF DecoderStreaming, recorderVars, controlVars
    <2>2. /\ \A j \in Kinds \ {k} : decoder'[j] = decoder[j]
          /\ decoder[k].status = "starting" /\ decoder'[k].status = "decoding"
          /\ decoder'[k].replay = decoder[k].replay /\ decoder'[k].wanted = decoder[k].wanted
          /\ decoder'[k].heard = decoder[k].heard
      BY <1>11, DecoderBegins
    <2>3. Resting'
      BY <2>1 DEF Resting, Recorded, Running
    <2>4. Heards'
      BY <2>2 DEF Heards
    <2>5. \A j \in Kinds : Replays(j)' <=> Replays(j)
      BY <2>2 DEF Replays
    <2>6. Asked(name) => Asked(name)'
      BY <2>1, <2>5 DEF Asked, Unread
    <2>7. Passed(name) => Passed(name)'
      BY <2>1, <2>5 DEF Passed, Unread
    <2>8. ASSUME NEW j \in Kinds, FollowsFile(name, j) PROVE FollowsFile(name, j)'
      <3>1. decoder'[j].heard = decoder[j].heard /\ decoder'[j].wanted = decoder[j].wanted
            /\ (decoder'[j].status = "starting" => decoder[j].status = "starting")
        BY <2>2
      <3>2. ToOpen(name, j) => ToOpen(name, j)'
        BY <2>1, <3>1 DEF ToOpen
      <3>3. Elsewhere(j) => Elsewhere(j)'
        BY <2>1, <3>1 DEF Elsewhere
      <3>4. Given(name, j) => Given(name, j)'
        BY <2>1, <3>1 DEF Given, ReadOpen, Of
      <3> QED
        BY <2>1, <2>5, <2>8, <3>1, <3>2, <3>3, <3>4 DEF FollowsFile
    <2> QED
      BY <2>3, <2>4, <2>6, <2>7, <2>8 DEF Under
  <1>9. CASE Tick \/ UNCHANGED vars
    <2>1. UNCHANGED <<rpc, status, storage, recorderCommands, clears, decoder, decoderCommands, receiver, receiverCommands>>
      BY <1>9 DEF Tick, vars, recorderVars, partnerVars, controlVars
    <2> QED
      BY <1>0, <1>3, <2>1
  <1>10. ASSUME NEW k \in Kinds, Unplug(k) \/ Plug(k) PROVE FALSE
    BY <1>10 DEF Unplug, Plug, Streams
  <1> QED
    BY <1>4, <1>5, <1>6, <1>7, <1>8, <1>9, <1>10, <1>11 DEF Next, Environment, DecoderThread

(* A decoder that is not replaying a file takes nothing of Heards back.      *)
LEMMA HeardsStep ==
  ASSUME CommandsTyped, BuffersTyped, Files, DecodersTyped, Silent, Heards, [Next]_vars
  PROVE  Heards'
  <1>1. \A k \in Kinds : decoder[k].replay => decoder[k].status = "idle"
    BY DEF Silent, Replays, DecodersTyped, Decoder
  <1>2. ASSUME NEW k \in Kinds, \A j \in Kinds \ {k} : decoder'[j] = decoder[j],
               decoder'[k].replay = decoder[k].replay, decoder'[k].wanted = decoder[k].wanted,
               decoder[k].status = "idle" => decoder'[k].heard = decoder[k].heard
        PROVE  Heards'
    BY <1>1, <1>2 DEF Heards
  <1>3. ASSUME NEW k \in Kinds, NEW buffer \in Buffer, Publish(k, buffer) PROVE Heards'
    BY <1>2, <1>3, DecoderTold
  <1>4. ASSUME NEW k \in Kinds, Replay(k) PROVE Heards'
    BY <1>2, <1>4, DecoderReplayed
  <1>5. ASSUME NEW k \in Kinds, StartDecoding(k) PROVE Heards'
    <2>1. \A j \in Kinds \ {k} : decoder'[j] = decoder[j]
      BY <1>5, DecoderStarted
    <2>2. decoder'[k].status = "starting"
      BY <1>5, DecoderStarted
    <2> QED
      BY <2>1, <2>2 DEF Heards
  <1>7. ASSUME NEW k \in Kinds, DecoderStreaming(k) PROVE Heards'
    BY <1>7, DecoderBegins DEF Heards
  <1>6. CASE UNCHANGED decoder
    BY <1>6 DEF Heards
  <1> QED
    BY <1>3, <1>4, <1>5, <1>6, <1>7, DecodersStay DEF DecoderThread

LEMMA FaithfulAlways ==
  ASSUME MaxUnplugs = 0, ~StopsReplay
  PROVE  Spec => []Faithful
  <1>1. Init => Faithful
    <2> SUFFICES ASSUME Init PROVE Faithful
      OBVIOUS
    <2>1. /\ clears = <<>> /\ recorderCommands = <<>> /\ rpc = "command"
          /\ decoderCommands = [k \in Kinds |-> <<>>] /\ storage = [k \in Kinds |-> <<>>]
          /\ decoder = [k \in Kinds |-> [status |-> "idle", replay |-> FALSE,
                                         cut |-> FALSE, wanted |-> <<>>, heard |-> <<>>]]
      BY DEF Init, RecorderInit
    <2>2. Silent
      BY <2>1, AskedFor DEF Silent, ReadOpen, Replays
    <2>3. Heards
      BY <2>1 DEF Heards
    <2> QED
      BY <2>2, <2>3 DEF Faithful, Reading
  <1>2. ASSUME CommandsTyped, BuffersTyped, Files, DecodersTyped, One, Faithful, [Next]_vars PROVE Faithful'
    <2>1. Streams /\ Acquisition /\ Lines /\ Heards
      BY <1>2 DEF One, Faithful
    <2>2. CASE Silent
      <3>1. Heards'
        BY <1>2, <2>1, <2>2, HeardsStep
      <3>2. CASE \A name \in Names : ~Open(name)
        <4>1. Silent'
          BY <1>2, <2>1, <2>2, <3>2, SilentStep
        <4> QED
          BY <3>1, <4>1 DEF Faithful, Reading
      <3>3. ASSUME NEW name \in Names, Open(name) PROVE Faithful'
        <4>1. Resting' /\ Asked(name)'
          BY <1>2, <2>1, <2>2, <3>3, OpenAsks
        <4> QED
          BY <3>1, <4>1 DEF Faithful, Reading, Under
      <3> QED
        BY <3>2, <3>3
    <2>3. ASSUME Resting, NEW name \in Names, Under(name) PROVE Faithful'
      <3>1. Heards' /\ (Silent' \/ (Resting' /\ Under(name)'))
        BY <1>2, <2>1, <2>3, FileStep
      <3> QED
        BY <3>1 DEF Faithful, Reading
    <2> QED
      BY <1>2, <2>2, <2>3 DEF Faithful, Reading
  <1>3. CommandsTyped /\ BuffersTyped /\ Files /\ DecodersTyped /\ One /\ Faithful /\ [Next]_vars => Faithful'
    BY <1>2
  <1>4. Spec => []One
    BY OneAlways
  <1> QED
    BY <1>1, <1>3, <1>4, BuffersAreTyped, CommandsAreTyped, FilesAreOK, DecodersAreTyped, PTL DEF Spec

(* While the receivers stay and nobody stops a replay, what a decoder is      *)
(* given of the file it decodes is one piece of it, from where the recorder   *)
(* was when the decoder became Streaming: in order, with the offsets of the   *)
(* file, none left out, and up to the last one when the replay ends.          *)
THEOREM ReplaysAreFaithful ==
  ASSUME MaxUnplugs = 0, ~StopsReplay
  PROVE  Spec => []ReplayIsFaithful
  <1>1. ASSUME DecodersTyped, Files, Faithful PROVE ReplayIsFaithful
    <2> SUFFICES ASSUME NEW k \in Kinds, decoder[k].replay
                 PROVE  LET all == Numbered(decoder[k].wanted, 0) IN
                        \E missed \in 0..Len(all) :
                          LET rest == SubSeq(all, missed + 1, Len(all)) IN
                          /\ IsPrefix(decoder[k].heard, rest)
                          /\ decoder[k].status = "idle" /\ ~decoder[k].cut => decoder[k].heard = rest
      BY DEF ReplayIsFaithful
    <2> DEFINE wanted == decoder[k].wanted
               heard == decoder[k].heard
               idle == decoder[k].status = "idle"
    <2>1. wanted \in Seq(Samples) /\ Len(wanted) \in Nat
      BY <1>1 DEF DecodersTyped, Decoder
    <2>2. ASSUME NEW m \in Nat, NEW n \in Nat, m <= n, n <= Len(wanted),
                 heard = Piece(wanted, m, n), idle => n = Len(wanted)
          PROVE  LET all == Numbered(wanted, 0) IN
                 \E missed \in 0..Len(all) :
                   LET rest == SubSeq(all, missed + 1, Len(all)) IN
                   IsPrefix(heard, rest) /\ (idle => heard = rest)
      <3> DEFINE all == Numbered(wanted, 0)
                 rest == SubSeq(all, m + 1, Len(all))
      <3> HIDE DEF wanted, heard, idle
      <3>2. /\ Len(all) = Len(wanted) /\ rest = Piece(wanted, m, Len(wanted))
            /\ IsPrefix(heard, rest)
        BY <2>1, <2>2, PieceOfRest
      <3>3. m \in 0..Len(all)
        BY <2>1, <2>2, <3>2
      <3>4. idle => heard = rest
        BY <2>2, <3>2
      <3> QED
        BY <3>2, <3>3, <3>4 DEF idle
    <2>3. CASE idle
      <3>1. PICK from \in 0..Len(wanted) : heard = Piece(wanted, from, Len(wanted))
        BY <1>1, <2>3 DEF Faithful, Heards
      <3>2. /\ from \in Nat /\ from <= Len(wanted) /\ Len(wanted) <= Len(wanted)
        BY <2>1
      <3> QED
        BY <2>1, <2>2, <3>1, <3>2
    <2>4. CASE ~idle
      <3>1. PICK name \in Names : FollowsFile(name, k)
        BY <1>1, <2>4 DEF Faithful, Reading, Under, Silent, Asked, Passed, Unread, FollowsFile, Replays
      <3>2. CASE heard = <<>>
        <4>1. heard = Piece(wanted, 0, 0) /\ 0 <= Len(wanted)
          <5> HIDE DEF wanted, heard
          <5> QED
            BY <2>1, <3>2, EmptyPiece
        <4>2. 0 \in Nat /\ 0 <= 0
          OBVIOUS
        <4> QED
          BY <2>2, <2>4, <4>1, <4>2
      <3>3. CASE Given(name, k)
        <4>1. Of(k).at \in Nat /\ Of(k).at <= Len(wanted)
          BY <1>1, <3>3 DEF Given, ReadOpen, Of, Files, FilesOK, Device
        <4>2. PICK from \in 0..Of(k).at : heard = Piece(wanted, from, Of(k).at)
          BY <3>3 DEF Given
        <4>3. from \in Nat /\ from <= Of(k).at
          BY <4>1
        <4> QED
          BY <2>2, <2>4, <4>1, <4>2, <4>3
      <3> QED
        BY <3>1, <3>2, <3>3 DEF FollowsFile, ToOpen, Elsewhere
    <2> QED
      BY <2>3, <2>4
  <1>2. DecodersTyped /\ Files /\ Faithful => ReplayIsFaithful
    BY <1>1
  <1>3. Spec => []Faithful
    BY FaithfulAlways
  <1> QED
    BY <1>2, <1>3, DecodersAreTyped, FilesAreOK, PTL
=============================================================================
