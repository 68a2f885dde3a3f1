# A verification of nfc-laboratory

nfc-laboratory captures NFC traffic with a software radio and ISO 7816 traffic
with a logic analyser, decodes it live, records and replays it, and shows it in a
Qt window. This directory holds TLA+ models of its concurrent core, TLC
configurations that check them on small instances, and TLAPS proofs of what holds
for every instance. Paths below are relative to `src/src/`.

## 1. The system

The program is one process. `rt::Executor` owns a pool of threads; each of
eight `rt::Worker` tasks occupies one of them for the whole run and repeats its
`loop()`. Tasks never call each other. They talk through

* **command queues**: `Subject<Event>` named `<task>.command`; the subscriber
  appends to the queue of the task, the task takes one command per `loop()`;
* **subjects** (`rt::Subject`): `next(value)` calls every observer *on the
  thread of the publisher*; a retained value is replayed to later subscribers;
* **callbacks in commands**: `resolve()` and `reject()` run the callback of the
  sender on the thread of the task that answers.

So one publication on a receiver's thread runs code of the decoder task, the
recorder, the Fourier task and `QtControl`, and reads their state unlocked.

### Components

| component | source | state | operations | what makes it correct | model |
|---|---|---|---|---|---|
| thread pool, worker | `nfc-lib/lib-rt/rt-lang` `Executor`, `Worker`, `BlockingQueue` | two queues, `shutdown`, condition variable, per worker `terminated` and `aliveMutex` | submit, exec, terminate, run | a task runs once and in one thread; closing ends | **`Executor`** |
| subjects | `rt-lang` `Subject.h`, `Finally.h` | observers with an index, retained value | next, subscribe, finisher | each subscriber gets each value once, in order, and is up to date | **`Subject`** |
| radio receiver task | `lab-tasks` `RadioDeviceTask` | enabled, status, device, `signalQueue`, commands | Start, Stop, Pause, Resume, Configure, refresh, processQueue | every stream is published whole and ended | **`RadioDeviceTask`** |
| radio driver | `hw-radio` `AirspyDevice` | handle, callback, paused, counters | open, start, stop, pause, resume, close, process_transfer | the callback is there exactly while a stream can deliver | **`AirspyDevice`** |
| radio decoder task | `lab-tasks` `RadioDecoderTask` | enabled, status, `radioSignalQueue`, commands | Start, Configure, signalDecode, raw callback | decodes one stream per session, without gap | **`RadioDecoderTask`** |
| logic receiver and decoder tasks | `lab-tasks` `LogicDeviceTask`, `LogicDecoderTask` | as the radio tasks | as the radio tasks | as the radio tasks, across a pause that drops a begun buffer | **`LogicDeviceTask`**, **`LogicDecoderTask`** |
| logic drivers | `hw-logic` `DSLogicDevice`, `SipeedLogicDevice`, `hw-dev` `Usb` | status shared by two threads, transfers in flight, begun buffer | start, stop, pause, resume, close, the transfer callbacks | no transfer is lost, the header reaches the transfer made for it, and what failed is ended | **`DSLogicDevice`** |
| QtControl | `app-qt` `QtControl` | flags and name of each device, settings | decoderControlEvent, status handlers, startDecoders | its flags follow the tasks | **`QtControl`** (radio half), parts in `LogicDeviceTask`, `Recording`, `TraceWindow` |
| window | `app-qt` `QtWindow` | shown status, buttons, acquisition timer | toggle*, status events, updateActions | shows what is, offers what can be done | **`QtWindow`** (radio half), **`TraceWindow`** (files and ranges) |
| plots | `app-qt` `RadioWidget`, `LogicWidget`, `AbstractPlotWidget` | points, range | append, clear | the range is that of the points | in `TraceWindow` |
| recorder | `lab-tasks` `SignalStorageTask` | status, two queues, two files | Read, Write, Stop, raw callbacks | a file holds one stream, whole and with its length; a replay gives it back | **`SignalStorageTask`**, **`Recording`** |
| recording file | `hw-dev` `RecordDevice` | header, samples, mode | open, write, read, close | the header counts the body | **`RecordDevice`** |
| trace storage | `lab-tasks` `TraceStorageTask` | frame and signal caches, the file in hand | Read, Write, Clear | a saved trace can be loaded again, though the caches grow while it is written | **`TraceStorageTask`**, **`TraceCapture`** |
| resampling | `lab-tasks` `SignalResamplingTask` | last control point, points kept | process | keeps every edge, and never leaves a gap a trace file cannot hold | **`SignalResamplingTask`** |
| ISO 7816 decoder | `lab-logic` `Iso7816`, `IsoDecoder` | search state, protocol, frame status | nextFrames | frames are what reader and card said, typed, whatever is reset or broken off | **`Iso7816`**, **`IsoSession`** |
| Fourier | `lab-tasks` `FourierProcessTask` | window, status | process | numeric | not modelled |
| other radio drivers | `HydraDevice`, `RealtekDevice`, `MiriDevice` | as Airspy, two with worker threads | as Airspy | as Airspy | not modelled |
| NFC decoder | `lab-radio` | correlators, frame state per technology | nextFrames | frames and timing per ISO 14443, 15693, 18092 | not modelled |
| frames, CRC | `lab-data` | values | - | sequential | not modelled |
| parsers, views, filters | `app-qt` | last request, models | parse, views | presentation | not modelled |
| headless application | `app-rx` | command loop | main loop, status handlers | drives the same tasks | not modelled |
| logger, packages | `rt-lang` | log queue, tar | - | no effect on the rest | not modelled |

`PROJECT.json` lists the same components with their files.

### What is hard here

* *Interleaving*: the status of a decoder and of the recorder is read on the
  receiver's thread (`RadioDecoderTask.cpp:77`, `SignalStorageTask.cpp:86`) and
  used after other steps of its owner; the status of the logic analyser is written
  by two threads (`DSLogicDevice.cpp:485`, `1882`); the flags of `QtControl` are
  written by two task threads and read by a third.
* *Ordering*: the decoder starts the receiver, or the replay of a file, before it is
  itself `Streaming` (`RadioDecoderTask.cpp:170`, `LogicDecoderTask.cpp:168`); status events of two threads meet in the window; a
  replaced subscription is dropped after the new one was made (`Finally.h:73`).
* *Missed wake-ups*: the pool notifies without the mutex (`Executor.cpp:118`).
* *Partial failure*: a receiver is unplugged at any moment; commands without a
  device are dropped silently.
* *Stale state*: `QtControl` compares device names that lag by one status; a file
  left open from the recording before; a protocol that outlives its frame.
* *Liveness*: a stop ends only when a flush has passed two queues and a check, a
  replay only with a short read, a close only when every transfer is back.
* *Atomicity*: a trace is saved in two walks over a list another thread appends
  to (`TraceStorageTask.cpp:656` and `717`).
* *Field widths*: a trace file has one byte for the distance of two points and 16
  bits for the difference of two samples; the resampling task must leave no gap
  that does not fit, in a buffer and across two.

`PROJECT.json`, "hazards", has them all, line by line, with the property that
watches each.

## 2. Modules

    Executor ------------ ExecutorProofs          SignalBuffer
        MCExecutor                                  |        |
                                             AirspyDevice   QtControl
    Subject ------------- SubjectProofs             \       /  |   \
        MCSubject                            RadioDeviceTask   |    QtWindow
                                                     \  RadioDecoderTask /
    CaptureSession (abstract) <== refined by ===== RadioCapture
                    ^^                             MCRadioCapture, RadioCaptureProofs
                    ||
                    refined by  SignalBuffer <- DSLogicDevice <- LogicDeviceTask
                    ||                                              |  LogicDecoderTask
                    ==================================== LogicCapture
              MCLogicCapture, LogicCaptureProofs

    SignalBuffer <- RecordDevice <- SignalStorageTask <- Recording -- RecordingProofs
                                                         MCRecording

    SignalResamplingTask <- TraceStorageTask <- TraceWindow <- TraceCapture
            |                                                   |     MCTraceCapture
    SignalResamplingProofs  <-------------------------- TraceCaptureProofs

    Iso7816 <- IsoSession <- MCIsoSession, IsoSessionProofs

Every module declares the state it owns and writes one action per handler or
per step between two accesses to shared state. The modules that compose
(`RadioCapture`, `LogicCapture`, `Recording`, `TraceCapture`, `IsoSession`) have a
disjunct of `Next` per thread, which conjoins a step of a component with
`UNCHANGED` for the others. A definition whose comment begins with "changed:" is
not part of a specification: it is a plausible mistake in the definition after it,
which a property must notice.

### `Executor`

One step is one access to a shared object. A pool thread `t` is at `pc[t]`
inside `Executor::Impl::exec`: `top` tests `shutdown`, `get` takes from
`waitingTasks` (`GetTask`, `GetNothing`), `add` fills `runningTasks`, `run`,
`loop`, `stop` are `Worker::run` under `aliveMutex`, `finished` and `remove`
take the task off again, `idle` and `wait` lead to `threadSync.wait`, whose wait
set is the variable `threadSync`. The main thread submits each task
(`Submit`, `SubmitNotify`) and terminates (`Terminate`, `Drain`, `Interrupt`,
`AwaitWorker`, `NotifyAll`, `Join`, `ClearWaiting`). A worker's `loop()` that
returns true is a stutter; it may end (`LoopEnds`) or throw (`LoopThrows`).
Spurious wake-ups are allowed. `Worker::wait` and its `notify` are left out:
they have a timeout and only shorten a pause.

### `Subject`

`next` is `Publish` (copy the observers under the lock), one `Deliver` per
observer of the copy without the lock, `Retain`. `Subscribe` adds an observer
and replays the retained value; the `Finally` it replaces then removes the old
observer by index (`DropOld`), a step later, as in `Finally::operator=`.
`QtControl` (the constant `Renewer`) subscribes again at each start-up or reload;
every other holder subscribes once. `startApp` constructs the tasks, which
subscribe in their constructors, before `QtControl` handles the start-up
(`main.cpp:177`): `MaySubscribe`. In any other order an index that was given out
twice would remove somebody else's observer at the fourth subscription. Nobody
calls `error` or `close`, and destruction at exit is left out.

### The radio acquisition

* **`SignalBuffer`**: a buffer is its stream and its offset in that stream;
  the default constructed buffer, which is not valid, is the end of a stream.
* **`AirspyDevice`**: methods are functions on the record of the driver object
  (`StartRx` for `start`, and so on); `Transfer` is the callback of libairspy on
  its own thread; `Unplug` and `Plug` are the receiver coming and going.
  `open()` of a receiver that is on the bus is assumed to succeed.
* **`RadioDeviceTask`**: `dpc` is the place in `loop()`: take a command,
  refresh, publish one buffer. Publishing is a sequence of steps, since the
  decoder's callback runs inside it (`DeliverRaw`, `EnqueueRaw` in
  `RadioCapture`). `updateDeviceStatus` publishes to
  `QtControl::radioDeviceStatusChange`, which is part of the same step.
* **`RadioDecoderTask`**: `cpc` is the place in `loop()`. `StartDecoder`
  resolves the command, which posts Start to the receiver, and only
  `DecoderStreaming` sets the status, as the code does.
* **`QtControl`**: the handlers of the GUI thread take the event at the head of
  `events`; the status handlers run in the steps of the two tasks; `StartDecoders`
  is the callback of Clear on the storage thread. The flags it reads are taken
  in one step. The storage task itself is reduced to that answer.
* **`QtWindow`**: buttons, the acquisition timer (`ToggleStop` is enabled while
  `acquireTimer`), the switches, `updateActions`. `asked` is a history variable:
  what the user waits for.

Left out: tuner parameters and gain values, the stream of IQ samples, the
recorder's variant of Start, Query, Clear and the decoder's Stop (which
`QtControl` never sends), the contents of frames.

### The logic acquisition

* **`DSLogicDevice`**: `driver` is the object with its `deviceStatus`, `fpga` the
  analyser, `bus` the transfers in flight in the order of their submission, `usb`
  the event thread of `Usb` inside a callback. The callback of the header
  (`HeaderBack`, `HeaderDone`) sets the status twice, as `usbProcessHeader` does;
  the one of a data transfer is `DataBack` (with `Deliver` for `interleave`),
  `Handle` for the stream handler and `Resend`. A transfer may end within a buffer:
  `driver.partial` is the begun buffer, which `currentSamples` counts already and a
  resume drops (`dropped` is the history of that). `Halt` is the stop command with
  the loop that cancels; a transfer whose callback runs is not in flight and is
  missed by it. `Begin` and `Acquire` are the two parts of `start` and `resume`.
* **`LogicDeviceTask`**: `lpc` is the place in `loop()`, with stops between the
  parts of a driver call the event thread can get into: `acquire`, `acquired`,
  `stopping`, `pausing`, `close`, `closing`. `control` is what `QtControl` and the
  window show; `LogicDeviceStatusChange` is part of the step that publishes.
* **`LogicDecoderTask`**: `StartDecoder`, `DecoderStreaming`, `DecodeBuffer` and
  `FinishDecoding` as in the radio decoder; it stays enabled.
* **`LogicCapture`**: the user, whose requests reach the queues at once.

Timing enters in three guards. `FailBack`: the time-out of a transfer is longer
than a start takes. `PublishEnd`: the 50 ms it waits for the queue are longer
than a callback runs and a cancelled transfer takes to come back. `Halt`: the
command that stops the analyser needs the event thread, so it does not complete
while the header callback runs. Left out: registers, firmware, FPGA setup,
triggers, device parameters, `SipeedLogicDevice`.

### The recorder

* **`RecordDevice`**: a file is its samples and the length its header tells; `Closed`
  is the only operation that brings the header up to date, with the length in 32 bits
  (`SizeModulus`) and only on a stream that has not failed. A read of a file opened for
  writing fails it, and so does a write to one opened for reading, and a short read
  (`failed`): from then on nothing is read, written or sought.
* **`SignalStorageTask`**: `rpc` is the place in `loop()`; `ReadStorage`,
  `WriteStorage` and `CloseStorage` are the three commands, `ReadOne` and
  `WriteOne` a pass over one of the two devices. File names have the second as
  their finest part: `now`. `alive` becomes false where the code dereferences null.
* **`Recording`**: receivers and decoders reduced to their streams and sessions, the
  callbacks in the order of subscription (the decoder's, then `Offer` and `Add` of
  the recorder), the cleared trace storage that starts a recording, the decoders or
  a replay, and a user who records, stops and opens. A decoder resolves its start
  command, which posts Start to the receiver or Read to the recorder
  (`StartDecoding`), before it is Streaming (`DecoderStreaming`); what is published in
  between it does not hear.

Left out: a file that cannot be opened or created, sample formats. Both decoders
are enabled.

### A capture on its way to a trace file

Each of these modules extends the one before it, adds the state of its component
and leaves the rest to `TraceCapture`, whose actions are steps of one thread each.
Times are sample numbers.

* **`SignalResamplingTask`**: one step scans one sample (`ScanLogic`,
  `ScanRadio`); `Take*` stores the first sample and, for radio, lets the loop
  look at it again, as the code does; `Flip` stores the last one. Whether a radio
  sample leaves the moving average is a free choice, so the properties hold for
  every filter. `samples` is a history variable: what was scanned, and which
  samples had to be kept. One logic channel is modelled; the loop treats each
  alone. `TellStorage` and `TellControl` are the two observers of
  `adaptive.signal`, in the order of their subscription.
* **`TraceStorageTask`**: `job` is where `loop()` is inside a command. A save
  chooses frames and the truncated range (`Write`; `Truncated` lets the product
  of rate and time end one sample early), counts (`CountBuffer`), writes the
  header (`WriteHeader`) and the points (`WriteBuffer`), one buffer a step, so
  that the caches may grow between any two. A load (`Read`, `ReadChunk`) decodes
  chunk by chunk. `Encoded` and `Decoded` are the delta codec with the widths of
  its fields.
* **`TraceWindow`**: `SignalBufferEvent` is the handler with `append` of the plot
  and `syncDataRanges`; `Save`, `ClearView` and `OpenFile` post the commands that
  `QtControl` sends, the read as the continuation of the second clear. The range
  (0, 1E-6) of an empty plot is the sample 0.
* **`TraceCapture`**: the receiver, the decoder (which may find a frame before its
  signal is resampled), the resampling task, the storage, the window, the user.

Left out: JSON, tar and errors of file input and output, the limit of entries of a
plot, a second channel, and a file opened while the resampling task still has raw
buffers of the capture (`Drained`; it mixes two streams, see the hazards).

### ISO 7816

* **`Iso7816`**: `loop` is which of the two loops of `nextFrames` runs, `mode` is
  `searchModeState`, `frame` the `frameStatus`, `output` what the last step has
  added to the list of frames. `Character`, `Silence`, `GoesLow`, `GoesHigh` and
  `BufferEnds` are what the lines can bring. A byte is known by what the decoder
  tells apart (`Classes`): a byte of a payload may look like any procedure byte.
* **`IsoSession`**: reader and card, which are not part of the repository and keep to
  ISO/IEC 7816-3: they say whole units (an answer, a selection, an exchange of T=0,
  a block of T=1 with an LRC; `IsAnswer`, `IsExchange` and `IsWhole` say which texts are ones),
  repeat a character whose parity was signalled, break a block off,
  and reset at any moment; a deactivation lowers RST first, then I/O, then the
  supply; an answer has at most 32 bytes; check sums are right.

Left out: bit timing, the detection of the clock and of the convention, the checks of
parity, LRC and CRC, and blocks of T=1 that end with a CRC. A card asks for those in TC3;
`processATR` only logs it (`Iso7816.cpp:1128`), so that `isBlock` counts one byte of
epilogue (line 1551) and ends such a block a byte too early.

### `CaptureSession`, the abstract specification

What a reader of the decoded frames may rely on: while a session is open, the
samples decoded are of *one* stream, one that was started *after* the session
was, in order and without a gap. `RadioCapture` implements it with
`open <- radioDecoderStatus = "Streaming" \/ cpc = "starting"` and
`last <- decoded`; `LogicCapture` in the same way, with the offset of `decoded`
reduced by the buffers that a resume has dropped before it (`Position`).

## 3. What the runs check

| run | cfg | question | result |
|---|---|---|---|
| `executor` | `MCExecutor` | 3 threads, 2 tasks: is a task run by one thread at most, is `aliveMutex` what `Worker::terminate` takes it for, does the join leave nothing, do workers and a settled pool end | holds, 153,674 states |
| `executor_shutdown` | `MCExecutorShutdown` | does `terminate` always return | **violated** (finding 1) |
| `subject` | `MCSubject` | 2 publishers, 2 holders, one subscribing four times: does every holder observe, in order, up to date | holds, 836,291 states |
| `capture` | `MCRadioCapture` | two radio acquisitions with stop, pause, resume and two on/off switches: `NoTailLost`, `WindowTellsTruth`, `NoOrphanSession`, refinement of `CaptureSession`, every request answered, every flush ends | holds, 123,824 states |
| `unplug` | `MCRadioUnplug` | one radio acquisition, the receiver removed and plugged again at any moment: refinement, window, end of session | holds, 941,278 states |
| `radio_stop` | `MCRadioStop` | does Stop finish decoding, with a removal | **violated** (finding 2) |
| `logic` | `MCLogicCapture` | a logic acquisition with a pause, a switch or a removal, and transfers that may end within a buffer: refinement of `CaptureSession`, no error of a header callback that lasts (`HeaderErrorPasses`), `WindowTellsTruth`, every transfer comes back (`TransfersReturn`), a stop and a removal end the session (`StopEndsSession`, `RemovalEndsSession`) | holds, 294,494 states |
| `logic_header` | `MCLogicHeader` | is an analyser that runs taken for a disconnected one (`RunningStaysConnected`) | **violated** (finding 4) |
| `recording` | `MCRecording` | two acquisitions, recorded or not, and a recording opened in between: does a file hold one stream (`OneStreamPerFile`) that was wanted (`OnlyWantedIsRecorded`), does its header get its length (`HeaderIsWritten`), is it kept (`FinishedIsKept`), is one piece of it decoded, up to its end, when it is replayed (`ReplayIsFaithful`), does a replay end whose decoder is Streaming in time (`ReplayEnds`) | holds, 234,637 states |
| `record_radio` | `MCRecordRadio` | does the program survive the end of a radio recording (`RecorderLives`) | **violated** (finding 3) |
| `trace` | `MCTraceCapture` | a capture of two buffers, logic or radio, saved while it grows, cleared and loaded again: do the distances fit (`GapsFitByte`, `CacheGapsFitByte`) and the points (`PointsFitBuffer`), is every edge kept (`EdgesKept`), does the header count the body (`HeaderCountsBody`), does "Save all" take all of a logic signal (`LogicSaveAllCovers`), does the file hold the selection (`FileHoldsSelection`), does a load give it back (`LoadYieldsFile`) | holds, 1,440,546 states |
| `iso7816` | `MCIsoSession` | are the frames of the list the units that were said (`FramesAreUnits`) | holds, 65,512 states |

### Bounds

* `Threads`, `Tasks`: three threads and two tasks give an idle thread beside two
  running ones, two sleepers for one task, and a thread that finishes and takes
  the next. The program has ten threads and eight tasks; each thread and each
  task interacts only through the two queues, so no situation needs a third.
* `MaxStarts`: two acquisitions, so that left-overs of the first can meet the
  second; one in `unplug` and in `logic`. `MaxBuffers`: two buffers per stream, the least
  that has an order and a gap; of a logic stream two transfers, which may begin a buffer,
  complete one, or both.
  `MaxUnplugs`: one removal; the receiver may be plugged again.
* `MaxEvents` 1 of the radio acquisition: the refresh reports a status and the user
  asks only while no event waits for the GUI; the threads themselves post without
  limit. `MaxEvents` 1 of the logic acquisition: one pause, use of the switch or
  removal.
* `Transfers` 2: one can be in a callback, or come back cancelled, while another is
  in flight. With one acquisition the liveness properties, which take the time, are
  checked with begun buffers too; a pause and a resume arm the analyser twice. A second
  acquisition starts when all transfers of the first are back (`Waits`). With two the
  safety properties hold in 1.9 million states (three transfers per stream), the liveness
  ones with whole buffers in 330,249, and in 6.5 and 5.4 million with `MaxEvents` 2; the
  safety properties are proved for any number.
* `MaxSwitches`: how often the acquisition or the decoder is switched.
* `MaxSubscriptions` 4: the third replaces a second, whose index can then be in
  use twice, and the fourth removes what has that index. `MaxValues` 2 per
  publisher: the least that has an order. Three holders with three and with four
  subscriptions hold in 8.7 and in 15.3 million states.
* `Patient` TRUE, and `Underway` in the logic acquisition and the recorder: the user
  waits until a request shows before the next one. The acquisition timer is taken
  to be longer than that wait.
* `Waits` TRUE: a logic stream is started, or resumed, when the transfers of the last
  one are back, 5 s at the most. Otherwise the header of the new stream may come in
  a transfer of the old one, and `HeaderErrorPasses` fails. `StopsPaused` FALSE: what
  is paused is resumed before it is stopped (see "Also seen").
* `unplug` starts once. With two starts *and* a removal, buffers still in
  `signalQueue` when the end of the stream was published for a removal
  (`RadioDeviceTask.cpp:233`) can follow it into the next session, and
  `NoTailLost` no longer means much because the driver's counters start again
  when it is reopened. It is listed as a hazard.
* `SizeModulus` 3: a length that does not fit is the third unit; with `MaxUnits` 2 every
  stream fits, so `HeaderIsWritten` says something of each of them.
* `MaxSeconds` 1: two recordings in one second and in two. `ReadLength` 2 and
  `MaxUnits` 2: a file as long as a read, whose end takes another one, and shorter
  ones. `Fitted`: a logic or a radio receiver; both at once only make the two files
  independent. `RemovesRunning` FALSE: a receiver is removed while it does not stream
  and nothing is under way, but perhaps while a file is replayed; with TRUE what is
  still queued at the removal reaches the next recording, and the recorder goes on
  writing. `StopsReplay` FALSE: a replay is left to end. For both see "Also seen". With
  `MaxStarts` 3 the properties hold as well, in 1,327,212 states.
* `Interval` 2 and `DeltaModulus` 3 keep the relation of 255 and 256: a distance
  of `Interval` still fits, one more wraps. `BlockLength` 3: a gap that ends by a
  deviation, one that ends by the interval, one that ends with the buffer, and one
  that spans two buffers. `ChunkPoints` 2: a file of more than one chunk, whose
  cut falls inside and between buffers. `SampleModulus` 4 with the radio levels 3
  and 1: differences that wrap. `MaxBuffers` 2, `MaxCommands` 2: a save during the
  capture and then a load, a clear or another save.
* In `trace` the user selects in the plots or not at all (`SelectFrames` FALSE):
  what is shown is cached already.
* `FileHoldsSelection` speaks of saves that start near a cached point (`Anchored`): a
  range that starts far before one has a first distance of more than a byte, which
  the hazards list.
* `ATRs`, `Exchanges`, `Blocks`: answers with up to two levels of interface bytes and
  with or without historical and check bytes, payloads of up to two bytes of every
  class, acknowledged at once or byte by byte, with and without waiting bytes.
  `WarmResets`, `PlainPPS` and `ImplicitT1` FALSE: each of them TRUE makes
  `FramesAreUnits` fail (see "Also seen").

### Fairness

`WF` of each thread (pool threads and main; receivers, decoders, recorder, storage
and GUI thread, the event thread of `Usb`): the operating system schedules them,
none blocks on another except where the model says so, and a transfer in flight
comes back, if only by its time-out. `SF` of the refresh (`RefreshStep`; `Due` and
`Refreshed` of the logic receiver): `loop()` refreshes once a second as long as it
passes that point again and again, which a pass without a refresh does not prevent
for ever. `TraceCapture`, `Subject` and `IsoSession` have safety properties only and
assume no fairness. Nothing is assumed of the user, the acquisition timer, the
removal of devices, spurious wake-ups or a worker's decision to end: the liveness
properties hold without them.

### Deadlock

All cfgs but `MCIsoSession` switch the deadlock check off: the bounded user,
receiver and publishers may have nothing left to do, and a terminated executor is
finished. Reader and card can always go on.


## 4. What is proved

`ExecutorProofs` proves for every finite set of threads and every set of tasks
(the only assumptions: `Threads` finite and not empty, `NoTask` is no task)

* `TypeCorrect`: `Spec => []TypeOK`;
* `TaskIsExclusive`: `Spec => []ExclusiveTask`, a task is with one thread;
* `MutexTellsRunning`: `Spec => []MutexMeansRunning`, `aliveMutex` is held
  exactly while a thread is inside `Worker::run`;
* `JoinLeavesNothing`: `Spec => []QuietAfterJoin`.

None of the three safety invariants is inductive. `Inv` adds `Placed` (a task is
unsubmitted, waiting at one place, or with one thread: without it a submit could
duplicate one), `Sleepers` (the wait set holds only threads in `wait`: without it
a joined thread could still sleep) and `Joined` (nobody leaves `exit`). There is
one lemma per kind of step: `QuietStep` covers every move of a thread that
changes neither its hold on a task nor its being in `run`.

`SubjectProofs` proves for every set of publishers and of holders, and any number of
values and subscriptions

* `NobodyIsDropped`: `Spec => []EveryHolderObserves`, who has subscribed is observed
  through the subscription it has made last;
* `CalledInOrder`: `Spec => []InOrder`, a subscription is called with the values of each
  publisher in their order, each once;
* `EverythingArrives`: `Spec => []CaughtUp`, when nobody publishes every subscription
  has received all that was published since it was made, and the value retained;
* `TypeCorrect`: `Spec => []TypeOK`.

`subscribe` gives out indices by the number of observers, so an index may be in use
twice, and `RemoveObserver` takes the first. `IInv` says why that never meets
somebody else: the tasks subscribe first and keep their places, which are their
indices (`TasksStay`), and the entries of `QtControl` are the last ones
(`ControlIsLast`), the old one before the new one. `FirstIsRemoved` is what erasing
the first observer with an index leaves. `Delivery` follows the copies that `next` takes
of the observers: a copy holds each subscription once and none that is still to be made
(`Copy`), and a subscription has been called with every value since it was made but for
the one of a copy it is still in (`Told`). What the calls deliver is counted
(`Cardinality` of a set of positions), which needs no induction over the sequence.

`RecordingProofs` proves for every length of a read, every number of streams, buffers
and seconds, and whatever receivers are fitted, with both at once,

* `FinishedStays`: `Spec => FinishedIsKept`, a finished file changes only by a
  recording that starts in the second of its name.

The strengthening types what a command and a buffer carry (`CommandsTyped`,
`BuffersTyped`), and then says of the files (`Files`) that each of the two devices
has a file of its own kind in hand, so that none is open twice, that a file which
exists is not empty, and that nothing has failed on a file open for writing (`Sound`).

While no receiver is removed (`MaxUnplugs = 0`) it proves further

* `HeadersAreWritten`: `Spec => []HeaderIsWritten`, a file that is not being written
  has its length in its header, if the length fits its 32 bits: what is open for
  writing is then never read, so each file is being written or has its header
  (`Headed`);
* `RecordingsAreWhole`: `Spec => []OneStreamPerFile`, a file is a piece of one stream
  without a gap;
* `NothingElseRecorded`: `Spec => []OnlyWantedIsRecorded`, and of a stream that was
  wanted in it;
* `ReplaysAreFaithful`: `Spec => []ReplayIsFaithful`, a decoder hears one piece of the
  file it was started for, from what is read once it is Streaming up to the end, if
  nobody stops a replay (`StopsReplay` FALSE). That the piece is the whole file is not
  so: see "Also seen".

The hypotheses are those the program needs: "Also seen" tells what a removal does to
the first three, and a stopped replay to the last. The status of the
recorder is read without a lock before a buffer is queued, so nothing about one file
can be said without the receivers. `One` has four parts. `Streams`: a receiver at rest
has sent its last buffer, and the one on its way, if any, is the end of the stream.
`Acquisition`: while the recorder writes or is going to, what was started is `Ordered`,
`Going` or `Stopping`, which includes that nothing of an earlier stream is on its way
when Write clears the queues, and that the only command to come is the Stop. `Lines`:
then the file, the queue and the buffer in the callback of one kind are one piece of
the stream the receiver sends, and nothing is left of the stream before. `Pieces` says
the two properties of the files. `Faithful` follows a replay: until a file is opened
nobody reads or replays (`Silent`); from then on no receiver runs and nobody records
(`Resting`), and the file is asked for (`Asked`, `Passed`), to be opened (`ToOpen`),
heard as far as it has been read from where its decoder became Streaming (`Given`), or
read for the other decoder or too soon for this one (`Elsewhere`). `Heards` keeps of a
replay which is over that it was heard up to the end. What is heard is a `Piece` of the
file; that the part read next lengthens it is `NextPiece`, and that a piece is the
beginning of the rest of the file `PieceOfRest`.

`LogicCaptureProofs` proves for every number of transfers, acquisitions, pauses, uses of
the switch and removals

* `TypeCorrect`: `Spec => []TypeOK`;
* `HeaderErrorsPass`: `Spec => []HeaderErrorPasses`, when no callback runs an analyser
  that runs and is there is not in error, because its header comes back in the transfer
  made for it, if a stream starts when the transfers of the last are back (`Waits`) and
  has at least two of its own. Of the moment in which the header callback runs it says
  nothing: see finding 4;
* `TruthShown`: `Spec => []WindowTellsTruth`, whenever nothing is on its way and no
  stream runs the window shows the name and the state of the analyser.

`usbProcessHeader` sets the error before it looks at the header, so the property needs
to know which transfer comes back when. `Hardware` follows a stream through its stages:
armed, with the header transfer first and the others whole (`Fresh`); running with the
header owed; running with transfers of data only (`Flowing`), one of them perhaps in a
callback. A stream only gets there if nothing of an earlier one is in flight when it is
asked for, which takes the rest of `Inv`: a command is asked for once and only when no
other stream is (`Requests`), who waits for a new stream waits on a dead one
(`Awaited`), and a paused device shows as paused, so that the user does not take it
for a stopped one (`Shown`). Type correctness itself needs `Begun`: the count of
samples that `interleave` steps back from is positive when a buffer has been begun.
The window is right because every change of the task's status is followed by a report
(`Told`): in the middle of a turn of its loop one is to come (`Midway`), a status that
brings another name than the window has puts a Configure in the queue, and that is
reported too (`ShowsSwitch`, `ShowsDevice`). The thread of libusb only ever sets an error
or `DATA` (`EventThreadTells`), which are not states the device rests in (`Resting`).

`LogicCaptureProofs` proves also, under the same two conditions,

* `DecodesInOrder`: `Spec => ImplementsSession`, the logic acquisition refines
  `CaptureSession`.

The refinement needs an order on all samples between the analyser and the decoder, which
`Order` adds to `Inv`. `Before` says that everything on its way is of the stream that was
started last, `Upstream` and `Downstream` that each queue is in order (`Line`) and that
what is last in one is followed by what comes next out of the one before it (`HeadD`,
`HeadQ`, `HeadR`, as long as more comes: `Linked`, `MoreQ`, `MoreR`). Two samples follow
one another when their places in the stream without the dropped samples do (`PlaceOf`,
`Follows`), so a resume that drops the buffer the driver had begun lets the next one take
its place (`PlaceGone`). A session begins on an empty queue with a stream that is dead
(`Starting`, `Unstarted`), which is where a buffer of the last session would otherwise
be decoded. `Movements` sorts the steps by what they do to the next samples and `Passages`
by what they do to those on their way; `SessionStep` maps each to a step of
`CaptureSession` or to none.

`RadioCaptureProofs` proves for every number of acquisitions, switches, buffers and
posted events, of a radio acquisition

* `TypeCorrect`: `Spec => []TypeOK`, removals and hasty users included;

and, for a user who waits until a request shows (`Patient`) and a receiver that stays
(`MaxUnplugs = 0`), as in the run `capture`,

* `TailDecoded`: `Spec => []NoTailLost`, when the end of a flushed stream is next,
  everything the receiver has delivered has been decoded;
* `TruthShown`: `Spec => []WindowTellsTruth`;
* `SessionsEnd`: `Spec => []NoOrphanSession`;
* `DecodesInOrder`: `Spec => ImplementsSession`, the radio decoder refines
  `CaptureSession`.

Neither condition can be dropped: without `Patient` a second Listen, clicked before the
first shows, opens a session on a stream that runs already, and TLC refutes
`ImplementsSession`, `NoOrphanSession` and `NoTailLost` (of `WindowTellsTruth` it finds no
counterexample in 38 million states); for removals see `unplug` under "Bounds".
All four follow from one `Inv`. A patient
user has one request under way, so it *is* somewhere: posted to the GUI thread, with the
storage task (a start clears it first), in the queue of the decoder or of the receiver,
or carried out (`AtGui`, `AtStorage`, `AtDecoder`, `AtDevice`, `Nowhere`; in the queues
there may be reports of status and forwarded configurations beside it, which change
nothing). `Stages` relates the place of each request to what the receiver (`Resting`,
`Live`, `Flushing`) and the decoder (`Shut`, `Opening`, `Fresh`, `Listening`,
`Finishing`) do meanwhile: only in `Starts` and `Stops` do they differ. A decoder that
listens has in its queue the buffers before those with the receiver, the last decoded one
before its own (`Upstream`, `Downstream`), so that the end of the stream is behind them
all. `Stories` is why the window does not end up with a stale status: from what it shows
to what is, the posted reports run through the statuses of the request in order
(`Leads`), and the last status there is has been posted or shows already. `Buttons` says
what the timer, the two acquisition buttons and the pause button have to do with it: a
request is made only in a stage that expects it. There is a lemma per step; the steps
that nobody notices keep all places and phases (`PlacesKept`, `PhasesKept`, `StageLasts`,
`QuietSteps`).

`SignalResamplingProofs` proves for every buffer length, every interval and every
choice of samples and deviations (both constants positive)

* `DistancesFit`: `ResamplerSpec => []GapsFitByte`;
* `NoEdgeLost`: `ResamplerSpec => []EdgesKept`;
* `RoomSuffices`: `ResamplerSpec => []PointsFitBuffer`.

The strengthening `Inv` says that the last point kept *is* the control point, with
the value of the sample there, and at most `Interval` behind the scan
(`AtControl`); without it neither the distance to the next point nor the level up
to it is known. A finished buffer ends near its end (`EndsNear`). `Room` counts
points against the control point: a step that adds two moves it by two.
`HoldsSample` and `HoldsPoint` are the two ways a logic level stays right,
`EdgesAppend` and `NearAppend` what another point does.

`TraceCaptureProofs` proves that a capture implements the resampling task
(`CaptureResamples`, `Spec => ResamplerSpec`: nobody else writes its state) and so
`CaptureDistancesFit`, `CaptureNoEdgeLost` and `CaptureRoomSuffices` for the whole. Of
the storage and the window it proves, for blocks, chunks, intervals and captures of any
length, any number of saves, clears and loads, and every choice of samples, if the user
does not select by the row of a frame (`ASSUME ~SelectFrames`; with it
`HeaderCountsBody` is false, see section 5),

* `HeadersTrue`: `Spec => []HeaderCountsBody`, a header announces what follows it;
* `SavesAreFaithful`: `Spec => []FileHoldsSelection`, a finished save stands for the
  points of its range;
* `LoadsAreFaithful`: `Spec => LoadYieldsFile`, a loaded cache holds what the file stands
  for;
* `CacheFitsByte`: `Spec => []CacheGapsFitByte`, neighbours in the cache fit their byte;
* `LogicIsCovered`: `Spec => []LogicSaveAllCovers`, "Save all" covers the logic signal.

They follow from `CaptureInvariance`: `Spec => []CaptureInv`. Why does a save survive a
cache that grows under it? Because until the capture is over nobody can ask for signal
the storage has not been told of (`Ahead`): a range of the user's is one that was shown,
what is shown was posted, and what is posted was cached before (`TellStorage` comes
before `TellControl`). What is cached during a save therefore lies beyond its range
(`WithinBeyond`), and what the save has counted and written stays what its range holds
(`Saving`, `Coded`). `Chain` takes the gaps of a block, which `Inv` of the resampling
task knows, across blocks and chunks. `Loading` says how far a load has come in its file,
as sums over the entries before; it works because a chunk of a chunk is a chunk
(`PieceOfPiece`, `SumOfPart`) and a remainder of a sum may be taken on the way
(`RemainderOfSum`). `Covered` follows a cached point through the posted ranges into the
plot.

The values are sums, concatenations and selections over sequences of any length. The
library's induction takes a predicate as a parameter, which the provers cannot
instantiate; that the naturals are well-founded is a fact about *sets*, and from it
follow `Smallest`, `UpTo` (a set with 0 and with every successor holds all numbers up to
N), `Recursion` (what is built up step by step exists, and `SameSteps`: once) and
`EverySequence`. `Within` and `SumOf` are therefore recursive functions, not folds.
Of the constants is assumed `StorageAssumption`: the byte holds one more than the
interval, a sample has at least one value, chunks are not empty.

`IsoSessionProofs` proves for every set of well-formed answers, exchanges and blocks, of
any length that fits the decoder, if RST stays low past a buffer, a selection names PPS1
and T=1 is selected before it is used (`ASSUME ~WarmResets, ~PlainPPS, ~ImplicitT1`, see
section 5),

* `FramesTrue`: `Spec => []FramesAreUnits`, the list of frames is what was said;
* `ResetHeard`: `Spec => []ResetIsHeard`, when RST has risen the decoder waits for the
  answer.

One half is about the formats. The decoder tries them after every byte, so a frame is
right if the format holds of the whole text and of no shorter beginning: `AnswerKnown`,
`ExchangeKnown`, `BlockKnown`, `PPSKnown`. `isTPDU` and `isATR` walk through the bytes, each
step to a place that a byte names; that their recursive functions exist on texts of any
length is `Descent`, once more from the smallest element of a set of naturals. What the
walk finds behind a place is known from the last place backwards (`Furthest`): of an
exchange, that it ends with the status or outside of what has arrived; of an answer, that
it misses a byte, or finds another protocol than T=0 and misses TCK (`Tells`). The other
half is about the turns: `SessionInv` says that the decoder is in the state that expects
what comes next, from the lines down (`WhileDown`) to the turn of T=1 (`WhileT1`), and
holds in its frame the characters that have been said (`WhileAnswering`, `WhileTalking`).
The well-formed texts are an assumption about reader and card (`SessionAssumption`),
which TLC checks of those of the run; it needs a `MaximumInformationSize` in which a
selection has room.

Only model-checked: all liveness (fairness and `ENABLED` are out of the prover's reach);
captures with a selection by frame; the radio acquisition with a removal; the recorder
with a removal of an idle receiver, which `recording` checks.

## 5. Findings

1. **A close may hang** (`Executor.cpp:149`). `terminate` drains `runningTasks`
   once. A thread between taking a task (line 81) and listing it (line 85) is
   missed; so is a thread between its test of `shutdown` (line 112) and its wait
   (line 118), since `notify_all` is called without `syncMutex`. The join then
   waits for ever. `SettledShutdownCompletes` shows that a pool at rest closes.
2. **A stop may leave the decoder running** (`QtControl.cpp:452`). If the receiver
   is removed between Listen and the start of its stream, Stop sends nothing.
3. **The end of a radio recording ends the program** (`SignalStorageTask.cpp:500`).
   The message asks `logicStorage` for its name, which is null when only a radio
   receiver is recorded; the file keeps a header of no samples.
4. **An analyser that runs may be taken for a disconnected one** (`DSLogicDevice.cpp:1882`).
   `usbProcessHeader` sets the error first and `DATA` at line 1898; a refresh in between
   publishes an end of stream and closes the device, which the next refresh opens again.
   The same happens to an analyser that is stopped before its header has come: the header
   transfer comes back cancelled and leaves the error for good.

### Also seen

Each of these can be reproduced by one constant of the model, or was met while
reading; none has a run of its own.

Radio acquisition
* `Patient` FALSE, `FlushEnds` fails: a disabled receiver does not flush
  (`RadioDeviceTask.cpp:431`).
* Two starts and a removal: buffers still queued when the end of the stream was
  published follow it into the next session (`RadioDeviceTask.cpp:233`).
* `StoredGainAuto` TRUE: `std::get<int>` on a variant that holds an unsigned int
  throws and ends the receiver task (`RadioDeviceTask.cpp:663`).

Logic acquisition
* `StopCancelsAll` (what `DSLogicDevice.cpp:511` says, "cancel pending transfers for device
  {}") fails: a transfer whose callback runs is missed by the loop that cancels, and sent
  again if the callback looks at the status before line 517 sets it. `TransfersReturn`
  shows that it comes back in the end, with its time-out.
* `StopsPaused` TRUE, `StopEndsSession` fails: `stop()` of a paused device returns at once
  (`DSLogicDevice.cpp:496`, "if device is not started, just return"), the task flushes
  and the decoder ends, but the device stays paused and the window with it. The Sipeed
  driver does the same.
* `Waits` FALSE, `HeaderErrorPasses` fails: a header transfer that timed out, or was
  cancelled, sets the error of the *new* stream.
* `start()`'s `deviceStatus = START` may overwrite the error or the data the event
  thread has set meanwhile (`DSLogicDevice.cpp:485`), and the result of `start()` is
  not looked at. With one transfer (`totalTransfers()` is 1 in buffer mode), a START
  that falls between delivery and resend leaves the stream without transfers.
* `currentBytes` counts the buffer a resume drops.

Recorder
* `EveryReplayEnds` fails: the start command of a decoder is resolved, and Read posted,
  before the decoder is Streaming (`LogicDecoderTask.cpp:168`, `RadioDecoderTask.cpp:170`),
  and its callback drops what is published until then: the head of the file is not
  decoded, and if the end is among it the decoding never ends. The window is short; a
  recording of a few buffers is exposed most. `ReplayEnds` asks that the file, or a rest of
  it, is still to be read when the decoder is Streaming (`StillToRead`).
* `RemovesRunning` TRUE with both receivers, `HeaderIsWritten` fails: a removal may leave
  the radio file open for writing; when a logic file is opened then, the pass over the
  radio one reads it too, which fails the stream, and `writeHeader` of a failed stream
  does nothing (`RecordDevice.cpp:498`, `534`, `537`; `MaxStarts` 3, `MaxUnplugs` 2). The
  length is an `int` and 32 bits of a chunk: the header of a longer file is wrong.
* `RemovesRunning` TRUE, `OneStreamPerFile` and `OnlyWantedIsRecorded` fail: what is
  still queued when the receiver is removed reaches the next recording. Moreover its
  end of stream closes the file and ends the decoding, so that nothing is left to stop
  and Stop is never sent to the recorder, which goes on writing. Plugged in again, the
  receiver is recorded at the next Listen, although `doStartDecode` was given no file
  (`QtControl.cpp:411`, "if event contains file name and sample rate start recorder";
  19 states with `MaxStarts` 2). A removal between the start and the stream leads there
  too.
* `StopsReplay` TRUE: Stop during a replay goes to the receivers only
  (`QtControl.cpp:441`); the replay runs on. If another file is opened then, its decoder
  hears the rest of the first one and ends with it: after two recordings, a Listen and
  a stopped replay `ReplayIsFaithful` fails (`MaxStarts` 3, `MaxOpens` 2, `ReadLength` 1).
* A receiver removed during a replay publishes an end of stream, which ends the
  decoding of the file. A storage left over in read mode swallows a new recording.
* File names have the second as their finest part: a second recording within it
  truncates the first.
* A logic recording of at most two channels starts the radio decoder and is replayed
  on the logic stream (`QtControl.cpp:755`).

Traces
* `SelectFrames` TRUE, `HeaderCountsBody` fails: a selection by frame may end behind
  the cached signal; a buffer that arrives between counting and writing makes the
  entry longer than announced (`TraceStorageTask.cpp:656`).
* A saved logic selection loses its frames: frames and radio signal are moved to the
  start of the range, the logic signal is not (`TraceStorageTask.cpp:672`).
* "Save all" of a radio trace takes the range of the plot of the logic signals
  (`QtWindow.cpp:717`, `720`), which is brought up to date afterwards.

ISO 7816 (`WarmResets`, `PlainPPS`, `ImplicitT1`: each of them breaks `FramesAreUnits`)
* A warm reset that lies within one buffer is not heard.
* A PPS without PPS1 is typed as a request and not taken; an answer that offers T=1
  only implicitly is decoded as T=0.
* P3 = 0 of a T=0 command, which means 256, ends the exchange at once; an exchange
  beyond 254 bytes is cut at `maximumInformationSize`.
* An answer without historical bytes whose first levels name T=0 and go on is taken for
  complete at a TDi: `isATR` leaves its loop when no byte is behind TDi yet
  (`Iso7816.cpp:1467`), so `3B 80 80 01 01` becomes `3B 80 80` and the start of a command
  (`IsAnswer` leaves such answers out).
* A block of T=1 with a CRC ends at the first byte of it, and the second one begins the
  next frame: `errorCodeType` is never set (`IsWhole` leaves such blocks out).
* An unanswered block of T=1 turns the direction of the blocks after it.

## 6. Plan

Done, in this order: `Executor` with proofs; the radio acquisition and the abstract
session; `Subject` with a proof; the way of a capture to a trace file and back, with
the proofs of the resampling task; the recorder with proofs; the logic acquisition,
a second implementation of the session; ISO 7816 with proofs.

What a next step would take up:

1. the headless application around the radio tasks. Read already: it restarts a decoder with the time of the old stream, two
   passes that see "idle" both send Start, the second of which is refused and drops
   the stream's callback, and its JSON status is written by several threads;
2. the radio half of a removal during two acquisitions, once what is right there is
   settled: today what is left in `signalQueue` follows into the next session;
3. the frame state of the NFC decoder, and the pairing of request and response in the
   parsers, as `IsoSession` does it for ISO 7816;
4. proofs: the radio acquisition with a removal, once 2. is settled; the recorder with the
   removal of an idle receiver.

## 7. Not modelled, and why

* **Sample arithmetic** of the decoders and the Fourier transform: floating point over
  long signals, far from what TLC can enumerate; `TraceCapture` and `Iso7816` take
  what it decides as a free choice.
* **The NFC decoder**: its state lies in correlators over samples; what it hands on is
  a frame, a free choice in `TraceCapture`.
* **Other radio drivers, the Sipeed analyser**: the same calls as the two modelled,
  with other libraries below. `RealtekDevice` and `MiriDevice` have a worker
  thread of their own, which what is shown here does not cover.
* **Register protocols of the USB devices**: device specific and sequential.
* **JSON, tar and WAV**: formats of libraries. What is modelled of a file is what the
  code counts, orders and encodes itself.
* **Frames, check sums, parsers, views**: sequential functions of a value, which unit
  tests reach.
* **The headless application**: see the plan.
* **Logging and packages**: no effect on the rest.
