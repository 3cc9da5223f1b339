# Verification of sttserv

TLA+ models, TLC runs and TLAPS proofs for sttserv and the programs it grew out
of: the push-to-talk pipeline that captures audio, buffers it and hands it to a
speech model, the keyboard hook that drives it, the audio managers under it, the
model backends behind it, the stand-alone programs beside it and the accuracy
report of its tests. Paths are relative to the root of the repository, and
`unify.cpp` is `sandbox2/unifiedbackend/unify.cpp`, `async_key.cpp` is
`sttserv/source/async_key.cpp`.

## 1. The system

| component | state | operations | correct when |
|---|---|---|---|
| **capture pipeline** (`unify.cpp`, `unify.hpp`) | `ProgramContext`: atomics `m_exit`, `m_audioDataReady`, `m_inferenceBufReady`, `m_startStopFlag`, four counters; three mutex/condition pairs; `m_inferenceBuf`, `m_inferSliceBuf` | audio callback (producer), read thread (consumer), inference thread (worker), callbacks of A and Escape, `main` | no sample is torn, lost without being counted, duplicated or reordered; every hand-over is taken; nothing is destroyed in use; Escape ends the program |
| **sample ring** (miniaudio `ma_pcm_rb`, external) | read and write position | acquire/commit on either side | a bounded channel for one producer and one consumer |
| **keyboard hook** (`async_key.cpp`, `async_key.hpp`) | `m_running`, `m_exit`, `m_keyQueue`, `m_bindings`, two threads; on Linux `m_fd`, on Windows `m_producerID`, the hook handle and the thread's message queue | `create`, `destroy`, `bindKey`, `unbindKey`, `producerThread`, `consumerThread`, `keyboardCallback`, `dispatch` | every key is dispatched once; `destroy` returns and leaves nothing behind |
| **audio managers** (`audio2.cpp` in `sttserv/`; `audio.cpp`, `audio2.cpp`, `audio3.cpp` in `sandbox/`) | memory block, context, device list, device, ring, resampler, one flag for each | set-up in one or two calls, `destroy`, `start`, `stop` | each resource is released once, in every failure path |
| **capture device** (`capture.cpp`, not built) | the same, and a read thread | the same, and `producerCallback`, `consumerCallback` | as the managers and the pipeline |
| **model backends** (`sttserv/source/backend*.cpp`, `sandbox2/unifiedbackend/backend.cpp`) | opaque state of whisper, parakeet or sherpa, named by `m_type` | `create`, `transcribe`, `result`, timings, `destroy` | a state reaches only the functions of its own implementation, and only while it is there |
| **sibling pipelines** (`sandbox2/whispercpp`, `parakeetcpp`, `sherpaonnx`) and **proofs of concept** (`sandbox/source/examples`) | variants of the pipeline with their own locks, hand-over and clean-up | threads, key callbacks, `main` | as the pipeline, each with what it does differently |
| **test harness** (`test/asr_test.cpp`, `snr_mix_core.h`) | the list of measurements | measure, report, mixing of noise | accuracy and percentiles are what their names say |
| **command line** (`cmdline.cpp`) | the parsed options | parse, clamp | options in range |
| **key codes, WAV writer, server API, build and scripts** | constants; an encoder handle; declarations only; – | – | – |

How they interact: the audio device calls `audioCaptureCallbackProducer` on a
thread of miniaudio; it fills the ring and wakes the read thread through
`m_audioCV`. The read thread drains the ring into `m_inferenceBuf` while
`m_startStopFlag` is set and swaps the vector with `m_inferSliceBuf` when ten
seconds are full or the key has been released, waking the inference thread
through `m_inferenceCV`. The inference thread transcribes the slice without
holding `m_inferenceLock`, then clears it. The keyboard hook calls back on its
own consumer thread: A toggles `m_startStopFlag`, Escape sets `m_exit` and
notifies `m_exitSignal`, on which `main` waits before it stops the device, joins
the threads and destroys the audio manager, the hook and the backend.

The hard behaviour is in these hand-overs: condition variables notified without
their mutex, a flag that several threads overwrite, snapshots of a ring that the
other side keeps moving, a plain file descriptor closed by two threads, a thread
number read before it is written, and a teardown that frees what others use
unlocked. `PROJECT.json` lists the hazards at their lines.

## 2. Modules

### CapturePipeline
One action per step of a thread that another thread can observe. Each thread
has a program counter (`device`, `reader`, `worker`, `keys`, `main`).

* A frame is its capture position; `written` and `read` count frames since the
  start, the slot is the count modulo `RingSize`. `AcquireWrite` and
  `AcquireRead` are what `ma_pcm_rb_acquire_*` grant: a contiguous piece, hence
  shorter at the end of the ring. The library itself is external.
* `std::condition_variable::wait` is three states: `check` (predicate under the
  mutex), `asleep` (predicate false, mutex still held), `blocked` (in the wait
  set, mutex free). A notification moves `blocked` to `check` and is lost in any
  other state; `SpuriousWakeup` does the same on its own. A writer that takes
  the mutex cannot step while the waiter is `asleep` (`AudioLockFree`,
  `InferenceLockFree`); one that does not take it (Escape, shutdown) can.
* `ConsumerOverflow` and `ConsumerRelease` are the two locked blocks of the read
  thread, `HandOver` the swap, clear, flag and notification they share.
  `ConsumerRecord` appends outside the lock.
* The worker is in `transcribe` for as long as it reads `m_inferSliceBuf`:
  backend call and WAV file. A transcription may fail (`WorkerReport(FALSE)`).
* `main` starts where the audio manager is created; a failed creation or start
  goes to `cleanup`. The destructors of threads that were never joined end the
  program in `aborted`.
* Left out: timers, durations, log output, what the backend returns. Resampling
  is one frame for one, up to the room in `m_resampleBuffer` (`ResampleCap`).
  `ma_device_stop` succeeds and waits for the callback in progress.

### FrameChannel
The abstract specification of the ring between its two threads: frames are
offered in batches, accepted or refused – refused only when the channel is full
– and delivered in order. `CapturePipeline!Channel` instantiates it with
`captured`, `written`, `dropped` and `read`.

### SpeechProgramTable, SpeechPrograms, SliceBox, ScriptOrder
The fourteen other programs with a device callback are copies of one another
that were changed on the way: in the order in which `main` sets up, starts,
wakes, joins and destroys, in what a failure goes to, in which mutex is held
where, and in what hands a slice over. `SpeechProgramTable` writes these
differences down, one definition for each function of each program: `Poc8Main`
is the sequence of steps of `main` and of its cleanup, `Poc8Producer` says
whether the callback takes `m_audioLock`, `Poc8Reader` what makes it hand over,
`Poc8Worker` whether it keeps `m_inferenceLock` while it transcribes and what
each slice makes and frees. The capture device appears under a client that
creates, starts, stops and destroys it. What a set-up step that fails leaves behind
is part of its row (`fails`): what it has undone, what it leaves, what it has torn
down although it was not there, and which flags go on promising what is gone. The
`create()` of poc4's manager, for one, uninitialises its ring by hand when the
context fails and leaves `mb_initRingBuffer` set (`sandbox/source/audio.cpp:72-75`),
so that the `destroy()` of the cleanup does it again (183-185).

`SpeechPrograms` has one action per step of a thread of the program that `Init`
chooses. One unit of audio is a burst of the callback and a piece of the read
thread; ring, buffer and slice are lengths. Labels are as in `CapturePipeline`
(`test`, `block`, `wait` for its `check`, `asleep`, `blocked`); a mutex is held
exactly at the labels `AudioLockFree` and `InferenceLockFree` name. Every
fallible step may fail, `stop` too: the device then runs on into the cleanup.
`held` is what is set up and `flagged` what the flags say is: a tear-down that goes
by flags is done for what is flagged, and is a misuse for what is not held. The
`destroy()` of the hook waits for two threads and may never return
(`AsyncKeyHook` says when): main may stay there (`InHookDestroy`).
`CopiesAssumption`, which TLC evaluates, says which programs are the same in all
of this (poc2 as poc1; poc10 and the whisper pipeline as poc9; parakeet as poc9
but for the callback's lock), so that one of each need be run.

`SliceBox` is the abstract specification of the hand-over in the programs whose
worker keeps its lock: a box of one place, filled by the read thread, taken and
returned by the worker, and replaced or withdrawn, while it waits, only where a
recording is stopped.

`ScriptOrder` reads the order of `main`'s steps off the table, before anything
runs: `Stands(p, i)` is what the steps before `i` leave set up, `JoinedAfter`,
`QuietAfter` and `RemovedAfter` that `main` still comes to a step that joins a
thread, ends the callbacks or tears a resource down, whatever fails on the way.
Its six assumptions, which TLC evaluates on the table, say that a thread is
spawned and the device started when what they need stands
(`SpawnAssumption`, `StartAssumption`), that a read thread that does not look at
`m_exit` after its wait belongs to a program without keys (`ExitAssumption`),
that all but the forgotten is torn down on every path (`RemovalAssumption`),
which programs tear down without looking at a flag (`BlindAssumption`), and whose
failed steps leave a flag behind or tear down what is not there
(`FlagAssumption`). They are facts about the programs as they are, not conditions on their use; what they
mean once threads and failures interleave is proved in section 5.

### AsyncKeyHook and WindowsKeyHook
`AsyncKeyHook` is the Linux build: the client thread (`create`, `destroy`,
bindings), the producer and the consumer. Every test, close and reset of the
unprotected `m_fd` is a step, and the value closed may be the one tested or a
fresh load, as the data race allows. A `read()` in progress ends with an event or an
unplugged keyboard, and not because the descriptor is closed: so does Linux,
although the comment at `async_key.cpp:47` expects otherwise. A `read()` that begins
on a closed descriptor fails at once. `Fds` numbers the descriptors by `create()`,
so a reused number is not modelled. The keys of `m_bindings` stand for the
callbacks; `Any` is `KeyCode::Any`.

`WindowsKeyHook` is the other build of the same class: the producer installs a
hook, stores its number in `m_producerID` and waits in `GetMessage`, in which
the system calls `keyboardCallback`; `destroy` posts `WM_QUIT` to the stored
number. A message to a thread without a message queue, or to one that has ended,
is lost. Keys are counted only, and dispatch is one step: bindings are the same
code in both builds and are in `AsyncKeyHook`.

### AudioManager2 and ResourceLifecycle
`AudioManager2` has one action per stage of `createContext`
(`InitializeMemory`, `InitializeContext`, `InitializeDeviceList`), of
`selectDevicesAndFinalize` (`SelectDevices` for the indices and their test,
`InitializeAudioDevice`, `InitializeRingBuffer`, `InitializeResampler`) and of
`destroy`; each set-up stage may fail, which leads into the stages of `destroy`.
`live` is what the library has set up, `flags` what the `mb_init` members say;
the pointers follow `live` except `m_ctx`, which the code tests and resets on a
path of its own. The client may call in any order and again after a failure; it
finalises once, starts a complete manager only, destroys a stopped one only,
and, with `Careful`, finalises only after `createContext` has succeeded, as all
programs of the repository do. `ResourceLifecycle` is the promise: a resource
is acquired once, after what it needs, and released once, when nothing that
needs it is left. In the pipeline this component is `MainCreateAudio` and
`MainDestroyAudio`, which rely on exactly this.

### StagedManagers
The other managers are data: the stages of their calls, what a stage that fails
undoes and which flags it clears by hand, which calls roll back through
`destroy`, the order of `destroy`, and what `destroy` goes by – a flag for each
resource, flags kept in a `bool` (`audio3.hpp:120`), flags masked with 8 instead
of 7 (`capture.hpp:178`), or the pointer to the block (the duplex example). The
actions are the calls, one stage and one part of `destroy`. A client may also
destroy a running device. What follows a use of what is not there is undefined:
the client is not followed further.

### ModelBackends
The backend of the library and its ancestor in `sandbox2/unifiedbackend`:
`m_type`, the implementation whose state is pointed to, the stream that sherpa
keeps between `transcribe` and `result`, and whether whisper's parameters point
into the caller's arguments. `transcribe` of sherpa hands its new stream to two calls
before it looks whether there is one (`backend_sherpaonnx.cpp:61-65`), and the
inference thread of `unify.cpp` asks for a result whatever `transcribe` answered:
`misuse` records each use of what is not there with the call that made it.
Initialisation may fail, be refused or be asked for
an implementation that was not built in; timings are left out.

### AccuracyReport
`calculate_accuracy` (`Distances` is its table `d`, filled by `Cell`; the
accuracy is the share of the longer text that is left), `get_percentile` (rounding and
clamping of the rank), and the suite that measures, collects and reports, over all
measurements and for each sentence. `First` is `accAt[0]`, which in an empty vector
is past the end.
Percentages are shares of `Full`, a multiple of every length, so that no
rounding hides a difference. The reference definitions, shortest chains of
single edits and nearest rank by counting, do not share a line with them.

### Modules for TLC, and of proofs
`MCCapturePipeline`, `MCSpeechPrograms`, `MCAsyncKeyHook`, `MCWindowsKeyHook` and
`MCAudioManager2` take their bounds from the configurations; `MCScriptOrder`, for
`programs_liveness`, has TLC evaluate the assumptions on the scripts as well.
`MCSequential` puts `AudioManager2`, `StagedManagers`, `ModelBackends` and
`AccuracyReport` side by side: each is explored by itself, since one thread calls
it and it looks at none of the others.

`CapturePipelineProofs`, `HandOverProofs`, `SpeechProgramsProofs`,
`AsyncKeyHookProofs`, `WindowsKeyHookProofs`, `AudioManager2Proofs`,
`SequentialProofs` (managers and backends) and `AccuracyReportProofs` hold the
theorems of section 5.

## 3. Runs

| run | properties | bounds | shows |
|---|---|---|---|
| `pipeline_safety` | `TypeOK` `RingWindows` `FrameAccounting` `NeverTranscribesNothing` `CaptureOrder` `TeardownSafe` `EachUtteranceHasItsAudio` `ImplementsChannel` | ring 3, buffer 2, resampler 1, bursts of 2, 5 frames, 2 presses | 2.5 million states: the ring wraps, fills up and grants short pieces; overflow, release, resampling loss, both start failures and every order of exit occur; the ring implements `FrameChannel` |
| `pipeline_liveness` | `AudioConsumed` `HandOverAnswered` | ring 2, buffer 1, bursts of 1, 2 frames, 2 presses | no lost wake-up between the threads |
| `keyhook` | `TypeOK` `DestroyReleasesAll` `KeysTaken` `OnlyMissAndReadHoldDestroy` | 1 key, 3 presses, 2 creates, 2 bindings | one restart, callbacks of a key and of Any, unplugged and missing keyboards; no key left in the queue, nothing left by `destroy`, and nothing but a missed notification and a `read()` in progress keeps `destroy` from returning |
| `winhook` | `TypeOK` `DestroyReleasesAll` `KeysTaken` `QuitReachesProducer` | 3 presses, 3 creates | 3,091 states: keys at any time, also after the consumer has left, hooks that cannot be installed, two restarts |
| `programs_safety` | `TypeOK` `UsesOnlyWhatIsSetUp` `EndsJoined` `LeavesNothingElse` `TearsDownWhatIsSetUp` `NoWakeUpIsOwed` `NeverTranscribesNothing` `HandsOverThroughBox` | 11 programs, ring 1, slices of 2, buffer followed up to 2 | 2.0 million states: every failure of every step of each program, a full ring, slices by interval and by stop |
| `programs_liveness` | `ShutsDown` | poc1, poc4, poc6, poc8, poc9, parakeet and the capture device, ring 1, slices of 1 | 0.4 million states: every order of the exit, with and without keys, with the lock kept and given back |
| `sequential` | `TypeOK` `ThreeShapes` `CallbackHasRing` `ImplementsLifecycle`; `DestroyLeavesNothing` `TouchesOnlyWhatIsThere` `LosesNothing` `AnswersTruly` `CallbackKeepsItsRing`; `DispatchesToOwner` `UsesWhatIsThere`; `AccuracyIsEditDistance` `PercentilesAreNearestRank` | 2 devices of a kind, careful client; nothing bounded in managers and backends; texts of up to 3 of two letters, 2 sentences, 3 measurements | 32,109 states: every order of calls and every failing stage of seven managers and two backends; all pairs of texts and all reports |
| `pipeline_escape` | `EscapeStops` violated | ring 2, buffer 1, 3 frames, 2 presses | finding 1 |
| `pipeline_slice` | `SliceStable` violated | the same | finding 2 |
| `pipeline_handover` | `HandOverStartsWork` violated | the same, 2 frames | finding 3 |
| `audio_index` | `IndicesValid` violated | 1 device of a kind, careful | finding 4 |
| `winhook_quit` | `ProducerUnblocked` violated | no press, 1 create | finding 5 |

Why the bounds are enough. The code is symmetric in the values of frames; what
matters is the wrap, the full ring and a piece of more than one frame, which a
ring of 3 and bursts of 2 reach. In `SpeechPrograms` a burst is one unit, so
that a ring of 1 is full and empty, and slices of 2 make a slice that is not yet
complete; positions in the ring are the subject of `CapturePipeline` and are not
followed again. `buf` stops counting at `MaxBuffered`, which no test tells from
more. `programs_liveness` leaves out the copies (poc2 is poc1; poc10 and the whisper
pipeline are poc9), poc12 and sherpa, which are poc9 and parakeet but for what main
sets up and a slice makes, and poc7 and poc11, which start no thread and never tell
one to exit, so that `ShutsDown` would hold of them for nothing. Two devices of a kind give the audio manager an index below, at and past
the end of its lists. The state of `StagedManagers` and `ModelBackends` is
finite by itself: there the run is the whole truth of the model. Texts of 3 have
all three kinds of edit next to one another and at both ends, and 1, 2 and 3
measurements have their 50th, 99th and 99.9th percentile on, before and after a
boundary. The proofs of section 5 remove the bounds for every safety property.

The deadlock check is off in all configurations of passing runs: the pipeline
and the programs end, run dry when the microphone and the user have used up
their bounds, and stop for good where section 4 says so; the hooks may be left
destroyed; the reports end, and a client of a manager is not followed beyond a
misuse.

Every property of a passing run has a mutant, a definition in the module that
precedes the one it changes, with a comment that names the bug: for instance
`ProducerPublishUnlocked` sets the flag without `m_audioLock`, which is what
`sandbox2/whispercpp/trunc_data.cpp` does, and loses a wake-up.

### Exceptions that properties name
The older programs differ from the promise in ways their authors left behind,
and the properties of `SpeechPrograms`, `StagedManagers` and `ModelBackends`
say of which and in what, so that everything else is excluded:

* left set up at the end of `main`: the model (poc4), the file (poc7, when it
  has no device), the context (poc11), the results (poc12), the first stream of
  the sherpa recogniser;
* torn down without having been set up (`MayMisuse`): anything in poc1 and poc2 after
  a failed check or set-up, in poc7 whatever failed, in poc4 the ring that a failed
  `create()` has undone already, and in the capture device, by the roll-back of a
  failed stage, whatever it had not come to; nothing when it was the device that did
  not start or stop;
* used after it was torn down: ring and model, when `stop` fails and `main` goes
  to its cleanup past the joins; in poc7 a resampler nobody checked;
* unjoined threads: after a failed start or stop;
* managers: `audio3` leaves everything but the block; a `create()` of `audio.cpp`
  or of the duplex example that fails half-way undoes by hand what its flags or
  its pointer still promise; an incomplete capture device takes everything for
  set up; `audio2` and the capture device remove the ring before a running
  device, and `audio3` its memory;
* a notification without its mutex may be missed at shutdown, `stop()` of the
  capture device sends none, and the `destroy()` of a hook may not return
  (`ShutsDown`); the callbacks without `m_audioLock`
  are outside `NoWakeUpIsOwed`;
* a stream that sherpa could not make is used by `transcribe` of both backends, and
  by the result that the unified one is then asked for.

### Fairness
Weak fairness for each thread: the operating system runs a thread that can run.
Strong fairness for the steps that take a contended mutex (`ProducerPublish`,
`ConsumerOverflow`, `ConsumerRelease`, `ProducerPush` and `CallbackPush` of the
hooks): a thread that finds its mutex free again and again gets it in the end, as
the futex-based mutexes of the platform make sure. In the other locked steps the
mutex is held across states only by the thread itself. In `SpeechPrograms` the
tear-down of a device has strong fairness, because it waits for a
callback in progress and no further one begins once it has been asked for; that of
a hook has no fairness, since it may stay for ever.
Nothing is assumed of the user, the microphone, the keyboard, the client of a
hook or spurious wake-ups; nobody need press a key or type the line a program
waits for. Leads-to properties excuse `exit`, after which the threads may leave
their work.

## 4. Findings

1. `unify.cpp:34` – Escape sets `m_exit` and notifies without `m_exitLock`:
   between `main`'s predicate and its wait the notification is lost and the
   program does not stop. The shutdown of the two worker threads (58–61) has the
   same gap.
2. `unify.cpp:180` – the idle branch swaps `m_inferSliceBuf` under the worker
   that is reading it; the overflow branch asks `m_inferenceBufReady` first.
3. `unify.cpp:177` – `m_inferenceBufReady` is overwritten by the idle piece after
   a hand-over: a worker that was not yet at its predicate never sees it.
4. `audio2.cpp:378` – device indices are tested with `>` instead of `>=`: the
   index equal to the number of devices is used.
5. `async_key.cpp:41` – on Windows `WM_QUIT` is posted to `m_producerID`, which
   the producer stores only after it has installed the hook: a `destroy` that
   overtakes it posts nothing and waits for ever, and after a restart it posts
   to the thread that has ended. `QuitReachesProducer` shows that this is the
   only way: a number that is the producer's own always ends it.

What the properties name as their exceptions is reported here as well; each is the counterexample that TLC gives when the exception is taken out:

* `async_key.cpp:49` – on Linux `destroy` closes the descriptor the producer reads
  from and joins the producer. The comment at line 47 says "Closing the fd causes
  read() to return with an error, unblocking the producer"; a `read()` in progress
  does not return, and `destroy` waits for one more event of the keyboard
  (`OnlyMissAndReadHoldDestroy`).
* `async_key.cpp:35` – `destroy` sets `m_exit` and notifies without `m_queueMtx`: a
  consumer between its predicate and its wait sleeps on, and the join waits for it
  (`OnlyMissAndReadHoldDestroy`).
* `whisper_3s_interval.cpp:137` (poc4), and the other programs like it – the same gap
  at shutdown, with the device already stopped: the read thread or the worker sleeps
  on, and the program that said "Press any key to stop" does not (`ShutsDown`).
* `sandbox/source/audio.cpp:74` – the ring is uninitialised by hand and its flag is
  left set; poc4's cleanup uninitialises it again (`TearsDownWhatIsSetUp`,
  `TouchesOnlyWhatIsThere`).
* `backend_sherpaonnx.cpp:61` – a stream that could not be made is used before it is
  tested (`UsesWhatIsThere`).
* `asr_test.cpp:111` – the report reads the first accuracy of every sentence, also of
  one of which nothing was measured (`MinimumIsAtTheStart`).

Met on the way, without a property: `create` of the hook returns `true` before the
hook is installed and also when it never is; `m_ctx` survives the freed block after a
failed context (`AudioManager2` with `Careful = FALSE`); `normalize_text` of the
tests returns its argument.

## 5. Theorems

All hold for every value of the constants that `PipelineAssumption`,
`ProgramsAssumption`, `HookAssumption`, `WindowsAssumption`,
`ManagerAssumption`, `BackendAssumption` and `ReportAssumption` admit: positive
sizes; `Any` is not a key of the keyboard; fewer than 254 devices of a kind; a
backend that is the library's or the unified one; a `Full` that every length
divides. `TableAssumption` and the six assumptions of `ScriptOrder` speak of
the table alone. TLC evaluates every one of them.

Every invariant that a run checks, and each of the three refinements, is the
statement of one of these theorems.

* **TypeCorrect, RingWindowsHold, FramesAccounted** (`CapturePipelineProofs`)
  follow from `RingInv`. `RingWindows` alone is not inductive: the callback's
  grant is computed from a `read` that moves on meanwhile. `RingInv` adds that
  `read <= written <= read + RingSize`, that what the callback was granted still
  fits (`CallbackInv`), that the snapshot of the read thread is never more than
  the ring holds, since the callback only adds to it (`ReadThreadInv`), and that
  the threads run exactly while `main` is where it has spawned them
  (`SpawnInv`). The counters of `FrameAccounting` are part of it, each with the
  correction of the program counter between commit and count.
* **NothingIsNeverTranscribed** (`HandOverProofs`) from `SliceInv`:
  `m_inferenceBufReady`, or a worker that has woken up, implies a slice that is
  not empty – although the flag may be false while the slice is full.
* **TeardownIsSafe** from `TeardownInv`: the device is off and no callback runs
  after `MainStop`, and the threads have been joined, or the device never
  started and the ring stayed empty, when the ring is destroyed.
* **RingImplementsChannel**: `Init` maps to the channel's initial state and every
  step to one of its actions or a stutter, from `RingInv`. `ProducerDrop` maps to
  `Refuse`: the ring grants nothing only when it is full, since a position
  modulo `RingSize` always leaves a slot to the end of the ring.
* **BuffersInOrder** (`HandOverProofs`) from `OrderInv`: what the worker has been
  handed, followed by what it has not, is increasing and does not go beyond
  `Taken`, how far the read thread has come; what is appended lies beyond it. The
  sequence lemmas (a suffix of an increasing sequence, an extension by larger
  frames) are proved from the definitions. **UtterancesHaveAudio** from
  `UtteranceInv`: utterances counted, in the worker's hands or being collected
  are not more than the frames taken.
* **NothingIsNeverTranscribed, WakeUpsAreNotOwed, HandsOverThroughSliceBox,
  ProgramsTypeCorrect** (`SpeechProgramsProofs`), for every program of the table
  at once. `StandInv` says where each thread can stand and that a thread is not
  spawned twice; `AudioInv` that a raised flag, or a worker past its test, means
  a slice that is not empty; `WaitInv` that a thread asleep or about to sleep
  has its flag down or the notification on its way, the callback's mutex being
  what excludes the step between. The hand-over refines `SliceBox` because a
  worker that keeps its lock cannot be overtaken at `begin` or `infer`, and
  because only a program with a key hook ever stops recording (`HookInv`), the
  one case in which a slice that waits may be replaced.
* **TearsDownOnlyWhatIsSetUp, LeavesOnlyTheForgotten, ProgramsEndJoined,
  ProgramsUseOnlyWhatIsSetUp** (`SpeechProgramsProofs`), from `ScriptOrder`.
  None of the four properties is inductive: each speaks of the end of a script
  or of one step of a thread. The invariants carry the reason along the script.
  `StandsInv`: while nothing has failed, or before the cleanup, `Stands(prog, pc)`
  is held but for what a failed check or set-up excuses. `FlagInv`: what the flags
  promise and is not held is at most the ring of poc4, after a failed set-up.
  `MisuseInv`: a step that goes by flags misuses at most what `FlagInv` leaves, one
  that does not what `StandsInv` leaves, a set-up that fails what its row says;
  together never more than `MayMisuse`. `LeaveInv`: for all that is held and not
  forgotten `RemovedAfter(prog, r, pc)`, hence at the end there is none.
  `ThreadInv`: a thread that runs has what it needs and `JoinedAfter(prog, t, pc)`,
  unless a failed start or stop has left it behind. `PlayInv`: while the device
  runs what its callback fills is there and `QuietAfter(prog, pc)`. `StartInv` and
  `QuietInv`: before the start, and for ever when it fails, no audio moves – the
  threads do run then, and Escape may send them through their loops; that they
  touch nothing depends on the read thread testing `m_exit` after its wait, or on
  nobody setting it.
* **BackendsDispatchToOwner, BackendsUseWhatIsThere** (`SequentialProofs`).
  Dispatch is inductive by itself: `create` resets the pointer whenever it
  changes `m_type`. Use
  needs `ToldTruly`, that what the client was told last says what is there: a
  state of the named type, a stream from a transcription to its result, and in
  the unified backend the caller's arguments;
  and that a stream which is missing when a result is asked for was used by the
  transcription before (`NoStreamUsed`).
* **ManagersLeaveNothing, ManagersAnswerTruly, ManagersKeepTheRing,
  ManagersTouchWhatIsThere, ManagersLoseNothing** (`SequentialProofs`), all from
  `ManagerInv`, for the six managers at once. What the tables say is proved first
  (`StageOK`, `ListOK`, `DestroyOK`: the memory comes first and goes last, a stage
  sets up what is not there yet, `destroy` names each part once). `CallInv` then
  says where a call can be; `StandsInv` that outside of `destroy` what stands is
  what the calls so far set up and at most `Rest`, what this manager is known to
  leave; `BlockInv` and `MarkInv` when pointer and flags speak the truth;
  `BeliefInv` that `destroy` goes by all that stands and is not yet torn down,
  and, where the manager does not guess, by nothing else; `RunInv` that a running
  device belongs to a complete manager whose parts go in the order of `destroy`.
  `DestroyLeavesNothing` alone says nothing of a `destroy` under way, and a
  failed stage makes flags and resources differ, so that all six are needed.
* **ReportIsNearestRank** (`AccuracyReportProofs`). `Rank` lies within the list
  and is the least number not below the share asked for (`RankBounds`); an order
  of the measurements by accuracy exists (`SortedExists`), hence the `CHOOSE` that
  stands for `std::sort` yields one (`AccuraciesSorted`); the measurements up to
  the rank and those below its value are then counted through the bijection.
* **MinimumIsReported** (`AccuracyReportProofs`), from the same order: its first
  measurement is below every other, and `accAt[0]` of a sentence that was measured
  is its accuracy (`MinimumIsAtTheStart`, which is proved and has no run).
* **AccuracyMeasuresEdits** (`AccuracyReportProofs`), for texts of any length over
  any alphabet: the table of `calculate_accuracy` holds the edit distance, whose
  definition by shortest chains knows no table. The table is a function
  (`TableExists`). No chain is shorter than its last cell: one edit changes the
  distance to any text by one at most (`OneEditOneMore`), because neighbouring
  cells differ by one at most (`ColumnsAdjacent`) and a letter put in, dropped or
  replaced shifts the rest of a column by one row (`Shifted`). And a chain of that
  length exists: every cell counts edits that lead from the beginning of one text
  to that of the other over texts no longer than the longer of them
  (`EveryCellReached`), which keeps the chain within `MaxLength`. Induction over
  cells and over the number of edits is done by the least counterexample
  (`LeastNumber`), since a library theorem with an operator parameter cannot be
  instantiated.
* **HookTypeCorrect, NothingIsLeft** (`AsyncKeyHookProofs`) from `HookInv`: an
  open descriptor is always the one in `m_fd` while the producer has not closed
  it, whichever thread tests, closes and resets it first (`FdInv`); the threads
  are there exactly between `create` and the joins (`ThreadInv`); the queue is
  empty once the producer has gone and `destroy` has drained it (`QueueInv`).
* **WindowsTypeCorrect, NothingIsLeftOnWindows** (`WindowsKeyHookProofs`): besides
  the threads and the queue, `PumpInv` says that the hook is installed only
  while the producer is between its installation and its removal, and that
  `WM_QUIT` lies only in the queue of a producer that `destroy` waits for and
  that still reads it.
* **ManagerTypeCorrect, CallsEndInThreeShapes, CallbackFindsRing,
  ManagerImplementsLifecycle** (`AudioManager2Proofs`), the last three for a
  careful client. `ThreeShapes` speaks of the manager between calls;
  `ManagerInv` adds what each stage of a set-up has reached (`SetUpInv`), that
  each stage of `destroy` holds what the flags say minus what the stages before
  it released, a set closed under dependencies (`TearDownInv`), and that a
  started device belongs to a complete manager (`PlayInv`). The refinement maps
  each set-up stage to `Acquire`, each stage of `destroy` to `Release` or, when
  its flag is not set, to a stutter.

The invariants were checked with TLC before they were proved.

Only model-checked is liveness (`AudioConsumed`, `HandOverAnswered`, `KeysTaken`
of both hooks, `OnlyMissAndReadHoldDestroy`, `QuitReachesProducer`, `ShutsDown`), since the prover handles neither fairness nor ENABLED in these proofs. The properties that
runs show violated are findings and are left to TLC as well.

## 6. Not modelled

* **Pipeline and programs**: timers, `m_recordTimerFlag` and the durations the
  worker reports; what the backend returns, WAV files and text output;
  `m_processed` and how the examples count failures; the mutexes around output.
* **Programs**: the session of poc11 behind a manager that always refuses it; the
  key demonstration (poc5); the examples that transcribe one file and are
  sequential (0, 13, 14, 15); a second `start()` of the capture device.
  `capture.cpp` does not compile as it stands (calls lack arguments, members are
  missing): the model says what its text says.
* **Managers**: what devices report (rates, channels, names); a second
  `selectDevicesAndFinalize` over live resources; `create()` and
  `createContext()` mixed on one `audio.cpp` manager; the vectors that `audio3`
  keeps in memory where none was constructed, which is undefined behaviour. The
  copies of `audio2.cpp` and `async_key.cpp` below `sandbox2/` differ from the
  library's in includes, casts and `periods = 3`; they are not mapped again.
* **Hooks**: two hook objects of the Windows build, which share `s_instance`;
  errors of `GetMessage`; a hook that `UnhookWindowsHookEx` fails to take out, which
  the system removes with the thread that ends next; `destroy` from within a callback; reuse of a
  descriptor's number by others; the contents of the key code table.
* **Tests**: finding clips, mixing noise and the curve over noise levels; the
  comparison of floating point numbers; a sentence number beyond the five vectors
  of the report.
* **Left aside**: command line parsing (a library's; what remains is one clamp),
  the WAV writer, the server API (declared, not implemented), printing and
  resetting timings, build and download scripts, vendored libraries.
