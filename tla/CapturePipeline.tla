--------------------------- MODULE CapturePipeline ---------------------------
(***************************************************************************)
(* The push-to-talk pipeline of sandbox2/unifiedbackend/unify.cpp: the     *)
(* audio callback (producer) fills a single-producer single-consumer ring, *)
(* the read thread (consumer) drains it into m_inferenceBuf and hands full *)
(* or released buffers to the inference thread (worker), key callbacks     *)
(* toggle recording and ask for the exit, and main starts and stops all of *)
(* them.  Five threads, three mutexes and three condition variables.       *)
(*                                                                         *)
(* A frame is its capture position: the i-th frame committed to the ring.  *)
(* std::condition_variable::wait is three states of its thread: "check"    *)
(* (evaluate the predicate with the mutex), "asleep" (predicate was false, *)
(* the mutex is still held) and "blocked" (in the wait set, mutex free).   *)
(* A notification reaches a thread only in "blocked".                      *)
(***************************************************************************)
EXTENDS Naturals, Sequences, FiniteSetsExt

CONSTANTS
  RingSize,             (* capacity of the ring, in frames                  *)
  InferenceBufferSize,  (* m_inferenceBufferSize: frames that force a swap  *)
  ResampleCap,          (* ring frames m_resampleBuffer has room for        *)
  MaxBurst,             (* bound: frames one callback delivers              *)
  MaxCaptured,          (* bound: frames the device delivers in all         *)
  MaxPresses            (* bound: presses of the A key                      *)

ASSUME PipelineAssumption ==
  /\ RingSize \in Nat \ {0}
  /\ InferenceBufferSize \in Nat \ {0}
  /\ ResampleCap \in Nat \ {0}
  /\ MaxBurst \in Nat \ {0}
  /\ MaxCaptured \in Nat
  /\ MaxPresses \in Nat

VARIABLES
  captured, produced, dropped, (* frames delivered, m_produced, m_dropped   *)
  written, read,        (* frames ever committed to / released from ring    *)
  device,               (* producer: where the audio callback is            *)
  remaining, toWrite,   (* its framesRemaining and framesToWrite            *)
  audioDataReady,       (* m_audioDataReady                                 *)
  reader,               (* consumer: where the read thread is               *)
  available, toRead,    (* its framesAvailable and framesToRead             *)
  consumed,             (* m_consumed                                       *)
  inferenceBuf, inferSliceBuf, inferenceBufReady,   (* the hand-over        *)
  worker,               (* where the inference thread is                    *)
  processed,            (* m_processed                                      *)
  startStopFlag, exit,  (* m_startStopFlag, m_exit                          *)
  keys, presses,        (* where the key callback is; A presses so far      *)
  main,                 (* where main is                                    *)
  audioUp, deviceOn     (* audio manager initialised; device started        *)

producerVars == <<captured, written, produced, dropped, device, remaining,
                  toWrite>>
consumerVars == <<read, consumed, reader, available, toRead>>
bufferVars   == <<inferenceBuf, inferSliceBuf, inferenceBufReady>>
workerVars   == <<worker, processed>>
keyVars      == <<startStopFlag, keys, presses>>
mainVars     == <<main, audioUp, deviceOn>>

vars == <<producerVars, audioDataReady, consumerVars, bufferVars, workerVars,
          keyVars, exit, mainVars>>

DeviceState == {"idle", "acquire", "copy", "publish", "notify", "count"}
ReaderState == {"unborn", "loop", "check", "asleep", "blocked", "woken",
                "acquire", "process", "overflow", "release", "commit",
                "count", "done", "joined"}
WorkerState == {"unborn", "loop", "check", "asleep", "blocked", "woken",
                "transcribe", "report", "done", "joined"}
MainState   == {"audioInit", "spawn", "start", "check", "asleep", "blocked",
                "stop", "notifyAudio", "joinRead", "notifyInference",
                "joinWorker", "destroyAudio", "destroyKeys", "return",
                "finished", "aborted"}

Init ==
  /\ captured = 0 /\ produced = 0 /\ dropped = 0 /\ consumed = 0
  /\ written = 0 /\ read = 0
  /\ device = "idle" /\ remaining = 0 /\ toWrite = 0
  /\ audioDataReady = FALSE
  /\ reader = "unborn" /\ available = 0 /\ toRead = 0
  /\ inferenceBuf = <<>> /\ inferSliceBuf = <<>> /\ inferenceBufReady = FALSE
  /\ worker = "unborn" /\ processed = 0
  /\ startStopFlag = FALSE /\ exit = FALSE
  /\ keys = "idle" /\ presses = 0
  /\ main = "audioInit" /\ audioUp = FALSE /\ deviceOn = FALSE

(***************************************************************************)
(* Condition variables: notify moves a blocked thread back to its          *)
(* predicate; so does a spurious wake-up, which the standard allows.       *)
(***************************************************************************)
Notified(pc) == IF pc = "blocked" THEN "check" ELSE pc

(* A thread holds its mutex from a false predicate until it is blocked.    *)
AudioLockFree     == reader # "asleep"
InferenceLockFree == worker # "asleep"

(***************************************************************************)
(* ma_pcm_rb: what acquire grants is one contiguous piece of the ring.     *)
(***************************************************************************)
Occupied == written - read
AcquireWrite(n) == Min({n, RingSize - Occupied, RingSize - (written % RingSize)})
AcquireRead(n)  == Min({n, Occupied, RingSize - (read % RingSize)})

(***************************************************************************)
(* audioCaptureCallbackProducer                                            *)
(***************************************************************************)
ProducerOnly == UNCHANGED <<bufferVars, workerVars, keyVars, exit, mainVars>>

(* The device thread calls back with n frames; one callback at a time.     *)
DeliverFrames(n) ==
  /\ deviceOn /\ device = "idle"
  /\ captured + n <= MaxCaptured
  /\ captured' = captured + n
  /\ remaining' = n
  /\ device' = "acquire"
  /\ UNCHANGED <<written, produced, dropped, toWrite, audioDataReady,
                 consumerVars>>
  /\ ProducerOnly

(* Mutation: the grant (framesToWrite, now 0) is counted as dropped.       *)
ProducerDropCountsGrant ==
  /\ device = "acquire" /\ AcquireWrite(remaining) = 0
  /\ dropped' = dropped + AcquireWrite(remaining)
  /\ remaining' = 0
  /\ device' = "idle"
  /\ UNCHANGED <<captured, written, produced, toWrite, audioDataReady,
                 consumerVars>>
  /\ ProducerOnly

(* Mutation: a grant short of the request is taken for a full ring.        *)
ProducerDropShortGrant ==
  /\ device = "acquire" /\ AcquireWrite(remaining) < remaining
  /\ dropped' = dropped + remaining
  /\ remaining' = 0
  /\ device' = "idle"
  /\ UNCHANGED <<captured, written, produced, toWrite, audioDataReady,
                 consumerVars>>
  /\ ProducerOnly

(* The ring grants nothing: what remains of the callback is dropped.       *)
ProducerDrop ==
  /\ device = "acquire" /\ AcquireWrite(remaining) = 0
  /\ dropped' = dropped + remaining
  /\ remaining' = 0
  /\ device' = "idle"
  /\ UNCHANGED <<captured, written, produced, toWrite, audioDataReady,
                 consumerVars>>
  /\ ProducerOnly

ProducerAcquire ==
  /\ device = "acquire" /\ AcquireWrite(remaining) > 0
  /\ toWrite' = AcquireWrite(remaining)
  /\ device' = "copy"
  /\ UNCHANGED <<captured, written, produced, dropped, remaining,
                 audioDataReady, consumerVars>>
  /\ ProducerOnly

ProducerCommit ==
  /\ device = "copy"
  /\ written' = written + toWrite
  /\ device' = "publish"
  /\ UNCHANGED <<captured, produced, dropped, remaining, toWrite,
                 audioDataReady, consumerVars>>
  /\ ProducerOnly

(* Mutation: the flag is set without m_audioLock, as the sibling program   *)
(* sandbox2/whispercpp/trunc_data.cpp does.                                *)
ProducerPublishUnlocked ==
  /\ device = "publish"
  /\ audioDataReady' = TRUE
  /\ device' = "notify"
  /\ UNCHANGED <<captured, written, produced, dropped, remaining, toWrite,
                 consumerVars>>
  /\ ProducerOnly

ProducerPublish ==
  /\ device = "publish" /\ AudioLockFree
  /\ audioDataReady' = TRUE
  /\ device' = "notify"
  /\ UNCHANGED <<captured, written, produced, dropped, remaining, toWrite,
                 consumerVars>>
  /\ ProducerOnly

ProducerNotify ==
  /\ device = "notify"
  /\ reader' = Notified(reader)
  /\ device' = "count"
  /\ UNCHANGED <<captured, written, produced, dropped, remaining, toWrite,
                 audioDataReady, read, consumed, available, toRead>>
  /\ ProducerOnly

ProducerCount ==
  /\ device = "count"
  /\ remaining' = remaining - toWrite
  /\ produced' = produced + toWrite
  /\ toWrite' = 0
  /\ device' = IF remaining' > 0 THEN "acquire" ELSE "idle"
  /\ UNCHANGED <<captured, written, dropped, audioDataReady, consumerVars>>
  /\ ProducerOnly

Producer == \/ ProducerDrop \/ ProducerAcquire \/ ProducerCommit
            \/ ProducerPublish \/ ProducerNotify \/ ProducerCount

(***************************************************************************)
(* audioProcessCallbackConsumer                                            *)
(***************************************************************************)
ConsumerOnly == UNCHANGED <<producerVars, keyVars, exit, mainVars>>
BuffersKept  == UNCHANGED <<bufferVars, workerVars>>

(* while(!m_exit): one more round, or the thread function returns.         *)
ConsumerLoop ==
  /\ reader = "loop"
  /\ reader' = IF exit THEN "done" ELSE "check"
  /\ UNCHANGED <<audioDataReady, read, consumed, available, toRead>>
  /\ BuffersKept /\ ConsumerOnly

(* The predicate of m_audioCV.wait, and the reset of the flag after it.    *)
ConsumerCheck ==
  /\ reader = "check"
  /\ IF exit \/ audioDataReady
     THEN reader' = "woken" /\ audioDataReady' = FALSE
     ELSE reader' = "asleep" /\ UNCHANGED audioDataReady
  /\ UNCHANGED <<read, consumed, available, toRead>>
  /\ BuffersKept /\ ConsumerOnly

ConsumerBlock ==
  /\ reader = "asleep"
  /\ reader' = "blocked"
  /\ UNCHANGED <<audioDataReady, read, consumed, available, toRead>>
  /\ BuffersKept /\ ConsumerOnly

(* Leave on exit, otherwise take a snapshot of what the ring holds.        *)
ConsumerSnapshot ==
  /\ reader = "woken"
  /\ IF exit
     THEN reader' = "done" /\ UNCHANGED available
     ELSE /\ available' = Occupied
          /\ reader' = IF available' > 0 THEN "acquire" ELSE "loop"
  /\ UNCHANGED <<audioDataReady, read, consumed, toRead>>
  /\ BuffersKept /\ ConsumerOnly

(* Mutation: the piece is committed before it has been processed.          *)
ConsumerAcquireCommits ==
  /\ reader = "acquire"
  /\ toRead' = AcquireRead(available)
  /\ read' = read + toRead'
  /\ reader' = "process"
  /\ UNCHANGED <<audioDataReady, consumed, available>>
  /\ BuffersKept /\ ConsumerOnly

ConsumerAcquire ==
  /\ reader = "acquire"
  /\ toRead' = AcquireRead(available)
  /\ reader' = "process"
  /\ UNCHANGED <<audioDataReady, read, consumed, available>>
  /\ BuffersKept /\ ConsumerOnly

(* While recording the piece is resampled (at most what m_resampleBuffer   *)
(* has room for) and appended; otherwise the buffer is to be released.     *)
Resampled == [i \in 1..Min({toRead, ResampleCap}) |-> read + i]

ConsumerRecord ==
  /\ reader = "process" /\ startStopFlag
  /\ inferenceBuf' = inferenceBuf \o Resampled
  /\ reader' = IF Len(inferenceBuf') >= InferenceBufferSize
               THEN "overflow" ELSE "commit"
  /\ UNCHANGED <<audioDataReady, read, consumed, available, toRead,
                 inferSliceBuf, inferenceBufReady, workerVars>>
  /\ ConsumerOnly

ConsumerIdle ==
  /\ reader = "process" /\ ~startStopFlag
  /\ reader' = "release"
  /\ UNCHANGED <<audioDataReady, read, consumed, available, toRead>>
  /\ BuffersKept /\ ConsumerOnly

(* Mutation: the worker is not notified.                                   *)
HandOverSilently ==
  /\ inferSliceBuf' = inferenceBuf
  /\ inferenceBuf' = <<>>
  /\ inferenceBufReady' = TRUE
  /\ UNCHANGED workerVars

(* Mutation: the vectors are swapped and m_inferenceBuf is not cleared.    *)
HandOverUncleared ==
  /\ inferSliceBuf' = inferenceBuf
  /\ inferenceBuf' = inferSliceBuf
  /\ inferenceBufReady' = TRUE
  /\ worker' = Notified(worker)
  /\ UNCHANGED processed

(* std::swap, clear, m_inferenceBufReady = true, m_inferenceCV.notify_one. *)
HandOver ==
  /\ inferSliceBuf' = inferenceBuf
  /\ inferenceBuf' = <<>>
  /\ inferenceBufReady' = TRUE
  /\ worker' = Notified(worker)
  /\ UNCHANGED processed

ConsumerOverflow ==
  /\ reader = "overflow" /\ InferenceLockFree
  /\ IF inferenceBufReady THEN BuffersKept ELSE HandOver
  /\ reader' = "commit"
  /\ UNCHANGED <<audioDataReady, read, consumed, available, toRead>>
  /\ ConsumerOnly

(* Mutation: the size of m_inferenceBuf is not looked at.                  *)
ConsumerReleaseAlways ==
  /\ reader = "release" /\ InferenceLockFree
  /\ HandOver
  /\ reader' = "commit"
  /\ UNCHANGED <<audioDataReady, read, consumed, available, toRead>>
  /\ ConsumerOnly

(* m_inferenceBufReady = size() > 0 is assigned whatever it was before.    *)
ConsumerRelease ==
  /\ reader = "release" /\ InferenceLockFree
  /\ IF inferenceBuf # <<>>
     THEN HandOver
     ELSE /\ inferenceBufReady' = FALSE
          /\ UNCHANGED <<inferenceBuf, inferSliceBuf, workerVars>>
  /\ reader' = "commit"
  /\ UNCHANGED <<audioDataReady, read, consumed, available, toRead>>
  /\ ConsumerOnly

(* Mutation: framesAvailable loses what the ring holds now, not the piece. *)
ConsumerCommitAll ==
  /\ reader = "commit"
  /\ read' = read + toRead
  /\ available' = available - Occupied
  /\ reader' = "count"
  /\ UNCHANGED <<audioDataReady, consumed, toRead>>
  /\ BuffersKept /\ ConsumerOnly

ConsumerCommit ==
  /\ reader = "commit"
  /\ read' = read + toRead
  /\ available' = available - toRead
  /\ reader' = "count"
  /\ UNCHANGED <<audioDataReady, consumed, toRead>>
  /\ BuffersKept /\ ConsumerOnly

ConsumerCount ==
  /\ reader = "count"
  /\ consumed' = consumed + toRead
  /\ toRead' = 0
  /\ reader' = IF available > 0 THEN "acquire" ELSE "loop"
  /\ UNCHANGED <<audioDataReady, read, available>>
  /\ BuffersKept /\ ConsumerOnly

Consumer == \/ ConsumerLoop \/ ConsumerCheck \/ ConsumerBlock
            \/ ConsumerSnapshot \/ ConsumerAcquire \/ ConsumerRecord
            \/ ConsumerIdle \/ ConsumerOverflow \/ ConsumerRelease
            \/ ConsumerCommit \/ ConsumerCount

(***************************************************************************)
(* audioInferenceWorker                                                    *)
(***************************************************************************)
WorkerOnly == UNCHANGED <<producerVars, audioDataReady, consumerVars, keyVars,
                          exit, mainVars>>

WorkerLoop ==
  /\ worker = "loop"
  /\ worker' = IF exit THEN "done" ELSE "check"
  /\ UNCHANGED <<bufferVars, processed>> /\ WorkerOnly

(* The predicate of m_inferenceCV.wait; the mutex is released afterwards.  *)
WorkerCheck ==
  /\ worker = "check"
  /\ worker' = IF exit \/ inferenceBufReady THEN "woken" ELSE "asleep"
  /\ UNCHANGED <<bufferVars, processed>> /\ WorkerOnly

WorkerBlock ==
  /\ worker = "asleep"
  /\ worker' = "blocked"
  /\ UNCHANGED <<bufferVars, processed>> /\ WorkerOnly

(* In "transcribe" the worker reads m_inferSliceBuf, for the backend and   *)
(* then for the WAV file, without holding m_inferenceLock.                 *)
WorkerBegin ==
  /\ worker = "woken"
  /\ worker' = IF exit THEN "done" ELSE "transcribe"
  /\ UNCHANGED <<bufferVars, processed>> /\ WorkerOnly

(* Mutation: neither the slice nor the flag is reset.                      *)
WorkerFreeNothing ==
  /\ worker = "transcribe"
  /\ worker' = "report"
  /\ UNCHANGED <<bufferVars, processed>> /\ WorkerOnly

WorkerFree ==
  /\ worker = "transcribe"
  /\ inferSliceBuf' = <<>>
  /\ inferenceBufReady' = FALSE
  /\ worker' = "report"
  /\ UNCHANGED <<inferenceBuf, processed>> /\ WorkerOnly

(* m_processed counts the transcriptions that succeeded.                   *)
WorkerReport(success) ==
  /\ worker = "report"
  /\ processed' = IF success THEN processed + 1 ELSE processed
  /\ worker' = "loop"
  /\ UNCHANGED bufferVars /\ WorkerOnly

Worker == \/ WorkerLoop \/ WorkerCheck \/ WorkerBlock \/ WorkerBegin
          \/ WorkerFree \/ \E success \in BOOLEAN : WorkerReport(success)

(***************************************************************************)
(* The key callbacks, on the consumer thread of the key hook, from the     *)
(* creation of the hook to its destruction.                                *)
(***************************************************************************)
KeysOnly == UNCHANGED <<producerVars, audioDataReady, consumerVars, bufferVars,
                        workerVars>>
HookUp == main \notin {"return", "finished", "aborted"}

PressA ==
  /\ HookUp /\ keys = "idle" /\ presses < MaxPresses
  /\ startStopFlag' = ~startStopFlag
  /\ presses' = presses + 1
  /\ UNCHANGED <<keys, exit, mainVars>> /\ KeysOnly

(* m_exit is set without m_exitLock.                                       *)
PressEscape ==
  /\ HookUp /\ keys = "idle" /\ ~exit
  /\ exit' = TRUE
  /\ keys' = "notify"
  /\ UNCHANGED <<startStopFlag, presses, mainVars>> /\ KeysOnly

KeysNotify ==
  /\ keys = "notify"
  /\ main' = Notified(main)
  /\ keys' = "idle"
  /\ UNCHANGED <<startStopFlag, presses, exit, audioUp, deviceOn>> /\ KeysOnly

(***************************************************************************)
(* main, from the creation of the audio manager on                         *)
(***************************************************************************)
MainOnly == UNCHANGED <<producerVars, audioDataReady, bufferVars, processed,
                        keyVars, read, consumed, available, toRead>>
ThreadsKept == UNCHANGED <<reader, worker>>

(* createContext and selectDevicesAndFinalize: both succeed, or cleanup.   *)
MainCreateAudio(ok) ==
  /\ main = "audioInit"
  /\ audioUp' = ok
  /\ main' = IF ok THEN "spawn" ELSE "destroyAudio"
  /\ UNCHANGED <<deviceOn, exit>> /\ ThreadsKept /\ MainOnly

MainSpawn ==
  /\ main = "spawn"
  /\ reader' = "loop" /\ worker' = "loop"
  /\ main' = "start"
  /\ UNCHANGED <<audioUp, deviceOn, exit>> /\ MainOnly

(* A failed start goes to cleanup with both threads running.               *)
MainStart(ok) ==
  /\ main = "start"
  /\ deviceOn' = ok
  /\ main' = IF ok THEN "check" ELSE "destroyAudio"
  /\ UNCHANGED <<audioUp, exit>> /\ ThreadsKept /\ MainOnly

MainCheck ==
  /\ main = "check"
  /\ main' = IF exit THEN "stop" ELSE "asleep"
  /\ UNCHANGED <<audioUp, deviceOn, exit>> /\ ThreadsKept /\ MainOnly

MainBlock ==
  /\ main = "asleep"
  /\ main' = "blocked"
  /\ UNCHANGED <<audioUp, deviceOn, exit>> /\ ThreadsKept /\ MainOnly

(* ma_device_stop returns once the callback in progress has returned.      *)
MainStop ==
  /\ main = "stop" /\ device = "idle"
  /\ deviceOn' = FALSE
  /\ main' = "notifyAudio"
  /\ UNCHANGED <<audioUp, exit>> /\ ThreadsKept /\ MainOnly

MainNotifyAudio ==
  /\ main = "notifyAudio"
  /\ exit' = TRUE
  /\ reader' = Notified(reader)
  /\ main' = "joinRead"
  /\ UNCHANGED <<audioUp, deviceOn, worker>> /\ MainOnly

(* Mutation: m_readThread is not joined.                                   *)
MainSkipsJoinRead ==
  /\ main = "joinRead"
  /\ main' = "notifyInference"
  /\ UNCHANGED <<audioUp, deviceOn, exit, reader, worker>> /\ MainOnly

MainJoinRead ==
  /\ main = "joinRead" /\ reader = "done"
  /\ reader' = "joined"
  /\ main' = "notifyInference"
  /\ UNCHANGED <<audioUp, deviceOn, exit, worker>> /\ MainOnly

MainNotifyInference ==
  /\ main = "notifyInference"
  /\ worker' = Notified(worker)
  /\ main' = "joinWorker"
  /\ UNCHANGED <<audioUp, deviceOn, exit, reader>> /\ MainOnly

MainJoinWorker ==
  /\ main = "joinWorker" /\ worker = "done"
  /\ worker' = "joined"
  /\ main' = "destroyAudio"
  /\ UNCHANGED <<audioUp, deviceOn, exit, reader>> /\ MainOnly

MainDestroyAudio ==
  /\ main = "destroyAudio"
  /\ audioUp' = FALSE
  /\ main' = "destroyKeys"
  /\ UNCHANGED <<deviceOn, exit>> /\ ThreadsKept /\ MainOnly

(* The destruction of the hook joins the thread that runs the callbacks.   *)
MainDestroyKeys ==
  /\ main = "destroyKeys" /\ keys = "idle"
  /\ main' = "return"
  /\ UNCHANGED <<audioUp, deviceOn, exit>> /\ ThreadsKept /\ MainOnly

(* The backend is destroyed and main returns; the destructor of a          *)
(* std::thread that was started and not joined terminates the program.     *)
MainReturn ==
  /\ main = "return"
  /\ main' = IF {reader, worker} \subseteq {"unborn", "joined"}
             THEN "finished" ELSE "aborted"
  /\ UNCHANGED <<audioUp, deviceOn, exit>> /\ ThreadsKept /\ MainOnly

Main == \/ \E ok \in BOOLEAN : MainCreateAudio(ok) \/ MainStart(ok)
        \/ MainSpawn \/ MainCheck \/ MainBlock \/ MainStop
        \/ MainNotifyAudio \/ MainJoinRead \/ MainNotifyInference
        \/ MainJoinWorker \/ MainDestroyAudio \/ MainDestroyKeys \/ MainReturn

(***************************************************************************)
(* The whole program                                                       *)
(***************************************************************************)
SpuriousWakeup ==
  /\ \/ /\ reader = "blocked" /\ reader' = "check" /\ UNCHANGED <<worker, main>>
     \/ /\ worker = "blocked" /\ worker' = "check" /\ UNCHANGED <<reader, main>>
     \/ /\ main = "blocked" /\ main' = "check" /\ UNCHANGED <<reader, worker>>
  /\ UNCHANGED <<producerVars, audioDataReady, read, consumed, available,
                 toRead, bufferVars, processed, keyVars, exit, audioUp,
                 deviceOn>>

Terminated == main \in {"finished", "aborted"}

Next ==
  /\ ~Terminated
  /\ \/ \E n \in 1..MaxBurst : DeliverFrames(n)
     \/ Producer \/ Consumer \/ Worker \/ Main
     \/ PressA \/ PressEscape \/ KeysNotify
     \/ SpuriousWakeup

(* The operating system schedules every thread that can run, and a thread  *)
(* that finds its mutex free again and again gets it in the end; the user, *)
(* the microphone and spurious wake-ups promise nothing.                   *)
Fairness == /\ WF_vars(~Terminated /\ Producer)
            /\ SF_vars(~Terminated /\ ProducerPublish)
            /\ WF_vars(~Terminated /\ Consumer)
            /\ SF_vars(~Terminated /\ (ConsumerOverflow \/ ConsumerRelease))
            /\ WF_vars(~Terminated /\ Worker)
            /\ WF_vars(~Terminated /\ Main)
            /\ WF_vars(~Terminated /\ KeysNotify)

Spec == Init /\ [][Next]_vars /\ Fairness

-----------------------------------------------------------------------------
(***************************************************************************)
(* Safety                                                                  *)
(***************************************************************************)

(* Every variable stays in its range; the frame counters are naturals (no  *)
(* unsigned difference of the code ever wraps) and the two inference       *)
(* buffers are sequences of capture positions.                             *)
CountersOK == /\ captured \in Nat /\ produced \in Nat /\ dropped \in Nat
              /\ written \in Nat /\ read \in Nat /\ consumed \in Nat
              /\ remaining \in Nat /\ toWrite \in Nat
              /\ available \in Nat /\ toRead \in Nat
              /\ processed \in Nat /\ presses \in Nat
StatesOK   == /\ device \in DeviceState /\ reader \in ReaderState
              /\ worker \in WorkerState /\ main \in MainState
              /\ keys \in {"idle", "notify"}
FlagsOK    == /\ audioDataReady \in BOOLEAN /\ inferenceBufReady \in BOOLEAN
              /\ startStopFlag \in BOOLEAN /\ exit \in BOOLEAN
              /\ audioUp \in BOOLEAN /\ deviceOn \in BOOLEAN
BuffersOK  == inferenceBuf \in Seq(Nat) /\ inferSliceBuf \in Seq(Nat)
TypeOK     == CountersOK /\ StatesOK /\ FlagsOK /\ BuffersOK

ReadingRing == reader \in {"process", "overflow", "release", "commit"}

(* The memcpy of the callback and the resampling of the read thread run    *)
(* unlocked on windows of the same ring: the window being filled lies in   *)
(* free space, the window being read in committed space, and neither runs  *)
(* over the end of the ring, so that no sample is read while it is         *)
(* overwritten.                                                            *)
RingWindows ==
  /\ device = "copy" => /\ written + toWrite <= read + RingSize
                        /\ (written % RingSize) + toWrite <= RingSize
  /\ ReadingRing => /\ read + toRead <= written
                    /\ (read % RingSize) + toRead <= RingSize

(* Every frame the device delivered is counted once, as produced, dropped  *)
(* or still in the callback, and whenever both threads are between pieces  *)
(* m_produced - m_consumed is what the ring holds, whatever the order in   *)
(* which the two threads ran.                                              *)
FrameAccounting ==
  /\ captured = produced + dropped + remaining
  /\ device \in {"idle", "acquire", "copy"} /\ reader # "count"
        => produced = consumed + Occupied

(* The worker is never made to transcribe an empty slice, although the     *)
(* flag that wakes it is overwritten at every idle piece of audio.         *)
NeverTranscribesNothing == worker = "transcribe" => inferSliceBuf # <<>>

Increasing(s) == \A i, j \in DOMAIN s : i < j => s[i] < s[j]

(* The slice of the worker and the buffer behind it hold frames in the     *)
(* order of capture, none of them twice, whichever way the two vectors     *)
(* were swapped, cleared and refilled.                                     *)
CaptureOrder == Increasing(inferSliceBuf \o inferenceBuf)

(* Nothing is torn down in use: when the ring is gone no callback and no   *)
(* read thread is at it, and when main has returned no transcription is    *)
(* running on the destroyed backend.                                       *)
TeardownSafe ==
  /\ main \in {"destroyKeys", "return", "finished", "aborted"} =>
       /\ device = "idle" /\ ~deviceOn
       /\ ~ReadingRing /\ reader \notin {"acquire", "count"}
  /\ main \in {"finished", "aborted"} => worker # "transcribe"

(* m_processed counts distinct utterances: each one took a frame of its    *)
(* own out of the ring, so that no audio is transcribed over and over.     *)
EachUtteranceHasItsAudio == processed <= read + toRead

(* The ring and its two threads implement the bounded channel: no frame    *)
(* lost, duplicated or reordered between them, and none refused but for a  *)
(* full ring.                                                              *)
Channel == INSTANCE FrameChannel WITH
             Capacity <- RingSize, offered <- captured, accepted <- written,
             refused <- dropped, delivered <- read
ImplementsChannel == Channel!Spec

(***************************************************************************)
(* Liveness                                                                *)
(***************************************************************************)

(* No wake-up of the read thread is lost: whatever the callback committed  *)
(* is consumed, unless the program is told to exit.                        *)
AudioConsumed ==
  \A k \in 1..MaxCaptured : (written >= k) ~> (read >= k \/ exit)

(* No wake-up of the worker is lost either: a raised m_inferenceBufReady   *)
(* is taken back, unless the program is told to exit.                      *)
HandOverAnswered == inferenceBufReady ~> (~inferenceBufReady \/ exit)

(***************************************************************************)
(* What the repository says of this code and the code does not do          *)
(***************************************************************************)

(* "Press the 'Escape' Key to Stop the program": once m_exit is set the    *)
(* program ends.                                                           *)
EscapeStops == exit ~> Terminated

(* Only the worker frees the slice ("Free audio-consumer thread to give us *)
(* more data"): it does not change while the worker reads it.              *)
SliceStable ==
  [][worker = "transcribe" /\ worker' = "transcribe"
        => inferSliceBuf' = inferSliceBuf]_vars

(* "We have enough data? notify the Worker Thread so it can start          *)
(* working": what was handed over is transcribed, unless the program exits.*)
HandOverStartsWork == inferenceBufReady ~> (worker = "transcribe" \/ exit)
=============================================================================
