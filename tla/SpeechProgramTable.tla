------------------------- MODULE SpeechProgramTable -------------------------
(***************************************************************************)
(* What every function of the stand-alone programs does with the state its *)
(* threads share: the steps of main(), and for the callback, the read      *)
(* thread and the inference thread the points in which the copies differ.  *)
(* The names follow the directories: Poc4 is                               *)
(* sandbox/source/examples/4poc_whisper_3s_interval, Whisper is            *)
(* sandbox2/whispercpp.                                                    *)
(***************************************************************************)
LOCAL INSTANCE Sequences
LOCAL INSTANCE Naturals

(***************************************************************************)
(* The steps of a main                                                     *)
(***************************************************************************)
Check(rs)   == [do |-> "check", on |-> rs]  (* a call that may fail        *)

(* How a call that sets up may fail: what of the earlier set-up is gone    *)
(* then, what it has left behind, what its roll-back tore down although it *)
(* was not there, and what the flags promise although it is not there.     *)
Nothing == [undoes |-> {}, leaves |-> {}, misuses |-> {}, promises |-> {}]

SetUp(rs)   == [do |-> "setUp", on |-> rs, onFailure |-> "cleanup", fails |-> {Nothing}]
Attempt(rs) == [do |-> "setUp", on |-> rs, onFailure |-> "ignored", fails |-> {Nothing}]
(* AsyncKeyHook::create() starts two threads and answers true              *)
Hook        == [do |-> "setUp", on |-> {"hook"}, onFailure |-> "never", fails |-> {}]
Spawn(t)    == [do |-> "spawn", on |-> t]
Start       == [do |-> "start", onFailure |-> "cleanup"]
StartBlind  == [do |-> "start", onFailure |-> "ignored"]
ReadLine    == [do |-> "readLine"]
Await       == [do |-> "await"]
Stop        == [do |-> "stop", onFailure |-> "cleanup"]
StopBlind   == [do |-> "stop", onFailure |-> "ignored"]
TellExit    == [do |-> "tellExit"]
Wake(t)     == [do |-> "wake", on |-> t]
Join(t)     == [do |-> "join", on |-> t]
(* a destroy() that goes by its flags, and a call that does not            *)
Destroy(rs) == [do |-> "tearDown", on |-> rs, always |-> FALSE]
Uninit(rs)  == [do |-> "tearDown", on |-> rs, always |-> TRUE]

(***************************************************************************)
(* The audio managers as a program sees them (StagedManagers goes into     *)
(* their stages): v1 is audio.cpp, v2 audio2.cpp, v3 audio3.cpp            *)
(***************************************************************************)
(* When the context fails create() undoes the ring and not its flag; when  *)
(* the device list or the device fails, flags and all.                     *)
CreateV1    == [SetUp({"ring", "context", "device"}) EXCEPT
                  !.fails = {Nothing, [Nothing EXCEPT !.promises = {"ring"}]}]
ContextV1   == SetUp({"ring", "context"})
FinalizeV1  == SetUp({"device"})
DestroyV1   == <<Destroy({"device"}), Destroy({"ring", "context"})>>
ContextV2   == SetUp({"context"})
(* Mutation: the roll-back does not reset the flags.                       *)
FinalizeV2KeepsFlags ==
  [SetUp({"ring", "device"}) EXCEPT
     !.fails = {[Nothing EXCEPT !.undoes = {"context"}, !.promises = {"context"}]}]
(* The roll-back is a destroy().                                           *)
FinalizeV2  == [SetUp({"ring", "device"}) EXCEPT
                  !.fails = {[Nothing EXCEPT !.undoes = {"context"}]}]
DestroyV2   == <<Destroy({"ring"}), Destroy({"device", "context"})>>
(* Its destroy() leaves a context when the device list fails.              *)
ContextV3   == [SetUp({"context"}) EXCEPT
                  !.fails = {Nothing, [Nothing EXCEPT !.leaves = {"context"}]}]
(* refused: the latency of 1 ms asked for is below the 5 ms required       *)
FinalizeV3  == [do |-> "check", on |-> {"refused"}]

(***************************************************************************)
(* What the mains have in common                                           *)
(***************************************************************************)
(* Mutation: the inference thread is not joined.                           *)
SessionLeavesWorker(wait) ==
  <<Spawn("reader"), Spawn("worker"), Start, wait, Stop, TellExit,
    Wake("reader"), Join("reader"), Wake("worker")>>

(* Mutation: the inference thread is not notified.                         *)
SessionForgetsWake(wait) ==
  <<Spawn("reader"), Spawn("worker"), Start, wait, Stop, TellExit,
    Wake("reader"), Join("reader"), Join("worker")>>

Session(wait) ==
  <<Spawn("reader"), Spawn("worker"), Start, wait, Stop, TellExit,
    Wake("reader"), Join("reader"), Wake("worker"), Join("worker")>>

(* The model, the hook, the manager of audio2.cpp, the session.            *)
PushToTalk ==
  <<Check({"arguments"}), SetUp({"model"}), Hook, ContextV2, FinalizeV2>>
    \o Session(Await)

(* Mutation: the hook is left running.                                     *)
CleanUpV2LeavesHook == DestroyV2 \o <<Destroy({"model"})>>
CleanUpV2 == DestroyV2 \o <<Destroy({"hook"}), Destroy({"model"})>>

(***************************************************************************)
(* poc1 records, poc2 records and plays: one thread, no model              *)
(***************************************************************************)
Poc1Main ==
  [body |-> <<SetUp({"ring"}), SetUp({"context"}), Check({"list"}),
              SetUp({"device"}), Spawn("reader"), Start, ReadLine, TellExit,
              Wake("reader"), Join("reader")>>,
   cleanup |-> <<Uninit({"device"}), Uninit({"ring"}), Uninit({"context"})>>]
Poc2Main == Poc1Main

Poc1Producer == [fills |-> "ring", locks |-> TRUE]
Poc2Producer == [fills |-> "ring", locks |-> TRUE]
Poc1Reader   == [testsExit |-> FALSE, handsOver |-> {}]
Poc2Reader   == [testsExit |-> FALSE, handsOver |-> {}]
NoWorker     == [keepsLock |-> FALSE, makes |-> {}, frees |-> {}]

(***************************************************************************)
(* poc4 cuts slices of three seconds; its cleanup forgets the model        *)
(***************************************************************************)
Poc4Main ==
  [body |-> <<SetUp({"model"}), CreateV1>> \o Session(ReadLine),
   cleanup |-> DestroyV1]
Poc4Producer == [fills |-> "ring", locks |-> TRUE]
Poc4Reader   == [testsExit |-> TRUE, handsOver |-> {"interval"}]
Poc4Worker   == [keepsLock |-> TRUE, makes |-> {}, frees |-> {}]

(***************************************************************************)
(* poc6 adds push-to-talk: the A key starts and stops, Escape ends         *)
(***************************************************************************)
Poc6Main ==
  [body |-> <<SetUp({"model"}), Hook, ContextV1, Check({"list"}), FinalizeV1>>
              \o Session(Await),
   cleanup |-> DestroyV1 \o <<Destroy({"hook"}), Destroy({"model"})>>]
Poc6Producer == [fills |-> "ring", locks |-> TRUE]
Poc6Reader   == [testsExit |-> TRUE, handsOver |-> {"interval", "stop"}]
Poc6Worker   == [keepsLock |-> TRUE, makes |-> {}, frees |-> {}]

(***************************************************************************)
(* poc7 resamples to a file in the callback                                *)
(***************************************************************************)
Poc7Main ==
  [body |-> <<Attempt({"file"}), SetUp({"device"}), Attempt({"resampler"}),
              StartBlind, ReadLine, Uninit({"device"}), Uninit({"resampler"}),
              Uninit({"file"})>>,
   cleanup |-> <<>>]
Poc7Producer == [fills |-> "file", locks |-> FALSE]

(***************************************************************************)
(* poc8 resamples in the read thread; its callback no longer locks         *)
(***************************************************************************)
Poc8Main     == [body |-> PushToTalk, cleanup |-> CleanUpV2]
Poc8Producer == [fills |-> "ring", locks |-> FALSE]
Poc8Reader   == [testsExit |-> TRUE, handsOver |-> {"interval", "stop"}]
Poc8Worker   == [keepsLock |-> TRUE, makes |-> {}, frees |-> {}]

(***************************************************************************)
(* From poc9 on the worker gives the lock back before it transcribes       *)
(***************************************************************************)
Poc9Main     == [body |-> PushToTalk, cleanup |-> CleanUpV2]
Poc9Producer == [fills |-> "ring", locks |-> FALSE]
Poc9Reader   == [testsExit |-> TRUE, handsOver |-> {"interval", "stop"}]
Poc9Worker   == [keepsLock |-> FALSE, makes |-> {}, frees |-> {}]

Poc10Main     == [body |-> PushToTalk, cleanup |-> CleanUpV2]
Poc10Producer == [fills |-> "ring", locks |-> FALSE]
Poc10Reader   == [testsExit |-> TRUE, handsOver |-> {"interval", "stop"}]
Poc10Worker   == [keepsLock |-> FALSE, makes |-> {}, frees |-> {}]

(***************************************************************************)
(* poc11 is refused by the manager of audio3.cpp before it starts a thread *)
(***************************************************************************)
Poc11Main ==
  [body |-> <<Check({"arguments"}), Hook, ContextV3, FinalizeV3>>,
   cleanup |-> <<Destroy({"ring"}), Destroy({"hook"})>>]

(***************************************************************************)
(* poc12 transcribes in a session of CrispASR whose results nobody frees   *)
(***************************************************************************)
Poc12Main     == [body |-> PushToTalk, cleanup |-> CleanUpV2]
Poc12Producer == [fills |-> "ring", locks |-> FALSE]
Poc12Reader   == [testsExit |-> TRUE, handsOver |-> {"interval", "stop"}]
Poc12Worker   == [keepsLock |-> FALSE, makes |-> {"result"}, frees |-> {}]

(***************************************************************************)
(* The three siblings of the unified pipeline.  The recogniser of          *)
(* sherpa-onnx has a stream made by main and one for each slice.           *)
(***************************************************************************)
WhisperMain     == [body |-> PushToTalk, cleanup |-> CleanUpV2]
WhisperProducer == [fills |-> "ring", locks |-> FALSE]
WhisperReader   == [testsExit |-> TRUE, handsOver |-> {"interval", "stop"}]
WhisperWorker   == [keepsLock |-> FALSE, makes |-> {}, frees |-> {}]

ParakeetMain     == [body |-> PushToTalk, cleanup |-> CleanUpV2]
ParakeetProducer == [fills |-> "ring", locks |-> TRUE]
ParakeetReader   == [testsExit |-> TRUE, handsOver |-> {"interval", "stop"}]
ParakeetWorker   == [keepsLock |-> FALSE, makes |-> {}, frees |-> {}]

SherpaMain ==
  [body |-> <<Check({"arguments"}), SetUp({"model"}), Attempt({"stream"}), Hook,
              ContextV2, FinalizeV2>> \o Session(Await),
   cleanup |-> DestroyV2 \o <<Destroy({"hook"}), Destroy({"stream"}), Destroy({"model"})>>]
SherpaProducer == [fills |-> "ring", locks |-> TRUE]
SherpaReader   == [testsExit |-> TRUE, handsOver |-> {"interval", "stop"}]
SherpaWorker   == [keepsLock |-> FALSE, makes |-> {"stream"}, frees |-> {"stream"}]

(***************************************************************************)
(* The capture device of sttserv/source/capture.cpp runs its own read      *)
(* thread: start() spawns it and stop() joins it, whatever the device      *)
(* answers, and stop() does not notify.  A client creates, starts, stops   *)
(* and destroys it.  A set-up that fails destroys what its one bit says is *)
(* there: all, once the memory is.                                         *)
(***************************************************************************)
CaptureContext  ==
  [ContextV2 EXCEPT
     !.fails = {Nothing,
                [Nothing EXCEPT !.misuses = {"resampler", "ring", "device", "context"}],
                [Nothing EXCEPT !.misuses = {"resampler", "ring", "device"}]}]
CaptureFinalize ==
  [FinalizeV2 EXCEPT
     !.fails = {[Nothing EXCEPT !.undoes = {"context"}, !.misuses = absent] :
                absent \in {{"resampler", "ring", "device"}, {"resampler", "ring"},
                           {"resampler"}}}]
CaptureClient(start, stop, destroy) ==
  [body |-> <<CaptureContext, CaptureFinalize>> \o start \o <<ReadLine>> \o stop,
   cleanup |-> destroy]
CaptureStart    == <<StartBlind, Spawn("reader")>>
CaptureStop     == <<TellExit, StopBlind, Join("reader")>>
CaptureDestroy  == <<Destroy({"ring"}), Destroy({"device"}), Destroy({"context"})>>
CaptureProducer == [fills |-> "ring", locks |-> TRUE]
CaptureReader   == [testsExit |-> TRUE, handsOver |-> {}]

(* script is what main does in order, cleanup where a failure sends it.    *)
Made(main, producer, reader, worker) ==
  [script |-> main.body \o main.cleanup, cleanup |-> Len(main.body) + 1,
   producer |-> producer, reader |-> reader, worker |-> worker]

Programs ==
  [poc1  |-> Made(Poc1Main, Poc1Producer, Poc1Reader, NoWorker),
   poc2  |-> Made(Poc2Main, Poc2Producer, Poc2Reader, NoWorker),
   poc4  |-> Made(Poc4Main, Poc4Producer, Poc4Reader, Poc4Worker),
   poc6  |-> Made(Poc6Main, Poc6Producer, Poc6Reader, Poc6Worker),
   poc7  |-> Made(Poc7Main, Poc7Producer, Poc1Reader, NoWorker),
   poc8  |-> Made(Poc8Main, Poc8Producer, Poc8Reader, Poc8Worker),
   poc9  |-> Made(Poc9Main, Poc9Producer, Poc9Reader, Poc9Worker),
   poc10 |-> Made(Poc10Main, Poc10Producer, Poc10Reader, Poc10Worker),
   poc11 |-> Made(Poc11Main, Poc8Producer, Poc1Reader, NoWorker),
   poc12 |-> Made(Poc12Main, Poc12Producer, Poc12Reader, Poc12Worker),
   whisper  |-> Made(WhisperMain, WhisperProducer, WhisperReader, WhisperWorker),
   parakeet |-> Made(ParakeetMain, ParakeetProducer, ParakeetReader, ParakeetWorker),
   sherpa   |-> Made(SherpaMain, SherpaProducer, SherpaReader, SherpaWorker),
   capture  |-> Made(CaptureClient(CaptureStart, CaptureStop, CaptureDestroy),
                     CaptureProducer, CaptureReader, NoWorker)]

(* A program without keys always records.                                  *)
HasKeys(p) == \E i \in DOMAIN Programs[p].script : Programs[p].script[i] = Hook
=============================================================================
