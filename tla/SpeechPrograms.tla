--------------------------- MODULE SpeechPrograms ---------------------------
(***************************************************************************)
(* The stand-alone programs of sandbox/ and sandbox2/, ancestors and       *)
(* siblings of the unified pipeline, and the capture device of sttserv/    *)
(* under a client: all are built from a device callback that fills a ring, *)
(* a read thread that drains it, an inference thread, a key hook and a     *)
(* main() that sets up, waits and tears down.                              *)
(*                                                                         *)
(* They differ in the order of main's steps, in what goes to cleanup, in   *)
(* which mutex is held where, and in what hands a slice over: Programs     *)
(* (module SpeechProgramTable) says so for each function of each program,  *)
(* and the actions below run the program chosen by Init.  A mutex is held  *)
(* exactly at the labels AudioLockFree and InferenceLockFree name.         *)
(*                                                                         *)
(* A burst of the callback and a piece of the reader is one unit of audio. *)
(***************************************************************************)
EXTENDS SpeechProgramTable, Naturals, Sequences

CONSTANTS
  Chosen,       (* the programs to run                                      *)
  RingSize,     (* units of audio the ring holds                            *)
  Interval,     (* m_inferenceBufferSize: units that make a slice           *)
  MaxBuffered   (* bound: units m_inferenceBuf is followed up to            *)

ASSUME ProgramsAssumption ==
  /\ Chosen \subseteq DOMAIN Programs
  /\ RingSize \in Nat \ {0} /\ Interval \in Nat \ {0}
  /\ MaxBuffered \in Nat /\ MaxBuffered >= Interval

(* These are copies that differ in nothing the threads share: one of each  *)
(* is enough of the programs Chosen.                                       *)
ASSUME CopiesAssumption ==
  /\ Programs.poc2 = Programs.poc1
  /\ Programs.poc10 = Programs.poc9 /\ Programs.whisper = Programs.poc9
  /\ Programs.parakeet.script = Programs.poc9.script

Threads   == {"reader", "worker"}
Resources == {"ring", "context", "device", "model", "hook", "file", "resampler",
              "stream", "result"}

(* What all programs have in common: their steps name threads and          *)
(* resources, a thread is spawned once and not in the cleanup, and only a  *)
(* program with a hook stops recording, which then hands a slice over.     *)
ASSUME TableAssumption ==
  \A p \in DOMAIN Programs :
    LET s == Programs[p].script
        Steps(what) == {i \in DOMAIN s : s[i].do = what}
    IN /\ DOMAIN s = 1..Len(s) /\ Len(s) \in Nat
       /\ Programs[p].cleanup \in 1..(Len(s) + 1)
       /\ \A i \in Steps("spawn") \union Steps("wake") \union Steps("join") :
            s[i].on \in Threads
       /\ \A i \in Steps("setUp") \union Steps("tearDown") : s[i].on \subseteq Resources
       /\ \A i \in Steps("setUp") : \A f \in s[i].fails :
            /\ f.undoes \union f.misuses \union f.promises \subseteq Resources
            /\ f.leaves \subseteq Resources \ {"hook"}
       /\ \A i \in Steps("spawn") :
            /\ i < Programs[p].cleanup
            /\ \A j \in Steps("spawn") : s[i].on = s[j].on => i = j
       /\ HasKeys(p) => Programs[p].reader.handsOver \in {{}, {"interval", "stop"}}
       /\ (\E i \in Steps("setUp") : "hook" \in s[i].on) => HasKeys(p)
       /\ Programs[p].worker.makes \subseteq Resources \ {"hook"}

VARIABLES
  prog,         (* the program that runs                                    *)
  pc,           (* main's next step, a position of its script               *)
  at,           (* where every thread stands                                *)
  held,         (* what has been set up and not torn down                   *)
  flagged,      (* what a destroy() takes for set up                        *)
  failed,       (* the steps of main that have failed                       *)
  misused,      (* what was torn down without having been set up            *)
  leaked,       (* what was set up again before it was torn down            *)
  playing,      (* the device runs: its callback may be called              *)
  exit, ready, recording, sliceReady,   (* m_exit, m_audioDataReady,        *)
                                        (* m_startStopFlag and              *)
                                        (* m_inferenceBufReady              *)
  ring, todo,   (* units in the ring; framesAvailable                       *)
  buf, slice,   (* lengths of m_inferenceBuf and m_inferSliceBuf            *)
  turn          (* which of two successive slices m_inferSliceBuf holds     *)

audio == <<ring, todo, buf, slice, turn>>
vars  == <<prog, pc, at, held, flagged, failed, misused, leaked, playing, exit,
           ready, recording, sliceReady, audio>>

P      == Programs[prog]
Script == P.script
Here   == Script[pc]
Done   == pc > Len(Script)
Doing(what) == ~Done /\ Here.do = what

Thread == {"main", "callback", "reader", "worker", "keys"}

Init ==
  /\ prog \in Chosen
  /\ pc = 1
  /\ at = [main |-> "run", callback |-> "idle", reader |-> "none",
           worker |-> "none", keys |-> "idle"]
  /\ held = {} /\ flagged = {} /\ failed = {} /\ misused = {} /\ leaked = {}
  /\ playing = FALSE
  /\ exit = FALSE /\ ready = FALSE /\ recording = ~HasKeys(prog)
  /\ sliceReady = FALSE
  /\ ring = 0 /\ todo = 0 /\ buf = 0 /\ slice = 0 /\ turn = 0

Move(t, label) == at' = [at EXCEPT ![t] = label]
(* notify: a thread that waits tests its predicate again, others miss it   *)
Told(f, t) == [f EXCEPT ![t] = IF @ = "wait" THEN "test" ELSE @]

AudioLockFree == at.reader # "block"
InferenceLockFree ==
  /\ at.worker # "block"
  /\ P.worker.keepsLock => at.worker \notin {"begin", "infer"}

(***************************************************************************)
(* main: a step that fails goes to cleanup, unless nobody looks            *)
(***************************************************************************)
Succeed == pc' = pc + 1 /\ UNCHANGED failed
Fail(what) == pc' = P.cleanup /\ failed' = failed \union {what}
GoOn(what) == pc' = pc + 1 /\ failed' = failed \union {what}

MainCheck ==
  /\ Doing("check")
  /\ \/ Succeed /\ "refused" \notin Here.on
     \/ Fail("check")
  /\ UNCHANGED <<prog, at, held, flagged, misused, leaked, playing, exit,
                 ready, recording, sliceReady, audio>>

MainSetUp ==
  /\ Doing("setUp")
  /\ \/ /\ Succeed
        /\ held' = held \union Here.on /\ flagged' = flagged \union Here.on
        /\ UNCHANGED misused
     \/ /\ Here.onFailure = "ignored"
        /\ pc' = pc + 1 /\ failed' = failed \union Here.on
        /\ UNCHANGED <<held, flagged, misused>>
     \/ /\ Here.onFailure = "cleanup"
        /\ Fail("setUp")
        /\ \E f \in Here.fails :
             /\ held' = (held \ f.undoes) \union f.leaves
             /\ flagged' = (flagged \ f.undoes) \union f.promises
             /\ misused' = misused \union f.misuses
  /\ UNCHANGED <<prog, at, leaked, playing, exit, ready, recording, sliceReady,
                 audio>>

MainSpawn ==
  /\ Doing("spawn") /\ Succeed
  /\ Move(Here.on, "loop")
  /\ UNCHANGED <<prog, held, flagged, misused, leaked, playing, exit, ready,
                 recording, sliceReady, audio>>

MainStart ==
  /\ Doing("start")
  /\ \/ Succeed /\ playing' = TRUE
     \/ /\ IF Here.onFailure = "ignored" THEN GoOn("start") ELSE Fail("start")
        /\ UNCHANGED playing
  /\ UNCHANGED <<prog, at, held, flagged, misused, leaked, exit, ready,
                 recording, sliceReady, audio>>

(* fgets() or getchar() returns *)
MainReadLine ==
  /\ Doing("readLine") /\ Succeed
  /\ UNCHANGED <<prog, at, held, flagged, misused, leaked, playing, exit,
                 ready, recording, sliceReady, audio>>

(* m_exitSignal.wait(m_exitLock, m_exit) *)
MainAwait ==
  /\ Doing("await") /\ at.main \in {"run", "test", "block"}
  /\ IF at.main = "block" THEN Move("main", "wait") /\ UNCHANGED <<pc, failed>>
     ELSE IF exit THEN Succeed /\ Move("main", "run")
     ELSE Move("main", "block") /\ UNCHANGED <<pc, failed>>
  /\ UNCHANGED <<prog, held, flagged, misused, leaked, playing, exit, ready,
                 recording, sliceReady, audio>>

(* stop() returns after the callback; when it fails the device may run on *)
MainStop ==
  /\ Doing("stop")
  /\ \/ Succeed /\ at.callback = "idle" /\ playing' = FALSE
     \/ /\ IF Here.onFailure = "ignored" THEN GoOn("stop") ELSE Fail("stop")
        /\ UNCHANGED playing
  /\ UNCHANGED <<prog, at, held, flagged, misused, leaked, exit, ready,
                 recording, sliceReady, audio>>

MainTellExit ==
  /\ Doing("tellExit") /\ Succeed
  /\ exit' = TRUE
  /\ UNCHANGED <<prog, at, held, flagged, misused, leaked, playing, ready,
                 recording, sliceReady, audio>>

MainWake ==
  /\ Doing("wake") /\ Succeed
  /\ at' = Told(at, Here.on)
  /\ UNCHANGED <<prog, held, flagged, misused, leaked, playing, exit, ready,
                 recording, sliceReady, audio>>

(* Mutation: the thread is detached instead of joined.                     *)
MainDetach ==
  /\ Doing("join") /\ Succeed
  /\ UNCHANGED <<prog, at, held, flagged, misused, leaked, playing, exit,
                 ready, recording, sliceReady, audio>>

MainJoin ==
  /\ Doing("join") /\ at[Here.on] = "done" /\ Succeed
  /\ Move(Here.on, "joined")
  /\ UNCHANGED <<prog, held, flagged, misused, leaked, playing, exit, ready,
                 recording, sliceReady, audio>>

(* destroy() goes by its flags; a bare uninit() does not.  The device and  *)
(* the hook are gone when no callback of theirs runs.  The destroy() of    *)
(* the hook need not return: see FairSpec.                                 *)
MainTearDown ==
  /\ Doing("tearDown") /\ Succeed
  /\ "device" \in Here.on => at.callback = "idle"
  /\ "hook" \in Here.on => at.keys = "idle"
  /\ LET gone == IF Here.always THEN Here.on ELSE Here.on \intersect flagged IN
     held' = held \ gone /\ misused' = misused \union (gone \ held)
  /\ flagged' = flagged \ Here.on
  /\ playing' = (playing /\ "device" \notin Here.on)
  /\ UNCHANGED <<prog, at, leaked, exit, ready, recording, sliceReady, audio>>

Main == \/ MainCheck \/ MainSetUp \/ MainSpawn \/ MainStart \/ MainReadLine
        \/ MainAwait \/ MainStop \/ MainTellExit \/ MainWake \/ MainJoin
        \/ MainTearDown

(***************************************************************************)
(* The callback: a unit enters the ring, or is dropped when it is full     *)
(***************************************************************************)
CallbackBegin ==
  /\ ~Done /\ playing /\ at.callback = "idle"
  /\ Move("callback", "write")
  /\ UNCHANGED <<prog, pc, held, flagged, failed, misused, leaked, playing,
                 exit, ready, recording, sliceReady, audio>>

CallbackWrite ==
  /\ ~Done /\ at.callback = "write"
  /\ IF P.producer.fills # "ring" \/ ring = RingSize
     THEN Move("callback", "idle") /\ UNCHANGED ring
     ELSE Move("callback", "publish") /\ ring' = ring + 1
  /\ UNCHANGED <<prog, pc, held, flagged, failed, misused, leaked, playing,
                 exit, ready, recording, sliceReady, todo, buf, slice, turn>>

(* Mutation: no program's callback locks any more.                         *)
CallbackPublishUnlocked ==
  /\ ~Done /\ at.callback = "publish"
  /\ ready' = TRUE
  /\ Move("callback", "notify")
  /\ UNCHANGED <<prog, pc, held, flagged, failed, misused, leaked, playing,
                 exit, recording, sliceReady, audio>>

CallbackPublish ==
  /\ ~Done /\ at.callback = "publish"
  /\ P.producer.locks => AudioLockFree
  /\ ready' = TRUE
  /\ Move("callback", "notify")
  /\ UNCHANGED <<prog, pc, held, flagged, failed, misused, leaked, playing,
                 exit, recording, sliceReady, audio>>

CallbackNotify ==
  /\ ~Done /\ at.callback = "notify"
  /\ at' = [Told(at, "reader") EXCEPT !.callback = "idle"]
  /\ UNCHANGED <<prog, pc, held, flagged, failed, misused, leaked, playing,
                 exit, ready, recording, sliceReady, audio>>

Callback == CallbackBegin \/ CallbackWrite \/ CallbackPublish \/ CallbackNotify

(***************************************************************************)
(* The read thread                                                         *)
(***************************************************************************)
ReaderLoop ==
  /\ ~Done /\ at.reader = "loop"
  /\ Move("reader", IF exit THEN "done" ELSE "test")
  /\ UNCHANGED <<prog, pc, held, flagged, failed, misused, leaked, playing,
                 exit, ready, recording, sliceReady, audio>>

ReaderTest ==
  /\ ~Done /\ at.reader = "test"
  /\ IF exit \/ ready THEN ready' = FALSE /\ Move("reader", "snapshot")
     ELSE UNCHANGED ready /\ Move("reader", "block")
  /\ UNCHANGED <<prog, pc, held, flagged, failed, misused, leaked, playing,
                 exit, recording, sliceReady, audio>>

ReaderBlock ==
  /\ ~Done /\ at.reader = "block"
  /\ Move("reader", "wait")
  /\ UNCHANGED <<prog, pc, held, flagged, failed, misused, leaked, playing,
                 exit, ready, recording, sliceReady, audio>>

(* Mutation: a whole ring is drained whatever it holds.                    *)
ReaderDrainsWholeRing ==
  /\ ~Done /\ at.reader = "snapshot"
  /\ Move("reader", "drain") /\ todo' = RingSize
  /\ UNCHANGED <<prog, pc, held, flagged, failed, misused, leaked, playing,
                 exit, ready, recording, sliceReady, ring, buf, slice, turn>>

ReaderSnapshot ==
  /\ ~Done /\ at.reader = "snapshot"
  /\ IF P.reader.testsExit /\ exit THEN Move("reader", "done") /\ UNCHANGED todo
     ELSE Move("reader", "drain") /\ todo' = ring
  /\ UNCHANGED <<prog, pc, held, flagged, failed, misused, leaked, playing,
                 exit, ready, recording, sliceReady, ring, buf, slice, turn>>

(* One piece: appended while recording, else the slice may be complete.    *)
ReaderPiece ==
  /\ ~Done /\ at.reader = "drain"
  /\ IF todo = 0 THEN Move("reader", "loop") /\ UNCHANGED buf
     ELSE IF P.reader.handsOver = {} THEN Move("reader", "commit") /\ UNCHANGED buf
     ELSE IF recording
     THEN /\ buf' = IF buf = MaxBuffered THEN buf ELSE buf + 1
          /\ Move("reader", IF buf' >= Interval THEN "interval" ELSE "commit")
     ELSE Move("reader", "stop") /\ UNCHANGED buf
  /\ UNCHANGED <<prog, pc, held, flagged, failed, misused, leaked, playing,
                 exit, ready, recording, sliceReady, ring, todo, slice, turn>>

(* Swap the buffers, clear the new m_inferenceBuf and notify the worker.   *)
(* turn is followed where the box is claimed.                              *)
HandOver == /\ slice' = buf /\ buf' = 0
            /\ turn' = IF P.worker.keepsLock THEN 1 - turn ELSE turn
            /\ at' = [Told(at, "worker") EXCEPT !.reader = "commit"]

(* Mutation: hands over without asking whether the last slice is taken.    *)
ReaderIntervalUnasked ==
  /\ ~Done /\ at.reader = "interval" /\ InferenceLockFree
  /\ HandOver
  /\ sliceReady' = TRUE
  /\ UNCHANGED <<prog, pc, held, flagged, failed, misused, leaked, playing,
                 exit, ready, recording, ring, todo>>

ReaderInterval ==
  /\ ~Done /\ at.reader = "interval" /\ InferenceLockFree
  /\ IF ~sliceReady THEN HandOver ELSE Move("reader", "commit") /\ UNCHANGED <<buf, slice, turn>>
  /\ sliceReady' = TRUE
  /\ UNCHANGED <<prog, pc, held, flagged, failed, misused, leaked, playing,
                 exit, ready, recording, ring, todo>>

(* Mutation: hands over at every idle piece, also an empty buffer.         *)
ReaderStopAlways ==
  /\ ~Done /\ at.reader = "stop" /\ InferenceLockFree
  /\ sliceReady' = TRUE
  /\ HandOver
  /\ UNCHANGED <<prog, pc, held, flagged, failed, misused, leaked, playing,
                 exit, ready, recording, ring, todo>>

ReaderStop ==
  /\ ~Done /\ at.reader = "stop" /\ InferenceLockFree
  /\ sliceReady' = (buf > 0)
  /\ IF buf > 0 THEN HandOver ELSE Move("reader", "commit") /\ UNCHANGED <<buf, slice, turn>>
  /\ UNCHANGED <<prog, pc, held, flagged, failed, misused, leaked, playing,
                 exit, ready, recording, ring, todo>>

ReaderCommit ==
  /\ ~Done /\ at.reader = "commit"
  /\ ring' = ring - 1 /\ todo' = todo - 1
  /\ Move("reader", "drain")
  /\ UNCHANGED <<prog, pc, held, flagged, failed, misused, leaked, playing,
                 exit, ready, recording, sliceReady, buf, slice, turn>>

Reader == \/ ReaderLoop \/ ReaderTest \/ ReaderBlock \/ ReaderSnapshot
          \/ ReaderPiece \/ ReaderInterval \/ ReaderStop \/ ReaderCommit

(***************************************************************************)
(* The inference thread                                                    *)
(***************************************************************************)
WorkerLoop ==
  /\ ~Done /\ at.worker = "loop"
  /\ Move("worker", IF exit THEN "done" ELSE "test")
  /\ UNCHANGED <<prog, pc, held, flagged, failed, misused, leaked, playing,
                 exit, ready, recording, sliceReady, audio>>

WorkerTest ==
  /\ ~Done /\ at.worker = "test"
  /\ Move("worker", IF exit \/ sliceReady THEN "begin" ELSE "block")
  /\ UNCHANGED <<prog, pc, held, flagged, failed, misused, leaked, playing,
                 exit, ready, recording, sliceReady, audio>>

WorkerBlock ==
  /\ ~Done /\ at.worker = "block"
  /\ Move("worker", "wait")
  /\ UNCHANGED <<prog, pc, held, flagged, failed, misused, leaked, playing,
                 exit, ready, recording, sliceReady, audio>>

WorkerBegin ==
  /\ ~Done /\ at.worker = "begin"
  /\ IF exit THEN Move("worker", "done") /\ UNCHANGED <<held, flagged, leaked>>
     ELSE /\ Move("worker", "infer")
          /\ leaked' = leaked \union (P.worker.makes \intersect held)
          /\ held' = held \union P.worker.makes
          /\ flagged' = flagged \union P.worker.makes
  /\ UNCHANGED <<prog, pc, failed, misused, playing, exit, ready, recording,
                 sliceReady, audio>>

WorkerClear ==
  /\ ~Done /\ at.worker = "infer"
  /\ slice' = 0 /\ sliceReady' = FALSE
  /\ Move("worker", "loop")
  /\ held' = held \ P.worker.frees /\ flagged' = flagged \ P.worker.frees
  /\ UNCHANGED <<prog, pc, failed, misused, leaked, playing, exit, ready,
                 recording, ring, todo, buf, turn>>

Worker == WorkerLoop \/ WorkerTest \/ WorkerBlock \/ WorkerBegin \/ WorkerClear

(***************************************************************************)
(* The key callbacks, while the hook lives                                 *)
(***************************************************************************)
KeysHeard == ~Done /\ "hook" \in held /\ at.keys = "idle"

PressA ==
  /\ KeysHeard
  /\ recording' = ~recording
  /\ UNCHANGED <<prog, pc, at, held, flagged, failed, misused, leaked, playing,
                 exit, ready, sliceReady, audio>>

PressEscape ==
  /\ KeysHeard
  /\ exit' = TRUE
  /\ Move("keys", "notify")
  /\ UNCHANGED <<prog, pc, held, flagged, failed, misused, leaked, playing,
                 ready, recording, sliceReady, audio>>

KeysNotify ==
  /\ ~Done /\ at.keys = "notify"
  /\ at' = [Told(at, "main") EXCEPT !.keys = "idle"]
  /\ UNCHANGED <<prog, pc, held, flagged, failed, misused, leaked, playing,
                 exit, ready, recording, sliceReady, audio>>

Keys == PressA \/ PressEscape \/ KeysNotify

Next == Main \/ Callback \/ Reader \/ Worker \/ Keys

Spec == Init /\ [][Next]_vars

(* The destroy() of a hook that was created joins two threads which may    *)
(* have missed its notification, be blocked in read() or not have got its  *)
(* WM_QUIT (AsyncKeyHook, WindowsKeyHook): it returns at once, after the   *)
(* next key, or never.                                                     *)
InHookDestroy == Doing("tearDown") /\ "hook" \in Here.on \intersect held

(* Every thread that can step does in the end; nobody need press a key,    *)
(* and main need not come out of the hook's destroy().  A device that is   *)
(* torn down calls back no more once the running callback has returned:    *)
(* the tear-down is not put off for ever by calls.                         *)
FairSpec == /\ Spec
            /\ WF_vars(Main /\ ~Doing("readLine") /\ ~InHookDestroy)
            /\ SF_vars(MainTearDown /\ ~InHookDestroy)
            /\ WF_vars(Reader) /\ WF_vars(Worker) /\ WF_vars(Callback)
            /\ WF_vars(KeysNotify)

(***************************************************************************)
(* Properties                                                              *)
(***************************************************************************)
Labels == {"none", "run", "idle", "loop", "test", "block", "wait", "snapshot",
           "drain", "interval", "stop", "commit", "begin", "infer", "done",
           "joined", "write", "publish", "notify"}

(* Every variable stays in its range.                                      *)
TypeOK ==
  /\ prog \in Chosen
  /\ pc \in 1..(Len(Script) + 1)
  /\ at \in [Thread -> Labels]
  /\ held \subseteq Resources /\ flagged \subseteq Resources
  /\ leaked \subseteq Resources /\ misused \subseteq Resources
  /\ {playing, exit, ready, recording, sliceReady} \subseteq BOOLEAN
  /\ ring \in 0..RingSize /\ todo \in 0..ring
  /\ buf \in 0..MaxBuffered /\ slice \in 0..MaxBuffered /\ turn \in 0..1

(* Audio moves only through what is set up: the callback in its ring (or   *)
(* resampler), the reader in the ring, the worker in the model.  The one   *)
(* way out is a failed step that main goes on from: a device that did not  *)
(* stop, whose threads are not joined, or a resampler nobody checked.      *)
UsesOnlyWhatIsSetUp ==
  \/ failed \intersect {"stop", "resampler"} # {}
  \/ /\ at.callback = "write" /\ P.producer.fills = "ring" => "ring" \in held
     /\ at.callback = "write" /\ P.producer.fills = "file" => "resampler" \in held
     /\ at.reader \in {"drain", "interval", "stop", "commit"} => "ring" \in held
     /\ at.worker = "infer" => "model" \in held

(* A main that ends leaves a thread unjoined, which std::thread answers    *)
(* with std::terminate, only when the device did not start or stop; the    *)
(* capture device joins its thread even then.                              *)
EndsJoined ==
  (Done /\ (prog = "capture" \/ failed \intersect {"start", "stop"} = {}))
    => {at.reader, at.worker} \subseteq {"none", "joined"}

(* What is still set up when main ends.                                    *)
Forgotten(p) ==
  CASE p = "poc4" -> {"model"}
    [] p = "poc7" -> {"file"}
    [] p = "poc11" -> {"context"}
    [] p = "poc12" -> {"result"}
    [] p = "sherpa" -> {"stream"}
    [] OTHER -> {}

(* No program leaves more set up than these: the model of poc4, the file   *)
(* of a poc7 without a device, the context of poc11, the results of poc12  *)
(* and the stream that main of sherpa made.                                *)
LeavesNothingElse == Done => (held \union leaked) \subseteq Forgotten(prog)

(* What main may tear down although it is not there: the two oldest        *)
(* programs, which go by no flags, all when setting up has failed; poc7    *)
(* what it failed to set up and did not check; poc4 the ring, whose flag   *)
(* outlives it when create() fails; the capture device, whose stages share *)
(* one bit, whatever it had not come to.                                   *)
MayMisuse ==
  CASE prog \in {"poc1", "poc2"} /\ failed \intersect {"check", "setUp"} # {} ->
         {"ring", "context", "device"}
    [] prog = "poc7" -> failed
    [] prog = "poc4" /\ "setUp" \in failed -> {"ring"}
    [] prog = "capture" /\ "setUp" \in failed ->
         {"ring", "context", "device", "resampler"}
    [] OTHER -> {}

(* Whatever has failed, the clean-up and every roll-back tear down what is *)
(* there, once: nothing else is misused, and nothing at all when it was    *)
(* the device that did not start or stop.                                  *)
TearsDownWhatIsSetUp == misused \subseteq MayMisuse

(* A thread that waits for audio or for a slice is not owed a wake-up: the *)
(* flag it waits for is clear or the notification is on its way.           *)
NoWakeUpIsOwed ==
  /\ (P.producer.locks /\ at.reader = "wait" /\ ready) => at.callback = "notify"
  /\ at.worker = "wait" => ~sliceReady

(* However the flag is overwritten, nothing empty is transcribed.          *)
NeverTranscribesNothing == at.worker = "infer" => slice > 0

(* The programs whose worker keeps the lock hand slices over through a     *)
(* box of one place.                                                       *)
Box == INSTANCE SliceBox WITH
         mayReplace <- "stop" \in P.reader.handsOver,
         place <- IF ~sliceReady THEN "empty"
                  ELSE IF at.worker = "infer" THEN "taken" ELSE "full"

(* A slice in the worker's hands is never touched by the reader, and one   *)
(* that waits is replaced or withdrawn only by the stop of a recording.    *)
HandsOverThroughBox == [][P.worker.keepsLock => [Box!Next]_<<Box!view>>]_vars

(* Without its mutex a notification may find a thread that has tested its  *)
(* predicate and does not wait yet.                                        *)
MayMiss(t) == ~playing /\ Doing("wake") /\ Here.on = t /\ at[t] = "block"

(* Once told to exit every program gets past its joins: no order of locks, *)
(* no full ring and no pending slice can keep it.  It ends, or comes to    *)
(* the destroy() of its hook, which may not return.  With the device       *)
(* stopped two ways are left to hang before that: a notification may be    *)
(* missed, and the capture device sends its thread none.                   *)
ShutsDown ==
  Doing("tellExit") ~> \/ Done \/ InHookDestroy
                       \/ \E t \in {"reader", "worker"} : MayMiss(t)
                       \/ prog = "capture" /\ ~playing /\ at.reader = "wait"
=============================================================================
