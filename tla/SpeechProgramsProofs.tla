------------------------- MODULE SpeechProgramsProofs -------------------------
(***************************************************************************)
(* The stand-alone programs, for every program of the table, every ring    *)
(* and every length of a slice: the hand-over between their threads, and,  *)
(* from the order of main's steps in ScriptOrder, what is set up while it  *)
(* is used, joined and torn down when main ends.                           *)
(***************************************************************************)
EXTENDS ScriptOrder, TLAPS

(***************************************************************************)
(* Where the threads stand, and what main's step says                      *)
(***************************************************************************)
PlaceOK == prog \in Chosen /\ at \in [Thread -> Labels]

LEMMA InTable == ASSUME PlaceOK PROVE prog \in DOMAIN Programs
BY ProgramsAssumption DEF PlaceOK

LEMMA StepsNameThreads ==
  ASSUME PlaceOK, NEW what \in {"spawn", "wake", "join"}, pc \in DOMAIN Script,
         Here.do = what
  PROVE  Here.on \in Threads
BY InTable, TableAssumption DEF Here, Script, P

PcOK == pc \in 1..(Len(Script) + 1)

(* A thread that is still to be spawned is not there.                      *)
SpawnInv == \A i \in DOMAIN Script :
              i >= pc /\ Script[i].do = "spawn" => at[Script[i].on] = "none"

StandInv == PlaceOK /\ PcOK /\ SpawnInv

LEMMA ScriptShape ==
  ASSUME PlaceOK
  PROVE  /\ DOMAIN Script = 1..Len(Script) /\ Len(Script) \in Nat
         /\ P.cleanup \in 1..(Len(Script) + 1)
         /\ \A i \in DOMAIN Script : Script[i].do = "spawn" =>
              /\ i < P.cleanup
              /\ \A j \in DOMAIN Script :
                   Script[j].do = "spawn" /\ Script[i].on = Script[j].on => i = j
BY InTable, TableAssumption DEF Script, P

(* Main moves a thread only out of nothing, out of its end or out of its   *)
(* wait, and touches nothing the threads share but m_exit.                 *)
MovedByMain(t) == \/ at'[t] = at[t]
                  \/ at[t] = "none" /\ at'[t] = "loop"
                  \/ at[t] = "done" /\ at'[t] = "joined"
                  \/ at[t] = "wait" /\ at'[t] = "test"

LEMMA MainMoves ==
  ASSUME StandInv, Main
  PROVE  /\ UNCHANGED <<prog, ready, recording, sliceReady, audio>>
         /\ at' \in [Thread -> Labels]
         /\ at'.callback = at.callback /\ at'.keys = at.keys
         /\ \A t \in Threads : MovedByMain(t)
         /\ exit => exit'
<1> USE DEF StandInv, PlaceOK, Thread, Labels, Threads, MovedByMain
<1>1. pc \in DOMAIN Script \/ Done
  BY ScriptShape DEF PcOK, Done
<1>2. CASE MainSpawn
  <2>1. pc \in DOMAIN Script /\ Here.do = "spawn"
    BY <1>1, <1>2 DEF MainSpawn, Doing
  <2>2. Here.on \in Threads /\ at[Here.on] = "none"
    BY <2>1, StepsNameThreads, ScriptShape DEF SpawnInv, Here, PcOK
  <2>3. QED
    BY <1>2, <2>2 DEF MainSpawn, Move
<1>3. CASE MainWake
  <2>1. pc \in DOMAIN Script /\ Here.do = "wake"
    BY <1>1, <1>3 DEF MainWake, Doing
  <2>2. Here.on \in Threads
    BY <2>1, StepsNameThreads
  <2>3. QED
    BY <1>3, <2>2 DEF MainWake, Told
<1>4. CASE MainJoin
  <2>1. pc \in DOMAIN Script /\ Here.do = "join"
    BY <1>1, <1>4 DEF MainJoin, Doing
  <2>2. Here.on \in Threads
    BY <2>1, StepsNameThreads
  <2>3. QED
    BY <1>4, <2>2 DEF MainJoin, Move
<1>5. CASE MainAwait
  BY <1>5 DEF MainAwait, Move
<1>6. CASE \/ MainCheck \/ MainSetUp \/ MainStart \/ MainReadLine \/ MainStop
           \/ MainTellExit \/ MainTearDown
  BY <1>6 DEF MainCheck, MainSetUp, MainStart, MainReadLine, MainStop,
              MainTellExit, MainTearDown
<1>7. QED
  BY <1>2, <1>3, <1>4, <1>5, <1>6 DEF Main

-----------------------------------------------------------------------------
LEMMA StandInvInit == Init => StandInv
<1> SUFFICES ASSUME Init PROVE StandInv
  OBVIOUS
<1>1. PlaceOK
  BY DEF Init, PlaceOK, Thread, Labels
<1>2. QED
  BY <1>1, ScriptShape, InTable, TableAssumption
     DEF Init, StandInv, PcOK, SpawnInv, Script, P, Threads

(* A thread u that notifies t and moves on.                                *)
LEMMA NotifyMoves ==
  ASSUME PlaceOK, NEW t \in Thread, NEW u \in Thread, t # u, NEW l \in Labels,
         at' = [Told(at, t) EXCEPT ![u] = l]
  PROVE  /\ at' \in [Thread -> Labels]
         /\ at'[u] = l
         /\ at'[t] = IF at[t] = "wait" THEN "test" ELSE at[t]
         /\ \A v \in Thread \ {t, u} : at'[v] = at[v]
<1>1. /\ Told(at, t) \in [Thread -> Labels]
      /\ Told(at, t)[t] = IF at[t] = "wait" THEN "test" ELSE at[t]
      /\ \A v \in Thread \ {t} : Told(at, t)[v] = at[v]
  BY DEF Told, PlaceOK, Labels
<1>2. QED
  BY <1>1

LEMMA CallbackNotifyMoves ==
  ASSUME PlaceOK, CallbackNotify
  PROVE  /\ at' \in [Thread -> Labels] /\ at'.callback = "idle"
         /\ at'.reader = IF at.reader = "wait" THEN "test" ELSE at.reader
         /\ at'.worker = at.worker /\ at'.keys = at.keys
<1>1. "reader" \in Thread /\ "callback" \in Thread /\ "idle" \in Labels
  BY DEF Thread, Labels
<1>2. at' = [Told(at, "reader") EXCEPT !["callback"] = "idle"]
  BY DEF CallbackNotify
<1>3. /\ at' \in [Thread -> Labels] /\ at'["callback"] = "idle"
      /\ at'["reader"] = IF at["reader"] = "wait" THEN "test" ELSE at["reader"]
      /\ \A v \in Thread \ {"reader", "callback"} : at'[v] = at[v]
  BY <1>1, <1>2, NotifyMoves
<1>4. QED
  BY <1>3 DEF Thread

LEMMA KeysNotifyMoves ==
  ASSUME PlaceOK, KeysNotify
  PROVE  /\ at' \in [Thread -> Labels]
         /\ \A t \in {"callback", "reader", "worker"} : at'[t] = at[t]
<1>1. "main" \in Thread /\ "keys" \in Thread /\ "idle" \in Labels
  BY DEF Thread, Labels
<1>2. at' = [Told(at, "main") EXCEPT !["keys"] = "idle"]
  BY DEF KeysNotify
<1>3. /\ at' \in [Thread -> Labels] /\ at'["keys"] = "idle"
      /\ at'["main"] = IF at["main"] = "wait" THEN "test" ELSE at["main"]
      /\ \A v \in Thread \ {"main", "keys"} : at'[v] = at[v]
  BY <1>1, <1>2, NotifyMoves
<1>4. QED
  BY <1>3 DEF Thread

LEMMA HandOverMoves ==
  ASSUME PlaceOK, HandOver
  PROVE  /\ at' \in [Thread -> Labels] /\ at'.reader = "commit"
         /\ at'.worker = IF at.worker = "wait" THEN "test" ELSE at.worker
         /\ at'.callback = at.callback /\ at'.keys = at.keys
<1>1. "worker" \in Thread /\ "reader" \in Thread /\ "commit" \in Labels
  BY DEF Thread, Labels
<1>2. at' = [Told(at, "worker") EXCEPT !["reader"] = "commit"]
  BY DEF HandOver
<1>3. /\ at' \in [Thread -> Labels] /\ at'["reader"] = "commit"
      /\ at'["worker"] = IF at["worker"] = "wait" THEN "test" ELSE at["worker"]
      /\ \A v \in Thread \ {"worker", "reader"} : at'[v] = at[v]
  BY <1>1, <1>2, NotifyMoves
<1>4. QED
  BY <1>3 DEF Thread

(* A thread that is not there does not move by itself.                     *)
LEMMA OthersMove ==
  ASSUME PlaceOK, Callback \/ Reader \/ Worker \/ Keys
  PROVE  /\ UNCHANGED <<prog, pc>> /\ at' \in [Thread -> Labels]
         /\ \A t \in Threads : at[t] = "none" => at'[t] = "none"
<1> USE DEF PlaceOK, Thread, Labels, Threads
<1>1. CASE Callback
  BY <1>1, CallbackNotifyMoves
     DEF Callback, CallbackBegin, CallbackWrite, CallbackPublish,
         CallbackNotify, Move
<1>2. CASE Reader
  <2>1. CASE ReaderInterval \/ ReaderStop
    BY <2>1, HandOverMoves DEF ReaderInterval, ReaderStop, Move
  <2>2. CASE ReaderPiece
    BY <2>2 DEF ReaderPiece, Move
  <2>3. CASE \/ ReaderLoop \/ ReaderTest \/ ReaderBlock \/ ReaderSnapshot
             \/ ReaderCommit
    BY <2>3 DEF ReaderLoop, ReaderTest, ReaderBlock, ReaderSnapshot,
                ReaderCommit, Move
  <2>4. QED
    BY <1>2, <2>1, <2>2, <2>3 DEF Reader
<1>3. CASE Worker
  BY <1>3 DEF Worker, WorkerLoop, WorkerTest, WorkerBlock, WorkerBegin,
              WorkerClear, Move
<1>4. CASE Keys
  BY <1>4, KeysNotifyMoves DEF Keys, PressA, PressEscape, KeysNotify, Move
<1>5. QED
  BY <1>1, <1>2, <1>3, <1>4

LEMMA StandInvNext == StandInv /\ [Next]_vars => StandInv'
<1> SUFFICES ASSUME StandInv, [Next]_vars PROVE StandInv'
  OBVIOUS
<1>1. CASE UNCHANGED vars
  BY <1>1 DEF StandInv, PlaceOK, PcOK, SpawnInv, Script, P, vars
<1>2. CASE Callback \/ Reader \/ Worker \/ Keys
  <2>1. /\ UNCHANGED <<prog, pc>> /\ at' \in [Thread -> Labels]
        /\ \A t \in Threads : at[t] = "none" => at'[t] = "none"
    BY <1>2, OthersMove DEF StandInv
  <2>2. \A i \in DOMAIN Script : Script[i].do = "spawn" => Script[i].on \in Threads
    BY InTable, TableAssumption DEF StandInv, Script, P
  <2>3. QED
    BY <2>1, <2>2 DEF StandInv, PlaceOK, PcOK, SpawnInv, Script, P
<1>3. CASE Main
  <2>1. /\ prog' = prog /\ at' \in [Thread -> Labels]
        /\ \A t \in Threads : MovedByMain(t)
    BY <1>3, MainMoves
  <2>2. Script' = Script /\ P' = P
    BY <2>1 DEF Script, P
  <2>3. PlaceOK'
    BY <2>1 DEF StandInv, PlaceOK
  <2>4. ~Done /\ pc \in 1..Len(Script) /\ Len(Script) \in Nat
    BY <1>3, ScriptShape
       DEF StandInv, PcOK, Main, MainCheck, MainSetUp, MainSpawn, MainStart,
           MainReadLine, MainAwait, MainStop, MainTellExit, MainWake, MainJoin,
           MainTearDown, Doing, Done
  <2>5. pc' \in {pc, pc + 1, P.cleanup}
    BY <1>3
       DEF Main, MainCheck, MainSetUp, MainSpawn, MainStart, MainReadLine,
           MainAwait, MainStop, MainTellExit, MainWake, MainJoin,
           MainTearDown, Succeed, Fail, GoOn
  <2>6. PcOK'
    BY <2>2, <2>4, <2>5, ScriptShape DEF StandInv, PcOK
  <2>7. SpawnInv'
    <3> SUFFICES ASSUME NEW i \in DOMAIN Script, i >= pc',
                        Script[i].do = "spawn"
                 PROVE  at'[Script[i].on] = "none"
      BY <2>2 DEF SpawnInv
    <3>1. /\ i \in 1..Len(Script) /\ i < P.cleanup
          /\ Script[i].on \in Threads
      BY ScriptShape, InTable, TableAssumption DEF StandInv, Script, P
    <3>2. i >= pc /\ pc' # P.cleanup
      BY <2>4, <2>5, <2>6, <3>1, ScriptShape DEF StandInv, PcOK
    <3>3. at[Script[i].on] = "none"
      BY <3>2 DEF StandInv, SpawnInv
    <3>4. CASE MainSpawn
      <4>1. pc' = pc + 1 /\ at' = [at EXCEPT ![Here.on] = "loop"]
            /\ Here.do = "spawn"
        BY <3>4 DEF MainSpawn, Succeed, Move, Doing
      <4>2. i # pc
        BY <2>4, <4>1
      <4>3. Script[i].on # Here.on
        BY <2>4, <3>1, <4>1, <4>2, ScriptShape DEF StandInv, Here
      <4>4. QED
        BY <3>1, <3>3, <4>1, <4>3 DEF StandInv, PlaceOK, Thread, Threads
    <3>5. CASE ~MainSpawn
      <4>1. at'[Script[i].on] = at[Script[i].on]
        BY <1>3, <3>1, <3>3, <3>5
           DEF Main, MainCheck, MainSetUp, MainStart, MainReadLine, MainAwait,
               MainStop, MainTellExit, MainWake, MainJoin, MainTearDown, Move,
               Told, StandInv, PlaceOK, Thread, Threads
      <4>2. QED
        BY <3>3, <4>1
    <3>6. QED
      BY <3>4, <3>5
  <2>8. QED
    BY <2>3, <2>6, <2>7 DEF StandInv
<1>4. QED
  BY <1>1, <1>2, <1>3 DEF Next

-----------------------------------------------------------------------------
(***************************************************************************)
(* The audio on its way through ring, buffer and slice                     *)
(***************************************************************************)
FlagsOK == /\ ready \in BOOLEAN /\ recording \in BOOLEAN
           /\ sliceReady \in BOOLEAN

CountsOK ==
  /\ ring \in 0..RingSize /\ todo \in 0..ring
  /\ buf \in 0..MaxBuffered /\ slice \in 0..MaxBuffered /\ turn \in 0..1
  /\ at.reader \in {"interval", "stop", "commit"} => todo > 0

(* A raised flag, or a worker past its predicate, stands for a slice.      *)
SliceInv ==
  /\ \/ sliceReady \/ at.worker = "infer"
     \/ at.worker = "begin" /\ ~exit
     => slice > 0
  /\ at.reader = "interval" => buf > 0

AudioInv == FlagsOK /\ CountsOK /\ SliceInv

LEMMA AudioInit == Init => AudioInv
<1> SUFFICES ASSUME Init PROVE AudioInv
  OBVIOUS
<1>1. FlagsOK
  <2>1. recording = ~HasKeys(prog)
    BY DEF Init
  <2>2. recording \in BOOLEAN
    BY <2>1
  <2>3. QED
    BY <2>2 DEF Init, FlagsOK
<1>2. CountsOK
  BY ProgramsAssumption DEF Init, CountsOK
<1>3. SliceInv
  BY DEF Init, SliceInv
<1>4. QED
  BY <1>1, <1>2, <1>3 DEF AudioInv

LEMMA FlagsNext ==
  ASSUME StandInv, FlagsOK, [Next]_vars
  PROVE  FlagsOK'
<1> USE DEF FlagsOK
<1>1. CASE UNCHANGED vars
  BY <1>1 DEF vars
<1>2. CASE Main
  BY <1>2, MainMoves
<1>3. CASE Callback
  BY <1>3 DEF Callback, CallbackBegin, CallbackWrite, CallbackPublish,
              CallbackNotify
<1>4. CASE Reader
  <2>1. CASE ReaderStop
    <3>1. sliceReady' = (buf > 0)
      BY <2>1 DEF ReaderStop
    <3>2. sliceReady' \in BOOLEAN
      BY <3>1
    <3>3. QED
      BY <2>1, <3>2 DEF ReaderStop
  <2>2. CASE ~ReaderStop
    BY <1>4, <2>2 DEF Reader, ReaderLoop, ReaderTest, ReaderBlock,
                      ReaderSnapshot, ReaderPiece, ReaderInterval, ReaderCommit
  <2>3. QED
    BY <2>1, <2>2
<1>5. CASE Worker
  BY <1>5 DEF Worker, WorkerLoop, WorkerTest, WorkerBlock, WorkerBegin,
              WorkerClear
<1>6. CASE PressA
  <2>1. recording' = ~recording
    BY <1>6 DEF PressA
  <2>2. recording' \in BOOLEAN
    BY <2>1
  <2>3. QED
    BY <1>6, <2>2 DEF PressA
<1>7. CASE PressEscape \/ KeysNotify
  BY <1>7 DEF PressEscape, KeysNotify
<1>8. QED
  BY <1>1, <1>2, <1>3, <1>4, <1>5, <1>6, <1>7 DEF Next, Keys

(* What a step of the read thread does to the audio.                       *)
LEMMA ReaderAudio ==
  ASSUME StandInv, CountsOK, SliceInv, Reader
  PROVE  CountsOK' /\ SliceInv'
<1> USE ProgramsAssumption
    DEF StandInv, PlaceOK, Thread, CountsOK, SliceInv
<1>1. ASSUME HandOver, todo > 0, buf > 0, UNCHANGED <<ring, todo>>
      PROVE  CountsOK' /\ SliceInv'
  BY <1>1, HandOverMoves DEF HandOver
<1>2. ASSUME at'.reader \notin {"interval", "stop", "commit"},
             UNCHANGED <<ring, buf, slice, turn, sliceReady, exit>>,
             at'.worker = at.worker, todo' \in {todo, ring}
      PROVE  CountsOK' /\ SliceInv'
  BY <1>2
<1>3. CASE ReaderInterval
  <2>1. CASE ~sliceReady
    BY <1>1, <1>3, <2>1 DEF ReaderInterval
  <2>2. CASE sliceReady
    BY <1>3, <2>2 DEF ReaderInterval, Move
  <2>3. QED
    BY <2>1, <2>2
<1>4. CASE ReaderStop
  <2>1. CASE buf > 0
    BY <1>1, <1>4, <2>1 DEF ReaderStop
  <2>2. CASE ~(buf > 0)
    <3>1. /\ at'.reader = "commit" /\ at'.worker = at.worker
          /\ at.reader = "stop" /\ ~sliceReady'
          /\ UNCHANGED <<ring, todo, buf, slice, turn, exit>>
      BY <1>4, <2>2 DEF ReaderStop, Move
    <3>2. QED
      BY <3>1
  <2>3. QED
    BY <2>1, <2>2
<1>5. CASE ReaderPiece
  BY <1>5 DEF ReaderPiece, Move
<1>6. CASE ReaderCommit
  BY <1>6 DEF ReaderCommit, Move
<1>7. CASE ReaderLoop \/ ReaderTest \/ ReaderBlock \/ ReaderSnapshot
  <2>1. /\ at'.worker = at.worker
        /\ at'.reader \notin {"interval", "stop", "commit"}
        /\ todo' \in {todo, ring}
        /\ UNCHANGED <<ring, buf, slice, turn, sliceReady, exit>>
    BY <1>7 DEF ReaderLoop, ReaderTest, ReaderBlock, ReaderSnapshot, Move, audio
  <2>2. QED
    BY <1>2, <2>1
<1>8. QED
  BY <1>3, <1>4, <1>5, <1>6, <1>7 DEF Reader

LEMMA AudioNext == StandInv /\ AudioInv /\ [Next]_vars => AudioInv'
<1> SUFFICES ASSUME StandInv, CountsOK, SliceInv, [Next]_vars
             PROVE  CountsOK' /\ SliceInv'
  BY FlagsNext DEF AudioInv
<1> USE DEF CountsOK, SliceInv, StandInv, PlaceOK, Thread
<1>1. CASE UNCHANGED vars
  BY <1>1 DEF vars, audio
<1>2. CASE Main
  BY <1>2, MainMoves DEF MovedByMain, Threads, audio
<1>3. CASE Callback
  <2>1. /\ at'.reader \in {at.reader, "test"} /\ at'.worker = at.worker
        /\ ring' \in {ring, ring + 1} /\ ring' \in 0..RingSize
        /\ UNCHANGED <<todo, buf, slice, turn, sliceReady, exit>>
    BY <1>3, CallbackNotifyMoves, ProgramsAssumption
       DEF Callback, CallbackBegin, CallbackWrite, CallbackPublish,
           CallbackNotify, Move, audio
  <2>2. QED
    BY <2>1, ProgramsAssumption
<1>4. CASE Worker
  BY <1>4, ProgramsAssumption
     DEF Worker, WorkerLoop, WorkerTest, WorkerBlock, WorkerBegin,
         WorkerClear, Move, audio
<1>5. CASE Keys
  <2>1. /\ at'.reader = at.reader /\ at'.worker = at.worker
        /\ UNCHANGED <<audio, sliceReady>> /\ (exit => exit')
    BY <1>5, KeysNotifyMoves
       DEF Keys, PressA, PressEscape, KeysNotify, Move
  <2>2. QED
    BY <2>1 DEF audio
<1>6. QED
  BY <1>1, <1>2, <1>3, <1>4, <1>5, ReaderAudio DEF Next

(* However the stop of a recording overwrites the flag, no program         *)
(* transcribes an empty slice.                                             *)
THEOREM NothingIsNeverTranscribed == Spec => []NeverTranscribesNothing
<1>1. AudioInv => NeverTranscribesNothing
  BY DEF AudioInv, SliceInv, NeverTranscribesNothing
<1>2. QED
  BY StandInvInit, StandInvNext, AudioInit, AudioNext, <1>1, PTL DEF Spec

-----------------------------------------------------------------------------
(***************************************************************************)
(* Wake-ups.  A mutex that is held at "block" keeps the flag from being    *)
(* raised there; at "wait" whoever raises it notifies.                     *)
(***************************************************************************)
ReaderWaits ==
  P.producer.locks =>
    /\ at.reader = "block" => ~ready
    /\ at.reader = "wait" /\ ready => at.callback = "notify"

WorkerWaits == at.worker \in {"block", "wait"} => ~sliceReady

WaitInv == ReaderWaits /\ WorkerWaits

LEMMA WaitInit == Init => WaitInv
BY DEF Init, WaitInv, ReaderWaits, WorkerWaits

LEMMA ReaderWaitsNext ==
  ASSUME StandInv, ReaderWaits, [Next]_vars
  PROVE  ReaderWaits'
<1> USE DEF StandInv, PlaceOK, Thread, ReaderWaits, P
<1>1. CASE UNCHANGED vars
  BY <1>1 DEF vars
<1>2. CASE Main
  BY <1>2, MainMoves DEF MovedByMain, Threads
<1>3. CASE CallbackNotify
  BY <1>3, CallbackNotifyMoves DEF CallbackNotify
<1>4. CASE CallbackBegin \/ CallbackWrite \/ CallbackPublish
  BY <1>4 DEF CallbackBegin, CallbackWrite, CallbackPublish, AudioLockFree, Move
<1>5. CASE Reader
  <2>1. CASE ReaderTest \/ ReaderBlock
    BY <2>1 DEF ReaderTest, ReaderBlock, Move
  <2>2. CASE ReaderLoop \/ ReaderSnapshot \/ ReaderPiece \/ ReaderCommit
    BY <2>2 DEF ReaderLoop, ReaderSnapshot, ReaderPiece, ReaderCommit, Move
  <2>3. CASE ReaderInterval \/ ReaderStop
    BY <2>3, HandOverMoves DEF ReaderInterval, ReaderStop, Move
  <2>4. QED
    BY <1>5, <2>1, <2>2, <2>3 DEF Reader
<1>6. CASE Worker
  BY <1>6 DEF Worker, WorkerLoop, WorkerTest, WorkerBlock, WorkerBegin,
              WorkerClear, Move
<1>7. CASE Keys
  BY <1>7, KeysNotifyMoves DEF Keys, PressA, PressEscape, KeysNotify, Move
<1>8. QED
  BY <1>1, <1>2, <1>3, <1>4, <1>5, <1>6, <1>7 DEF Next, Callback

LEMMA WorkerWaitsNext ==
  ASSUME StandInv, WorkerWaits, [Next]_vars
  PROVE  WorkerWaits'
<1> USE DEF StandInv, PlaceOK, Thread, WorkerWaits
<1>1. CASE UNCHANGED vars
  BY <1>1 DEF vars
<1>2. CASE Main
  BY <1>2, MainMoves DEF MovedByMain, Threads
<1>3. CASE Callback
  BY <1>3, CallbackNotifyMoves
     DEF Callback, CallbackBegin, CallbackWrite, CallbackPublish,
         CallbackNotify, Move
<1>4. CASE Reader
  <2>1. CASE HandOver /\ InferenceLockFree
    BY <2>1, HandOverMoves DEF InferenceLockFree
  <2>2. CASE ReaderInterval
    BY <2>1, <2>2 DEF ReaderInterval, Move
  <2>3. CASE ReaderStop
    BY <2>1, <2>3 DEF ReaderStop, Move
  <2>4. CASE \/ ReaderLoop \/ ReaderTest \/ ReaderBlock \/ ReaderSnapshot
             \/ ReaderPiece \/ ReaderCommit
    BY <2>4 DEF ReaderLoop, ReaderTest, ReaderBlock, ReaderSnapshot,
                ReaderPiece, ReaderCommit, Move
  <2>5. QED
    BY <1>4, <2>2, <2>3, <2>4 DEF Reader
<1>5. CASE Worker
  BY <1>5 DEF Worker, WorkerLoop, WorkerTest, WorkerBlock, WorkerBegin,
              WorkerClear, Move
<1>6. CASE Keys
  BY <1>6, KeysNotifyMoves DEF Keys, PressA, PressEscape, KeysNotify, Move
<1>7. QED
  BY <1>1, <1>2, <1>3, <1>4, <1>5, <1>6 DEF Next

(* No thread waits for a notification that has been sent before it waited, *)
(* where the flag is raised under the mutex.                               *)
THEOREM WakeUpsAreNotOwed == Spec => []NoWakeUpIsOwed
<1>1. StandInv /\ WaitInv /\ [Next]_vars => WaitInv'
  BY ReaderWaitsNext, WorkerWaitsNext DEF WaitInv
<1>2. WaitInv => NoWakeUpIsOwed
  BY DEF WaitInv, ReaderWaits, WorkerWaits, NoWakeUpIsOwed
<1>3. QED
  BY StandInvInit, StandInvNext, WaitInit, <1>1, <1>2, PTL DEF Spec

-----------------------------------------------------------------------------
(***************************************************************************)
(* The box.  Only a program with a hook is ever not recording, and so only *)
(* such a program's reader comes to the stop of a recording.               *)
(***************************************************************************)
HookInv ==
  /\ "hook" \in held => HasKeys(prog)
  /\ ~recording => HasKeys(prog)
  /\ at.reader = "stop" => "stop" \in P.reader.handsOver

LEMMA HookInit == Init => HookInv
<1> SUFFICES ASSUME Init PROVE HookInv
  OBVIOUS
<1>1. ~recording => HasKeys(prog)
  <2>1. recording = ~HasKeys(prog)
    BY DEF Init
  <2>2. QED
    BY <2>1
<1>2. held = {} /\ at.reader = "none"
  BY DEF Init
<1>3. QED
  BY <1>1, <1>2 DEF HookInv

(* A step that sets up nothing but what the worker makes, leaves recording *)
(* alone and does not bring the reader to the stop of a recording.         *)
LEMMA HookKept ==
  ASSUME HookInv, UNCHANGED <<prog, recording>>,
         "hook" \in held' => "hook" \in held,
         at'.reader = "stop" => at.reader = "stop"
  PROVE  HookInv'
<1>1. P' = P
  BY DEF P
<1>2. QED
  BY <1>1 DEF HookInv

LEMMA HookMain ==
  ASSUME StandInv, HookInv, Main
  PROVE  HookInv'
<1>1. UNCHANGED <<prog, recording>> /\ (at'.reader = "stop" => at.reader = "stop")
  BY MainMoves DEF MovedByMain, Threads
<1>2. CASE MainSetUp
  <2>1. pc \in DOMAIN Script /\ Here.do = "setUp"
    BY <1>2, ScriptShape DEF StandInv, PcOK, MainSetUp, Doing, Done
  <2>2. "hook" \in Here.on => HasKeys(prog)
    BY <2>1, InTable, TableAssumption DEF StandInv, Here, Script, P
  <2>3. "hook" \in held' => "hook" \in held \/ "hook" \in Here.on
    <3>1. \A f \in Here.fails : "hook" \notin f.leaves
      BY <2>1, InTable, TableAssumption DEF StandInv, Here, Script, P
    <3>2. QED
      BY <1>2, <3>1 DEF MainSetUp
  <2>4. P' = P
    BY <1>1 DEF P
  <2>5. QED
    BY <1>1, <2>2, <2>3, <2>4 DEF HookInv
<1>3. CASE ~MainSetUp
  <2>1. "hook" \in held' => "hook" \in held
    BY <1>3 DEF Main, MainCheck, MainSpawn, MainStart, MainReadLine, MainAwait,
                MainStop, MainTellExit, MainWake, MainJoin, MainTearDown
  <2>2. QED
    BY <1>1, <2>1, HookKept
<1>4. QED
  BY <1>2, <1>3

LEMMA HookReader ==
  ASSUME StandInv, HookInv, Reader
  PROVE  HookInv'
<1> USE DEF StandInv, PlaceOK, Thread
<1>1. CASE ReaderPiece
  <2>1. UNCHANGED <<prog, held, recording>> /\ P' = P
    BY <1>1 DEF ReaderPiece, P
  <2>2. ASSUME at'.reader = "stop" PROVE "stop" \in P.reader.handsOver
    <3>1. P.reader.handsOver # {} /\ ~recording
      BY <1>1, <2>2 DEF ReaderPiece, Move
    <3>2. HasKeys(prog)
      BY <3>1 DEF HookInv
    <3>3. P.reader.handsOver \in {{}, {"interval", "stop"}}
      BY <3>2, InTable, TableAssumption DEF P
    <3>4. QED
      BY <3>1, <3>3
  <2>3. QED
    BY <2>1, <2>2 DEF HookInv
<1>2. CASE ReaderInterval \/ ReaderStop
  BY <1>2, HandOverMoves, HookKept DEF ReaderInterval, ReaderStop, Move
<1>3. CASE \/ ReaderLoop \/ ReaderTest \/ ReaderBlock \/ ReaderSnapshot
           \/ ReaderCommit
  BY <1>3, HookKept DEF ReaderLoop, ReaderTest, ReaderBlock, ReaderSnapshot,
                        ReaderCommit, Move
<1>4. QED
  BY <1>1, <1>2, <1>3 DEF Reader

LEMMA HookNext ==
  ASSUME StandInv, HookInv, [Next]_vars
  PROVE  HookInv'
<1> USE DEF StandInv, PlaceOK, Thread
<1>1. CASE UNCHANGED vars
  BY <1>1, HookKept DEF vars
<1>2. CASE Callback
  BY <1>2, CallbackNotifyMoves, HookKept
     DEF Callback, CallbackBegin, CallbackWrite, CallbackPublish,
         CallbackNotify, Move
<1>3. CASE Worker
  <2>1. P.worker.makes \subseteq Resources \ {"hook"}
    BY InTable, TableAssumption DEF P
  <2>2. "hook" \in held' => "hook" \in held
    BY <1>3, <2>1 DEF Worker, WorkerLoop, WorkerTest, WorkerBlock, WorkerBegin,
                      WorkerClear
  <2>3. UNCHANGED <<prog, recording>> /\ at'.reader = at.reader
    BY <1>3 DEF Worker, WorkerLoop, WorkerTest, WorkerBlock, WorkerBegin,
                WorkerClear, Move
  <2>4. QED
    BY <2>2, <2>3, HookKept
<1>4. CASE PressA
  <2>1. HasKeys(prog) /\ UNCHANGED <<prog, at, held>> /\ P' = P
    BY <1>4 DEF PressA, KeysHeard, HookInv, P
  <2>2. QED
    BY <2>1 DEF HookInv
<1>5. CASE PressEscape \/ KeysNotify
  BY <1>5, KeysNotifyMoves, HookKept DEF PressEscape, KeysNotify, Move
<1>6. QED
  BY <1>1, <1>2, <1>3, <1>4, <1>5, HookMain, HookReader DEF Next, Keys

place == IF ~sliceReady THEN "empty"
         ELSE IF at.worker = "infer" THEN "taken" ELSE "full"

(* The reader at a hand-over.  The worker that keeps the lock is in its    *)
(* wait or outside it, and cannot have the slice.                          *)
LEMMA ReaderBoxes ==
  ASSUME StandInv, AudioInv, HookInv, P.worker.keepsLock,
         ReaderInterval \/ ReaderStop
  PROVE  Box!Next \/ UNCHANGED Box!view
<1> USE DEF StandInv, PlaceOK, Thread
<1>1. at.worker # "infer" /\ at'.worker # "infer"
  BY HandOverMoves DEF ReaderInterval, ReaderStop, InferenceLockFree, Move
<1>2. place = (IF sliceReady THEN "full" ELSE "empty")
      /\ place' = (IF sliceReady' THEN "full" ELSE "empty")
  BY <1>1 DEF place
<1>3. HandOver => turn' = 1 - turn
  BY DEF HandOver
<1>4. CASE ReaderInterval
  <2>1. CASE ~sliceReady
    BY <1>2, <1>3, <1>4, <2>1 DEF ReaderInterval, Box!Next, Box!Put, place
  <2>2. CASE sliceReady
    BY <1>2, <1>4, <2>2 DEF ReaderInterval, Box!view, place
  <2>3. QED
    BY <2>1, <2>2
<1>5. CASE ReaderStop
  <2>1. "stop" \in P.reader.handsOver
    BY <1>5 DEF ReaderStop, HookInv
  <2>2. CASE buf > 0
    <3>1. sliceReady' /\ turn' = 1 - turn
      BY <1>3, <1>5, <2>2 DEF ReaderStop
    <3>2. QED
      BY <1>2, <2>1, <3>1 DEF Box!Next, Box!Put, Box!Replace, place
  <2>3. CASE ~(buf > 0)
    <3>1. ~sliceReady' /\ turn' = turn
      BY <1>5, <2>3 DEF ReaderStop
    <3>2. QED
      BY <1>2, <2>1, <3>1 DEF Box!Next, Box!Withdraw, Box!view, place
  <2>4. QED
    BY <2>2, <2>3
<1>6. QED
  BY <1>4, <1>5

LEMMA WorkerBoxes ==
  ASSUME StandInv, Worker
  PROVE  Box!Next \/ UNCHANGED Box!view
<1> USE DEF StandInv, PlaceOK, Thread
<1>1. CASE WorkerBegin
  BY <1>1 DEF WorkerBegin, Move, audio, Box!Next, Box!Take, Box!view
<1>2. CASE WorkerClear
  BY <1>2 DEF WorkerClear, Move, Box!Next, Box!Return, Box!view
<1>3. CASE WorkerLoop \/ WorkerTest \/ WorkerBlock
  BY <1>3 DEF WorkerLoop, WorkerTest, WorkerBlock, Move, audio, Box!view
<1>4. QED
  BY <1>1, <1>2, <1>3 DEF Worker

LEMMA OthersLeaveBox ==
  ASSUME StandInv, UNCHANGED <<sliceReady, turn>>,
         at'.worker = "infer" <=> at.worker = "infer"
  PROVE  UNCHANGED Box!view
BY DEF Box!view

LEMMA NextBoxes ==
  ASSUME StandInv, AudioInv, HookInv, P.worker.keepsLock, [Next]_vars
  PROVE  Box!Next \/ UNCHANGED Box!view
<1> USE DEF StandInv, PlaceOK, Thread
<1>1. CASE UNCHANGED vars
  BY <1>1, OthersLeaveBox DEF vars, audio
<1>2. CASE Main
  BY <1>2, MainMoves, OthersLeaveBox DEF MovedByMain, Threads, audio
<1>3. CASE Callback
  BY <1>3, CallbackNotifyMoves, OthersLeaveBox
     DEF Callback, CallbackBegin, CallbackWrite, CallbackPublish,
         CallbackNotify, Move, audio
<1>4. CASE \/ ReaderLoop \/ ReaderTest \/ ReaderBlock \/ ReaderSnapshot
           \/ ReaderPiece \/ ReaderCommit
  <2>1. at'.worker = at.worker /\ UNCHANGED <<sliceReady, turn>>
    BY <1>4 DEF ReaderLoop, ReaderTest, ReaderBlock, ReaderSnapshot,
                ReaderPiece, ReaderCommit, Move, audio
  <2>2. QED
    BY <2>1, OthersLeaveBox
<1>5. CASE Keys
  BY <1>5, KeysNotifyMoves, OthersLeaveBox
     DEF Keys, PressA, PressEscape, KeysNotify, Move, audio
<1>6. QED
  BY <1>1, <1>2, <1>3, <1>4, <1>5, ReaderBoxes, WorkerBoxes DEF Next, Reader

(* Where the worker keeps its lock, every step of a program is a step of   *)
(* the box of one place or leaves it alone: a slice in the worker's hands  *)
(* is never touched.                                                       *)
THEOREM HandsOverThroughSliceBox == Spec => HandsOverThroughBox
<1>1. StandInv /\ AudioInv /\ HookInv /\ [Next]_vars
        => [P.worker.keepsLock => [Box!Next]_<<Box!view>>]_vars
  BY NextBoxes DEF Box!view
<1>2. StandInv /\ HookInv /\ [Next]_vars => HookInv'
  BY HookNext
<1>3. QED
  BY StandInvInit, StandInvNext, AudioInit, AudioNext, HookInit, <1>1, <1>2,
     PTL DEF Spec, HandsOverThroughBox

-----------------------------------------------------------------------------
(***************************************************************************)
(* Types: what main sets up and tears down are resources                   *)
(***************************************************************************)
HeldOK == /\ held \subseteq Resources /\ flagged \subseteq Resources
          /\ leaked \subseteq Resources /\ misused \subseteq Resources

RunsOK == playing \in BOOLEAN /\ exit \in BOOLEAN

LEMMA HeldNext ==
  ASSUME StandInv, HeldOK, [Next]_vars
  PROVE  HeldOK'
<1> USE DEF HeldOK
<1>1. CASE UNCHANGED vars
  BY <1>1 DEF vars
<1>2. CASE MainSetUp \/ MainTearDown
  <2>1. pc \in DOMAIN Script /\ Here.do \in {"setUp", "tearDown"}
    BY <1>2, ScriptShape
       DEF StandInv, PcOK, MainSetUp, MainTearDown, Doing, Done
  <2>2. Here.on \subseteq Resources
    BY <2>1, InTable, TableAssumption DEF StandInv, Here, Script, P
  <2>3. CASE MainSetUp
    <3>1. Here.do = "setUp"
      BY <2>3 DEF MainSetUp, Doing
    <3>2. \A f \in Here.fails :
            f.leaves \union f.misuses \union f.promises \subseteq Resources
      BY <2>1, <3>1, InTable, TableAssumption DEF StandInv, Here, Script, P
    <3>3. QED
      BY <2>2, <2>3, <3>2 DEF MainSetUp
  <2>4. CASE MainTearDown
    BY <2>2, <2>4 DEF MainTearDown
  <2>5. QED
    BY <1>2, <2>3, <2>4
<1>3. CASE Main /\ ~MainSetUp /\ ~MainTearDown
  BY <1>3 DEF Main, MainCheck, MainSpawn, MainStart, MainReadLine, MainAwait,
              MainStop, MainTellExit, MainWake, MainJoin
<1>4. CASE Callback \/ Keys
  BY <1>4 DEF Callback, CallbackBegin, CallbackWrite, CallbackPublish,
              CallbackNotify, Keys, PressA, PressEscape, KeysNotify
<1>5. CASE Reader
  BY <1>5 DEF Reader, ReaderLoop, ReaderTest, ReaderBlock, ReaderSnapshot,
              ReaderPiece, ReaderInterval, ReaderStop, ReaderCommit
<1>6. CASE Worker
  <2>1. P.worker.makes \subseteq Resources
    BY InTable, TableAssumption DEF StandInv, P
  <2>2. QED
    BY <1>6, <2>1 DEF Worker, WorkerLoop, WorkerTest, WorkerBlock, WorkerBegin,
                      WorkerClear
<1>7. QED
  BY <1>1, <1>2, <1>3, <1>4, <1>5, <1>6 DEF Next

LEMMA RunsNext ==
  ASSUME RunsOK, [Next]_vars
  PROVE  RunsOK'
<1> USE DEF RunsOK
<1>1. CASE UNCHANGED vars
  BY <1>1 DEF vars
<1>2. CASE MainTearDown
  <2>1. playing' = (playing /\ "device" \notin Here.on)
    BY <1>2 DEF MainTearDown
  <2>2. playing' \in BOOLEAN
    BY <2>1
  <2>3. QED
    BY <1>2, <2>2 DEF MainTearDown
<1>3. CASE Main /\ ~MainTearDown
  BY <1>3 DEF Main, MainCheck, MainSetUp, MainSpawn, MainStart, MainReadLine,
              MainAwait, MainStop, MainTellExit, MainWake, MainJoin
<1>4. CASE Callback \/ Keys
  BY <1>4 DEF Callback, CallbackBegin, CallbackWrite, CallbackPublish,
              CallbackNotify, Keys, PressA, PressEscape, KeysNotify
<1>5. CASE Reader
  BY <1>5 DEF Reader, ReaderLoop, ReaderTest, ReaderBlock, ReaderSnapshot,
              ReaderPiece, ReaderInterval, ReaderStop, ReaderCommit
<1>6. CASE Worker
  BY <1>6 DEF Worker, WorkerLoop, WorkerTest, WorkerBlock, WorkerBegin,
              WorkerClear
<1>7. QED
  BY <1>1, <1>2, <1>3, <1>4, <1>5, <1>6 DEF Next

(* Every variable stays in its range: main in its script, the reader's     *)
(* framesAvailable within the ring.                                        *)
THEOREM ProgramsTypeCorrect == Spec => []TypeOK
<1>1. Init => HeldOK /\ RunsOK
  BY DEF Init, HeldOK, RunsOK
<1>2. StandInv /\ HeldOK /\ [Next]_vars => HeldOK'
  BY HeldNext
<1>3. RunsOK /\ [Next]_vars => RunsOK'
  BY RunsNext
<1>4. StandInv /\ AudioInv /\ HeldOK /\ RunsOK => TypeOK
  <2> SUFFICES ASSUME StandInv, AudioInv, HeldOK, RunsOK PROVE TypeOK
    OBVIOUS
  <2>1. {playing, exit, ready, recording, sliceReady} \subseteq BOOLEAN
    BY DEF AudioInv, FlagsOK, RunsOK
  <2>2. QED
    BY <2>1 DEF TypeOK, StandInv, PlaceOK, PcOK, AudioInv, CountsOK, HeldOK
<1>5. QED
  BY StandInvInit, StandInvNext, AudioInit, AudioNext, <1>1, <1>2, <1>3, <1>4,
     PTL DEF Spec

(***************************************************************************)
(* One step of a script                                                    *)
(***************************************************************************)
LEMMA ScriptPositions ==
  ASSUME NEW p \in DOMAIN Programs
  PROVE  /\ DOMAIN ScriptOf(p) = 1..Len(ScriptOf(p)) /\ Len(ScriptOf(p)) \in Nat
         /\ Programs[p].cleanup \in 1..(Len(ScriptOf(p)) + 1)
BY TableAssumption DEF ScriptOf

(* What stands after a step stood before it or was set up by it.           *)
LEMMA StandsStep ==
  ASSUME NEW p \in DOMAIN Programs, NEW i \in DOMAIN ScriptOf(p),
         NEW r \in Stands(p, i + 1)
  PROVE  /\ \/ r \in Stands(p, i)
            \/ ScriptOf(p)[i].do = "setUp" /\ r \in ScriptOf(p)[i].on
         /\ ~Removes(ScriptOf(p)[i], r)
<1>1. i \in Nat \ {0}
  BY ScriptPositions
<1>2. PICK j \in 1..i :
        /\ ScriptOf(p)[j].do = "setUp" /\ r \in ScriptOf(p)[j].on
        /\ \A k \in j..i : ~Removes(ScriptOf(p)[k], r)
  BY <1>1 DEF Stands
<1>3. ~Removes(ScriptOf(p)[i], r)
  BY <1>1, <1>2
<1>4. CASE j = i
  BY <1>2, <1>3, <1>4
<1>5. CASE j # i
  <2>1. j \in 1..(i - 1) /\ \A k \in j..(i - 1) : k \in j..i
    BY <1>1, <1>5
  <2>2. r \in Stands(p, i)
    BY <1>2, <2>1 DEF Stands
  <2>3. QED
    BY <1>3, <2>2
<1>6. QED
  BY <1>4, <1>5

LEMMA JoinedStep ==
  ASSUME NEW p \in DOMAIN Programs, NEW i \in DOMAIN ScriptOf(p), NEW t,
         JoinedAfter(p, t, i)
  PROVE  /\ Jumps(ScriptOf(p)[i]) => /\ p # "capture"
                                     /\ ScriptOf(p)[i].do \in {"start", "stop"}
         /\ ~Removes(ScriptOf(p)[i], Needs(t))
         /\ \/ JoinedAfter(p, t, i + 1)
            \/ ScriptOf(p)[i].do = "join" /\ ScriptOf(p)[i].on = t
<1>1. PICK j \in StepsOf(p, "join") :
        /\ j >= i /\ ScriptOf(p)[j].on = t
        /\ \A k \in i..j :
             /\ Jumps(ScriptOf(p)[k]) => p # "capture" /\ ScriptOf(p)[k].do \in {"start", "stop"}
             /\ ~Removes(ScriptOf(p)[k], Needs(t))
  BY DEF JoinedAfter
<1>2. i \in Nat /\ j \in Nat /\ i \in i..j
  BY <1>1, ScriptPositions DEF StepsOf
<1>3. CASE j = i
  BY <1>1, <1>2, <1>3 DEF StepsOf
<1>4. CASE j # i
  <2>1. j >= i + 1 /\ \A k \in (i + 1)..j : k \in i..j
    BY <1>1, <1>2, <1>4
  <2>2. JoinedAfter(p, t, i + 1)
    BY <1>1, <2>1 DEF JoinedAfter
  <2>3. QED
    BY <1>1, <1>2, <2>2
<1>5. QED
  BY <1>3, <1>4

LEMMA QuietStep ==
  ASSUME NEW p \in DOMAIN Programs, NEW i \in DOMAIN ScriptOf(p),
         QuietAfter(p, i)
  PROVE  \/ ScriptOf(p)[i].do = "stop" \/ Removes(ScriptOf(p)[i], "device")
         \/ /\ ~Jumps(ScriptOf(p)[i]) /\ ~Removes(ScriptOf(p)[i], FillsOf(p))
            /\ QuietAfter(p, i + 1)
<1>1. PICK j \in DOMAIN ScriptOf(p) :
        /\ j >= i
        /\ ScriptOf(p)[j].do = "stop" \/ Removes(ScriptOf(p)[j], "device")
        /\ \A k \in i..(j - 1) :
             ~Jumps(ScriptOf(p)[k]) /\ ~Removes(ScriptOf(p)[k], FillsOf(p))
  BY DEF QuietAfter
<1>2. i \in Nat /\ j \in Nat
  BY ScriptPositions
<1>3. CASE j = i
  BY <1>1, <1>3
<1>4. CASE j # i
  <2>1. i \in i..(j - 1) /\ j >= i + 1 /\ \A k \in (i + 1)..(j - 1) : k \in i..(j - 1)
    BY <1>1, <1>2, <1>4
  <2>2. QuietAfter(p, i + 1)
    BY <1>1, <2>1 DEF QuietAfter
  <2>3. QED
    BY <1>1, <2>1, <2>2
<1>5. QED
  BY <1>3, <1>4

LEMMA RemovedStep ==
  ASSUME NEW p \in DOMAIN Programs, NEW i \in DOMAIN ScriptOf(p), NEW r,
         RemovedAfter(p, r, i)
  PROVE  /\ Removes(ScriptOf(p)[i], r) \/ RemovedAfter(p, r, i + 1)
         /\ Jumps(ScriptOf(p)[i]) => RemovedAfter(p, r, Programs[p].cleanup)
<1>1. PICK j \in DOMAIN ScriptOf(p) :
        /\ j >= i /\ Removes(ScriptOf(p)[j], r)
        /\ j >= Programs[p].cleanup \/ \A k \in i..j : ~Jumps(ScriptOf(p)[k])
  BY DEF RemovedAfter
<1>2. i \in Nat /\ j \in Nat /\ i \in i..j
  BY <1>1, ScriptPositions
<1>3. Removes(ScriptOf(p)[i], r) \/ RemovedAfter(p, r, i + 1)
  <2>1. CASE j = i
    BY <1>1, <2>1
  <2>2. CASE j # i
    <3>1. j >= i + 1 /\ \A k \in (i + 1)..j : k \in i..j
      BY <1>1, <1>2, <2>2
    <3>2. QED
      BY <1>1, <3>1 DEF RemovedAfter
  <2>3. QED
    BY <2>1, <2>2
<1>4. ASSUME Jumps(ScriptOf(p)[i])
      PROVE  RemovedAfter(p, r, Programs[p].cleanup)
  <2>1. j >= Programs[p].cleanup
    BY <1>1, <1>2, <1>4
  <2>2. QED
    BY <1>1, <2>1 DEF RemovedAfter
<1>5. QED
  BY <1>3, <1>4

-----------------------------------------------------------------------------
(***************************************************************************)
(* One step of a program                                                   *)
(***************************************************************************)
LEMMA MainAdvances ==
  ASSUME StandInv, Main
  PROVE  /\ prog \in DOMAIN Programs /\ prog' = prog /\ P' = P
         /\ P = Programs[prog] /\ Here = ScriptOf(prog)[pc]
         /\ pc \in DOMAIN ScriptOf(prog) /\ failed \subseteq failed'
         /\ \/ pc' = pc + 1
            \/ pc' = pc /\ Here.do = "await"
            \/ /\ pc' = P.cleanup /\ Jumps(Here)
               /\ failed' = failed \union {Here.do}
<1>1. prog \in DOMAIN Programs
  BY InTable DEF StandInv
<1>2. prog' = prog /\ P' = P
  BY MainMoves DEF P
<1>3. /\ P = Programs[prog] /\ Script = ScriptOf(prog)
      /\ Here = ScriptOf(prog)[pc]
  BY DEF P, Script, ScriptOf, Here
<1>4. ~Done
  BY DEF Main, MainCheck, MainSetUp, MainSpawn, MainStart, MainReadLine,
         MainAwait, MainStop, MainTellExit, MainWake, MainJoin, MainTearDown,
         Doing
<1>5. pc \in DOMAIN ScriptOf(prog)
  BY <1>1, <1>3, <1>4, ScriptPositions DEF StandInv, PcOK, Done
<1>6. /\ failed \subseteq failed'
      /\ \/ pc' = pc + 1
         \/ pc' = pc /\ Here.do = "await"
         \/ /\ pc' = P.cleanup /\ Jumps(Here)
            /\ failed' = failed \union {Here.do}
  <2>1. CASE MainCheck
    BY <2>1 DEF MainCheck, Doing, Succeed, Fail, Jumps
  <2>2. CASE MainSetUp
    BY <2>2 DEF MainSetUp, Doing, Succeed, Fail, Jumps
  <2>3. CASE MainStart
    BY <2>3 DEF MainStart, Doing, Succeed, Fail, GoOn, Jumps
  <2>4. CASE MainStop
    BY <2>4 DEF MainStop, Doing, Succeed, Fail, GoOn, Jumps
  <2>5. CASE MainAwait
    BY <2>5 DEF MainAwait, Doing, Succeed
  <2>6. CASE \/ MainSpawn \/ MainReadLine \/ MainTellExit \/ MainWake
             \/ MainJoin \/ MainTearDown
    BY <2>6 DEF MainSpawn, MainReadLine, MainTellExit, MainWake, MainJoin,
                MainTearDown, Succeed
  <2>7. QED
    BY <2>1, <2>2, <2>3, <2>4, <2>5, <2>6 DEF Main
<1>7. QED
  BY <1>1, <1>2, <1>3, <1>5, <1>6

(* Main takes away what it tears down, and by a failed setting up.         *)
LEMMA MainKeepsStanding ==
  ASSUME Main, NEW r \in held, ~Removes(Here, r),
         Jumps(Here) => Here.do # "setUp"
  PROVE  r \in held'
<1>1. CASE MainSetUp
  <2>1. Here.onFailure # "cleanup"
    BY <1>1 DEF MainSetUp, Doing, Jumps
  <2>2. QED
    BY <1>1, <2>1 DEF MainSetUp
<1>2. CASE MainTearDown
  BY <1>2 DEF MainTearDown, Doing, Removes
<1>3. CASE ~MainSetUp /\ ~MainTearDown
  BY <1>3 DEF Main, MainCheck, MainSpawn, MainStart, MainReadLine, MainAwait,
              MainStop, MainTellExit, MainWake, MainJoin
<1>4. QED
  BY <1>1, <1>2, <1>3

(* The other threads leave main and what it has failed at alone; only the  *)
(* worker sets up and frees, and what it makes.                            *)
LEMMA OthersKeep ==
  ASSUME PlaceOK, Callback \/ Reader \/ Worker \/ Keys
  PROVE  /\ UNCHANGED <<prog, pc, failed, misused, playing>> /\ P' = P
         /\ \A t \in Threads : at[t] \in {"none", "joined"} => at'[t] = at[t]
         /\ held \ P.worker.frees \subseteq held'
         /\ held' \subseteq held \union P.worker.makes
         /\ leaked' \subseteq leaked \union P.worker.makes
<1>1. CASE Callback
  <2>1. \A t \in Threads : at[t] \in {"none", "joined"} => at'[t] = at[t]
    BY <1>1, CallbackNotifyMoves
       DEF Callback, CallbackBegin, CallbackWrite, CallbackPublish,
           CallbackNotify, Move, PlaceOK, Thread, Threads
  <2>2. UNCHANGED <<prog, pc, failed, misused, playing, held, leaked>>
    BY <1>1 DEF Callback, CallbackBegin, CallbackWrite, CallbackPublish,
                CallbackNotify
  <2>3. QED
    BY <2>1, <2>2 DEF P
<1>2. CASE Reader
  <2>1. \A t \in Threads : at[t] \in {"none", "joined"} => at'[t] = at[t]
    <3>1. CASE ReaderInterval \/ ReaderStop
      BY <3>1, HandOverMoves
         DEF ReaderInterval, ReaderStop, Move, PlaceOK, Thread, Threads
    <3>2. CASE \/ ReaderLoop \/ ReaderTest \/ ReaderBlock \/ ReaderSnapshot
               \/ ReaderPiece \/ ReaderCommit
      BY <3>2 DEF ReaderLoop, ReaderTest, ReaderBlock, ReaderSnapshot,
                  ReaderPiece, ReaderCommit, Move, PlaceOK, Thread, Threads
    <3>3. QED
      BY <1>2, <3>1, <3>2 DEF Reader
  <2>2. UNCHANGED <<prog, pc, failed, misused, playing, held, leaked>>
    BY <1>2 DEF Reader, ReaderLoop, ReaderTest, ReaderBlock, ReaderSnapshot,
                ReaderPiece, ReaderInterval, ReaderStop, ReaderCommit
  <2>3. QED
    BY <2>1, <2>2 DEF P
<1>3. CASE Worker
  <2>1. \A t \in Threads : at[t] \in {"none", "joined"} => at'[t] = at[t]
    BY <1>3 DEF Worker, WorkerLoop, WorkerTest, WorkerBlock, WorkerBegin,
                WorkerClear, Move, PlaceOK, Thread, Threads
  <2>2. UNCHANGED <<prog, pc, failed, misused, playing>>
    BY <1>3 DEF Worker, WorkerLoop, WorkerTest, WorkerBlock, WorkerBegin,
                WorkerClear
  <2>3. /\ held \ P.worker.frees \subseteq held'
        /\ held' \subseteq held \union P.worker.makes
        /\ leaked' \subseteq leaked \union P.worker.makes
    BY <1>3 DEF Worker, WorkerLoop, WorkerTest, WorkerBlock, WorkerBegin,
                WorkerClear
  <2>4. QED
    BY <2>1, <2>2, <2>3 DEF P
<1>4. CASE Keys
  <2>1. \A t \in Threads : at[t] \in {"none", "joined"} => at'[t] = at[t]
    BY <1>4, KeysNotifyMoves
       DEF Keys, PressA, PressEscape, KeysNotify, Move, PlaceOK, Thread, Threads
  <2>2. UNCHANGED <<prog, pc, failed, misused, playing, held, leaked>>
    BY <1>4 DEF Keys, PressA, PressEscape, KeysNotify
  <2>3. QED
    BY <2>1, <2>2 DEF P
<1>5. QED
  BY <1>1, <1>2, <1>3, <1>4

-----------------------------------------------------------------------------
(***************************************************************************)
(* What stands.  Until a check or a set-up fails all that main has set up  *)
(* is there, but for what nobody checked; in its body in any case.         *)
(***************************************************************************)
FailedOK == failed \subseteq {"check", "setUp", "start", "stop", "file",
                              "resampler", "stream"}

StandsInv == (pc < P.cleanup \/ failed \intersect {"check", "setUp"} = {}) =>
               Stands(prog, pc) \subseteq held \union failed

LEMMA FailedNext ==
  ASSUME StandInv, FailedOK, [Next]_vars
  PROVE  FailedOK'
<1> USE DEF FailedOK
<1>1. CASE UNCHANGED vars
  BY <1>1 DEF vars
<1>2. CASE Callback \/ Reader \/ Worker \/ Keys
  BY <1>2, OthersKeep DEF StandInv
<1>3. CASE Main
  <2>1. CASE MainSetUp
    <3>1. pc \in StepsOf(prog, "setUp") /\ Here = ScriptOf(prog)[pc]
      BY <1>3, <2>1, MainAdvances DEF StepsOf, MainSetUp, Doing
    <3>2. Here.onFailure = "ignored" => Here.on \subseteq {"file", "resampler", "stream"}
      BY <1>3, <3>1, MainAdvances, FlagAssumption
    <3>3. QED
      BY <2>1, <3>2 DEF MainSetUp, Succeed, Fail
  <2>2. CASE ~MainSetUp
    BY <1>3, <2>2
       DEF Main, MainCheck, MainSpawn, MainStart, MainReadLine, MainAwait,
           MainStop, MainTellExit, MainWake, MainJoin, MainTearDown, Succeed,
           Fail, GoOn
  <2>3. QED
    BY <2>1, <2>2
<1>4. QED
  BY <1>1, <1>2, <1>3 DEF Next

LEMMA StandsNext ==
  ASSUME StandInv, StandsInv, [Next]_vars
  PROVE  StandsInv'
<1>1. CASE UNCHANGED vars
  BY <1>1 DEF vars, StandsInv, P
<1>2. CASE Callback \/ Reader \/ Worker \/ Keys
  <2>1. /\ UNCHANGED <<prog, pc, failed>> /\ P' = P
        /\ held \ P.worker.frees \subseteq held'
    BY <1>2, OthersKeep DEF StandInv
  <2>2. Stands(prog, pc) \intersect P.worker.frees = {}
    BY DEF Stands, P
  <2>3. QED
    BY <2>1, <2>2 DEF StandsInv
<1>3. CASE Main
  <2>1. /\ prog \in DOMAIN Programs /\ prog' = prog /\ P' = P
        /\ Here = ScriptOf(prog)[pc]
        /\ pc \in DOMAIN ScriptOf(prog) /\ failed \subseteq failed'
        /\ \/ pc' = pc + 1
           \/ pc' = pc /\ Here.do = "await"
           \/ pc' = P.cleanup /\ Jumps(Here) /\ failed' = failed \union {Here.do}
    BY <1>3, MainAdvances
  <2>2. pc \in Nat /\ P.cleanup \in Nat
    BY <2>1, ScriptPositions DEF P
  <2>3. SUFFICES ASSUME pc' < P.cleanup \/ failed' \intersect {"check", "setUp"} = {},
                        NEW r \in Stands(prog, pc')
                 PROVE  r \in held' \union failed'
    BY <2>1 DEF StandsInv
  <2>4. CASE pc' = P.cleanup /\ Jumps(Here) /\ failed' = failed \union {Here.do}
    <3>1. Here.do \in {"start", "stop"} /\ failed \intersect {"check", "setUp"} = {}
      BY <2>1, <2>2, <2>3, <2>4 DEF Jumps
    <3>2. r \in Stands(prog, pc)
      BY <2>1, <2>3, <2>4, <3>1, BlindAssumption DEF StepsOf, P
    <3>3. held' = held
      BY <1>3, <3>1 DEF Main, MainCheck, MainSetUp, MainSpawn, MainStart,
                        MainReadLine, MainAwait, MainStop, MainTellExit,
                        MainWake, MainJoin, MainTearDown, Doing
    <3>4. QED
      BY <2>1, <3>1, <3>2, <3>3 DEF StandsInv
  <2> SUFFICES ASSUME ~(pc' = P.cleanup /\ Jumps(Here) /\ failed' = failed \union {Here.do})
               PROVE  r \in held' \union failed'
    BY <2>4
  <2>5. Stands(prog, pc) \subseteq held \union failed
    BY <2>1, <2>2, <2>3 DEF StandsInv
  <2>6. CASE pc' = pc
    <3>1. held' = held
      BY <1>3, <2>1, <2>2, <2>6
         DEF Main, MainCheck, MainSetUp, MainSpawn, MainStart, MainReadLine,
             MainAwait, MainStop, MainTellExit, MainWake, MainJoin,
             MainTearDown, Doing
    <3>2. QED
      BY <2>1, <2>3, <2>5, <2>6, <3>1
  <2>7. CASE pc' = pc + 1
    <3>1. /\ r \in Stands(prog, pc) \/ (Here.do = "setUp" /\ r \in Here.on)
          /\ ~Removes(Here, r)
      BY <2>1, <2>3, <2>7, StandsStep
    <3>2. CASE MainSetUp
      BY <2>1, <2>2, <2>5, <2>7, <3>1, <3>2
         DEF MainSetUp, Doing, Succeed, Fail, Jumps
    <3>3. CASE MainTearDown
      BY <2>1, <2>5, <3>1, <3>3 DEF MainTearDown, Doing, Removes
    <3>4. CASE ~MainSetUp /\ ~MainTearDown
      <4>1. held' = held /\ Here.do # "setUp"
        BY <1>3, <3>4
           DEF Main, MainCheck, MainSpawn, MainStart, MainReadLine, MainAwait,
               MainStop, MainTellExit, MainWake, MainJoin, Doing
      <4>2. QED
        BY <2>1, <2>5, <3>1, <4>1
    <3>5. QED
      BY <3>2, <3>3, <3>4
  <2>8. QED
    BY <2>1, <2>6, <2>7
<1>4. QED
  BY <1>1, <1>2, <1>3 DEF Next

LEMMA StandsInit == Init => FailedOK /\ StandsInv
<1> SUFFICES ASSUME Init PROVE StandsInv
  BY DEF Init, FailedOK
<1>1. pc = 1 /\ \A j : j \notin 1..(pc - 1)
  BY DEF Init
<1>2. QED
  BY <1>1 DEF StandsInv, Stands

(* What is there and not forgotten has its flag; a flag without its        *)
(* resource is that of the ring in poc4.                                   *)
MayPromise == IF prog = "poc4" /\ "setUp" \in failed THEN {"ring"} ELSE {}

FlagInv == /\ held \ Forgotten(prog) \subseteq flagged
           /\ flagged \ held \subseteq MayPromise

LEMMA FlagInit == Init => FlagInv
BY DEF Init, FlagInv

(* How a call that sets up fails in the program that runs.                 *)
LEMMA Failures ==
  ASSUME StandInv, MainSetUp, NEW f \in Here.fails
  PROVE  /\ f.leaves \subseteq Forgotten(prog)
         /\ f.promises \subseteq (IF prog = "poc4" THEN {"ring"} ELSE {})
         /\ f.misuses \subseteq (IF prog = "capture"
                                 THEN {"ring", "context", "device", "resampler"} ELSE {})
<1>1. /\ prog \in DOMAIN Programs /\ Here = ScriptOf(prog)[pc]
      /\ pc \in StepsOf(prog, "setUp")
  BY MainAdvances DEF Main, MainSetUp, Doing, StepsOf
<1>2. QED
  BY <1>1, RemovalAssumption, FlagAssumption

(* What everyone but a set-up and a tear-down does to the flags.           *)
LEMMA FlagKept ==
  ASSUME FlagInv, prog' = prog, failed \subseteq failed', NEW made, NEW gone,
         held' = (held \union made) \ gone, flagged' = (flagged \union made) \ gone
  PROVE  FlagInv'
BY DEF FlagInv, MayPromise, Forgotten

LEMMA FlagNext ==
  ASSUME StandInv, FlagInv, [Next]_vars
  PROVE  FlagInv'
<1> DEFINE Same == held' = (held \union {}) \ {} /\ flagged' = (flagged \union {}) \ {}
<1>1. CASE UNCHANGED vars
  <2>1. Same /\ UNCHANGED <<prog, failed>>
    BY <1>1 DEF vars
  <2>2. QED
    BY <2>1, FlagKept
<1>2. CASE Callback \/ Reader \/ Worker \/ Keys
  <2>1. UNCHANGED <<prog, failed>>
    BY <1>2, OthersKeep DEF StandInv
  <2>2. CASE Callback \/ Keys
    <3>1. Same
      BY <2>2 DEF Callback, CallbackBegin, CallbackWrite, CallbackPublish,
                  CallbackNotify, Keys, PressA, PressEscape, KeysNotify
    <3>2. QED
      BY <2>1, <3>1, FlagKept
  <2>3. CASE Reader
    <3>1. Same
      BY <2>3 DEF Reader, ReaderLoop, ReaderTest, ReaderBlock, ReaderSnapshot,
                  ReaderPiece, ReaderInterval, ReaderStop, ReaderCommit
    <3>2. QED
      BY <2>1, <3>1, FlagKept
  <2>4. CASE Worker
    <3>1. \/ Same
          \/ /\ held' = (held \union P.worker.makes) \ {}
             /\ flagged' = (flagged \union P.worker.makes) \ {}
          \/ /\ held' = (held \union {}) \ P.worker.frees
             /\ flagged' = (flagged \union {}) \ P.worker.frees
      BY <2>4 DEF Worker, WorkerLoop, WorkerTest, WorkerBlock, WorkerBegin,
                  WorkerClear
    <3>2. QED
      BY <2>1, <3>1, FlagKept
  <2>5. QED
    BY <1>2, <2>2, <2>3, <2>4
<1>3. CASE Main
  <2>1. prog' = prog /\ failed \subseteq failed'
    BY <1>3, MainAdvances
  <2>2. CASE MainSetUp
    <3>1. \/ Same
          \/ /\ held' = (held \union Here.on) \ {}
             /\ flagged' = (flagged \union Here.on) \ {}
          \/ \E f \in Here.fails :
               /\ held' = (held \ f.undoes) \union f.leaves
               /\ flagged' = (flagged \ f.undoes) \union f.promises
               /\ "setUp" \in failed'
      BY <2>2 DEF MainSetUp, Fail
    <3>2. ASSUME NEW f \in Here.fails,
                 held' = (held \ f.undoes) \union f.leaves,
                 flagged' = (flagged \ f.undoes) \union f.promises,
                 "setUp" \in failed'
          PROVE  FlagInv'
      BY <2>1, <2>2, <3>2, Failures DEF FlagInv, MayPromise, Forgotten
    <3>3. QED
      BY <2>1, <3>1, <3>2, FlagKept
  <2>3. CASE MainTearDown
    <3>1. PICK gone \in {Here.on, Here.on \intersect flagged} :
            held' = held \ gone /\ flagged' = flagged \ Here.on
      BY <2>3 DEF MainTearDown
    <3>2. QED
      BY <2>1, <3>1 DEF FlagInv, MayPromise, Forgotten
  <2>4. CASE ~MainSetUp /\ ~MainTearDown
    <3>1. Same
      BY <1>3, <2>4 DEF Main, MainCheck, MainSpawn, MainStart, MainReadLine,
                        MainAwait, MainStop, MainTellExit, MainWake, MainJoin
    <3>2. QED
      BY <2>1, <3>1, FlagKept
  <2>5. QED
    BY <2>2, <2>3, <2>4
<1>4. QED
  BY <1>1, <1>2, <1>3 DEF Next

MisuseInv == misused \subseteq MayMisuse

LEMMA MayMisuseGrows ==
  ASSUME prog' = prog, failed \subseteq failed'
  PROVE  MayMisuse \subseteq MayMisuse'
BY DEF MayMisuse

(* A tear-down that asks no flag finds what it tears down, unless a check  *)
(* or a set-up has failed in poc1 or poc2, or poc7 has gone on.            *)
LEMMA BlindMisuse ==
  ASSUME StandInv, StandsInv, FailedOK, MainTearDown, Here.always
  PROVE  Here.on \ held \subseteq MayMisuse
<1>1. /\ prog \in DOMAIN Programs /\ Here = ScriptOf(prog)[pc]
      /\ P = Programs[prog] /\ pc \in StepsOf(prog, "tearDown")
  BY MainAdvances DEF Main, MainTearDown, Doing, StepsOf
<1>2. /\ prog \in {"poc1", "poc2", "poc7"} /\ Here.on \subseteq Stands(prog, pc)
      /\ IF prog = "poc7" THEN pc < P.cleanup
         ELSE Here.on \subseteq {"ring", "context", "device"}
  BY <1>1, BlindAssumption
<1>3. CASE prog = "poc7"
  BY <1>2, <1>3 DEF StandsInv, MayMisuse
<1>4. CASE prog # "poc7" /\ failed \intersect {"check", "setUp"} # {}
  BY <1>2, <1>4 DEF MayMisuse
<1>5. CASE prog # "poc7" /\ failed \intersect {"check", "setUp"} = {}
  <2>1. Here.on \subseteq held \union failed
    BY <1>2, <1>5 DEF StandsInv
  <2>2. Here.on \intersect failed = {}
    BY <1>2, <1>5 DEF FailedOK
  <2>3. QED
    BY <2>1, <2>2
<1>6. QED
  BY <1>3, <1>4, <1>5

LEMMA MisuseNext ==
  ASSUME StandInv, StandsInv, FailedOK, FlagInv, MisuseInv, [Next]_vars
  PROVE  MisuseInv'
<1>1. CASE UNCHANGED vars
  BY <1>1 DEF vars, MisuseInv, MayMisuse
<1>2. CASE Callback \/ Reader \/ Worker \/ Keys
  BY <1>2, OthersKeep DEF StandInv, MisuseInv, MayMisuse
<1>3. CASE Main
  <2>1. prog' = prog /\ MayMisuse \subseteq MayMisuse'
    BY <1>3, MainAdvances, MayMisuseGrows
  <2>2. CASE MainSetUp
    <3>1. ASSUME NEW f \in Here.fails, misused' = misused \union f.misuses,
                 "setUp" \in failed'
          PROVE  MisuseInv'
      <4>1. f.misuses \subseteq MayMisuse'
        BY <2>1, <2>2, <3>1, Failures DEF MayMisuse
      <4>2. QED
        BY <2>1, <3>1, <4>1 DEF MisuseInv
    <3>2. \/ misused' = misused
          \/ \E f \in Here.fails : misused' = misused \union f.misuses /\ "setUp" \in failed'
      BY <2>2 DEF MainSetUp, Fail
    <3>3. QED
      BY <2>1, <3>1, <3>2 DEF MisuseInv
  <2>3. CASE MainTearDown
    <3>1. PICK gone : /\ misused' = misused \union (gone \ held)
                      /\ gone = IF Here.always THEN Here.on ELSE Here.on \intersect flagged
      BY <2>3 DEF MainTearDown
    <3>2. CASE Here.always
      BY <2>1, <2>3, <3>1, <3>2, BlindMisuse DEF MisuseInv
    <3>3. CASE ~Here.always
      <4>1. gone \ held \subseteq MayPromise
        BY <3>1, <3>3 DEF FlagInv
      <4>2. MayPromise \subseteq MayMisuse
        BY DEF MayPromise, MayMisuse
      <4>3. QED
        BY <2>1, <3>1, <4>1, <4>2 DEF MisuseInv
    <3>4. QED
      BY <3>2, <3>3
  <2>4. CASE ~MainSetUp /\ ~MainTearDown
    <3>1. misused' = misused
      BY <1>3, <2>4 DEF Main, MainCheck, MainSpawn, MainStart, MainReadLine,
                        MainAwait, MainStop, MainTellExit, MainWake, MainJoin
    <3>2. QED
      BY <2>1, <3>1 DEF MisuseInv
  <2>5. QED
    BY <2>2, <2>3, <2>4
<1>4. QED
  BY <1>1, <1>2, <1>3 DEF Next

(* Whatever fails, no clean-up and no roll-back tears down what is not     *)
(* there or is gone already, but for what MayMisuse names; and none at all *)
(* when it was the device that did not start or stop.                      *)
THEOREM TearsDownOnlyWhatIsSetUp == Spec => []TearsDownWhatIsSetUp
<1>1. Init => MisuseInv
  BY DEF Init, MisuseInv
<1>2. StandInv /\ StandsInv /\ [Next]_vars => StandsInv'
  BY StandsNext
<1>3. StandInv /\ FailedOK /\ [Next]_vars => FailedOK'
  BY FailedNext
<1>4. StandInv /\ FlagInv /\ [Next]_vars => FlagInv'
  BY FlagNext
<1>5. StandInv /\ StandsInv /\ FailedOK /\ FlagInv /\ MisuseInv /\ [Next]_vars
        => MisuseInv'
  BY MisuseNext
<1>6. MisuseInv => TearsDownWhatIsSetUp
  BY DEF MisuseInv, TearsDownWhatIsSetUp
<1>7. QED
  BY StandInvInit, StandInvNext, StandsInit, FlagInit, <1>1, <1>2, <1>3, <1>4,
     <1>5, <1>6, PTL DEF Spec

-----------------------------------------------------------------------------
(***************************************************************************)
(* What is left.  For whatever is set up and not forgotten main still has  *)
(* a step to tear it down, which no failure jumps over.                    *)
(***************************************************************************)
LeaveInv == /\ leaked \subseteq Forgotten(prog)
            /\ \A r \in held \ Forgotten(prog) : RemovedAfter(prog, r, pc)

LEMMA LeaveNext ==
  ASSUME StandInv, FlagInv, LeaveInv, [Next]_vars
  PROVE  LeaveInv'
<1>1. CASE UNCHANGED vars
  BY <1>1 DEF vars, LeaveInv
<1>2. CASE Callback \/ Reader \/ Worker \/ Keys
  <2>1. /\ UNCHANGED <<prog, pc>> /\ P' = P
        /\ held' \subseteq held \union P.worker.makes
        /\ leaked' \subseteq leaked \union P.worker.makes
    BY <1>2, OthersKeep DEF StandInv
  <2>2. P.worker.makes \subseteq Forgotten(prog)
    BY InTable, RemovalAssumption DEF StandInv, P
  <2>3. QED
    BY <2>1, <2>2 DEF LeaveInv
<1>3. CASE Main
  <2>1. /\ prog \in DOMAIN Programs /\ prog' = prog /\ P = Programs[prog]
        /\ Here = ScriptOf(prog)[pc] /\ pc \in DOMAIN ScriptOf(prog)
        /\ pc' = pc + 1 \/ pc' = pc \/ (pc' = P.cleanup /\ Jumps(Here))
    BY <1>3, MainAdvances
  <2>2. leaked' = leaked
    BY <1>3 DEF Main, MainCheck, MainSetUp, MainSpawn, MainStart, MainReadLine,
                MainAwait, MainStop, MainTellExit, MainWake, MainJoin,
                MainTearDown
  <2>3. SUFFICES ASSUME NEW r \in held' \ Forgotten(prog)
                 PROVE  RemovedAfter(prog, r, pc')
    BY <2>1, <2>2 DEF LeaveInv
  <2>4. CASE r \in held /\ ~Removes(Here, r)
    <3>1. RemovedAfter(prog, r, pc)
      BY <2>3, <2>4 DEF LeaveInv
    <3>2. /\ RemovedAfter(prog, r, pc + 1)
          /\ Jumps(Here) => RemovedAfter(prog, r, P.cleanup)
      BY <2>1, <2>4, <3>1, RemovedStep
    <3>3. QED
      BY <2>1, <3>1, <3>2
  <2>5. CASE r \notin held
    <3>1. MainSetUp /\ Succeed /\ r \in Here.on
      <4>1. MainSetUp
        BY <1>3, <2>3, <2>5
           DEF Main, MainCheck, MainSpawn, MainStart, MainReadLine, MainAwait,
               MainStop, MainTellExit, MainWake, MainJoin, MainTearDown
      <4>2. \A f \in Here.fails : r \notin f.leaves
        BY <2>3, <4>1, Failures
      <4>3. QED
        BY <2>3, <2>5, <4>1, <4>2 DEF MainSetUp
    <3>2. pc \in StepsOf(prog, "setUp") /\ pc' = pc + 1
      BY <2>1, <3>1 DEF StepsOf, MainSetUp, Doing, Succeed
    <3>3. QED
      BY <2>1, <2>3, <3>1, <3>2, RemovalAssumption
  <2>6. CASE Removes(Here, r)
    <3>1. MainTearDown
      BY <1>3, <2>6
         DEF Removes, Main, MainCheck, MainSetUp, MainSpawn, MainStart,
             MainReadLine, MainAwait, MainStop, MainTellExit, MainWake,
             MainJoin, Doing
    <3>2. r \in held => r \in flagged
      BY <2>3 DEF FlagInv
    <3>3. QED
      BY <2>3, <2>6, <3>1, <3>2 DEF MainTearDown, Removes
  <2>7. QED
    BY <2>4, <2>5, <2>6
<1>4. QED
  BY <1>1, <1>2, <1>3 DEF Next

(* A main that ends has torn down all that was set up, whatever failed on  *)
(* the way, but for the handful the programs forget.                       *)
THEOREM LeavesOnlyTheForgotten == Spec => []LeavesNothingElse
<1>1. Init => LeaveInv
  BY DEF Init, LeaveInv
<1>2. StandInv /\ FlagInv /\ LeaveInv /\ [Next]_vars => LeaveInv'
  BY LeaveNext
<1>3. StandInv /\ LeaveInv => LeavesNothingElse
  <2> SUFFICES ASSUME StandInv, LeaveInv, Done
               PROVE  held \subseteq Forgotten(prog)
    BY DEF LeavesNothingElse, LeaveInv
  <2>1. pc > Len(ScriptOf(prog)) /\ Script = ScriptOf(prog)
    BY DEF Done, Script, ScriptOf, P
  <2>2. prog \in DOMAIN Programs /\ pc \in Nat
    BY <2>1, InTable, ScriptPositions DEF StandInv, PcOK
  <2>3. \A r : ~RemovedAfter(prog, r, pc)
    BY <2>1, <2>2, ScriptPositions DEF RemovedAfter
  <2>4. QED
    BY <2>3 DEF LeaveInv
<1>4. StandInv /\ FlagInv /\ [Next]_vars => FlagInv'
  BY FlagNext
<1>5. QED
  BY StandInvInit, StandInvNext, FlagInit, <1>1, <1>2, <1>3, <1>4, PTL DEF Spec

-----------------------------------------------------------------------------
(***************************************************************************)
(* The threads.  One that runs has what it needs, and main still has a     *)
(* step to join it, unless start() or stop() has failed.                   *)
(***************************************************************************)
HasAndIsJoined(t) == Needs(t) \in held /\ JoinedAfter(prog, t, pc)
LeftBehind == prog # "capture" /\ failed \intersect {"start", "stop"} # {}

ThreadInv == \A t \in Threads : \/ at[t] \in {"none", "joined"}
                                \/ HasAndIsJoined(t)
                                \/ LeftBehind

SpawnedInv == \A t \in Threads : at[t] # "none" => Spawns(prog, t)

LEMMA NotMadeByWorker ==
  ASSUME PlaceOK
  PROVE  {"ring", "model", "resampler"} \intersect P.worker.frees = {}
BY InTable, RemovalAssumption DEF P

(* A thread is spawned where what it needs is there.                       *)
LEMMA SpawnHas ==
  ASSUME StandInv, StandsInv, FailedOK, MainSpawn
  PROVE  /\ Here.on \in Threads /\ Spawns(prog, Here.on)
         /\ Needs(Here.on) \in held' /\ JoinedAfter(prog, Here.on, pc')
         /\ at' = [at EXCEPT ![Here.on] = "loop"]
<1>1. /\ prog \in DOMAIN Programs /\ prog' = prog /\ P = Programs[prog]
      /\ Here = ScriptOf(prog)[pc] /\ pc \in DOMAIN ScriptOf(prog)
      /\ Script = ScriptOf(prog)
  BY MainAdvances DEF Main, Script, ScriptOf, P
<1>2. pc \in StepsOf(prog, "spawn")
  BY <1>1 DEF MainSpawn, Doing, StepsOf
<1>3. Here.on \in Threads
  BY <1>1, <1>2, StepsNameThreads DEF StandInv, StepsOf
<1>4. pc < P.cleanup
  BY <1>1, <1>2, ScriptShape DEF StandInv, StepsOf
<1>5. Needs(Here.on) \in held
  <2>1. Needs(Here.on) \in Stands(prog, pc) /\ Needs(Here.on) \in {"ring", "model"}
    BY <1>1, <1>2, SpawnAssumption DEF Needs
  <2>2. QED
    BY <1>4, <2>1 DEF StandsInv, FailedOK
<1>6. JoinedAfter(prog, Here.on, pc + 1)
  BY <1>1, <1>2, SpawnAssumption
<1>7. pc' = pc + 1 /\ held' = held /\ at' = [at EXCEPT ![Here.on] = "loop"]
  BY DEF MainSpawn, Succeed, Move
<1>8. Spawns(prog, Here.on)
  BY <1>1, <1>2 DEF Spawns
<1>9. QED
  BY <1>3, <1>5, <1>6, <1>7, <1>8

LEMMA ThreadMain ==
  ASSUME StandInv, StandsInv, FailedOK, ThreadInv, SpawnedInv, Main
  PROVE  ThreadInv' /\ SpawnedInv'
<1>1. /\ prog \in DOMAIN Programs /\ prog' = prog /\ P = Programs[prog]
      /\ Here = ScriptOf(prog)[pc] /\ pc \in DOMAIN ScriptOf(prog)
      /\ failed \subseteq failed'
      /\ \/ pc' = pc + 1
         \/ pc' = pc /\ Here.do = "await"
         \/ /\ pc' = P.cleanup /\ Jumps(Here)
            /\ failed' = failed \union {Here.do}
  BY MainAdvances
<1>2. SUFFICES ASSUME NEW t \in Threads
               PROVE  /\ \/ at'[t] \in {"none", "joined"}
                         \/ Needs(t) \in held' /\ JoinedAfter(prog, t, pc')
                         \/ LeftBehind'
                      /\ at'[t] # "none" => Spawns(prog, t)
  BY <1>1 DEF ThreadInv, SpawnedInv, HasAndIsJoined
<1>3. MovedByMain(t) /\ at[t] \in Labels
  BY MainMoves DEF StandInv, PlaceOK, Thread, Threads
<1>4. CASE at[t] = "none" /\ at'[t] = "loop"
  <2>1. MainSpawn /\ Here.on = t
    <3>1. MainSpawn
      BY <1>4
         DEF Main, MainCheck, MainSetUp, MainStart, MainReadLine, MainAwait,
             MainStop, MainTellExit, MainWake, MainJoin, MainTearDown, Move,
             Told, StandInv, PlaceOK, Thread, Threads
    <3>2. QED
      BY <1>4, <3>1, SpawnHas DEF StandInv, PlaceOK, Thread, Threads
  <2>2. Needs(t) \in held' /\ JoinedAfter(prog, t, pc') /\ Spawns(prog, t)
    BY <2>1, SpawnHas
  <2>3. QED
    BY <2>2
<1>5. CASE at[t] \in {"none", "joined"} /\ at'[t] = at[t]
  BY <1>5 DEF SpawnedInv
<1>6. CASE at[t] \notin {"none", "joined"}
  <2>1. Spawns(prog, t)
    BY <1>6 DEF SpawnedInv
  <2>2. CASE LeftBehind
    BY <1>1, <2>1, <2>2 DEF LeftBehind
  <2>3. CASE HasAndIsJoined(t)
    <3>1. /\ Jumps(Here) => prog # "capture" /\ Here.do \in {"start", "stop"}
          /\ ~Removes(Here, Needs(t))
          /\ JoinedAfter(prog, t, pc + 1) \/ (Here.do = "join" /\ Here.on = t)
      BY <1>1, <2>3, JoinedStep DEF HasAndIsJoined
    <3>2. CASE Jumps(Here) /\ failed' = failed \union {Here.do}
      BY <1>1, <2>1, <3>1, <3>2 DEF LeftBehind
    <3>3. CASE pc' = pc \/ pc' = pc + 1
      <4>1. Needs(t) \in held'
        BY <2>3, <3>1, MainKeepsStanding DEF HasAndIsJoined
      <4>2. JoinedAfter(prog, t, pc') \/ at'[t] = "joined"
        <5>1. CASE Here.do = "join" /\ Here.on = t
          <6>1. MainJoin
            BY <5>1 DEF Main, MainCheck, MainSetUp, MainSpawn, MainStart,
                        MainReadLine, MainAwait, MainStop, MainTellExit,
                        MainWake, MainTearDown, Doing
          <6>2. QED
            BY <5>1, <6>1 DEF MainJoin, Move, StandInv, PlaceOK, Thread, Threads
        <5>2. CASE JoinedAfter(prog, t, pc + 1)
          BY <2>3, <3>3, <5>2 DEF HasAndIsJoined
        <5>3. QED
          BY <3>1, <5>1, <5>2
      <4>3. QED
        BY <2>1, <4>1, <4>2
    <3>4. QED
      BY <1>1, <3>2, <3>3
  <2>4. QED
    BY <1>6, <2>2, <2>3 DEF ThreadInv
<1>7. QED
  BY <1>3, <1>4, <1>5, <1>6 DEF MovedByMain

LEMMA ThreadNext ==
  ASSUME StandInv, StandsInv, FailedOK, ThreadInv, SpawnedInv, [Next]_vars
  PROVE  ThreadInv' /\ SpawnedInv'
<1>1. CASE UNCHANGED vars
  BY <1>1 DEF vars, ThreadInv, SpawnedInv, HasAndIsJoined, LeftBehind
<1>2. CASE Callback \/ Reader \/ Worker \/ Keys
  <2>1. /\ UNCHANGED <<prog, pc, failed>>
        /\ \A t \in Threads : at[t] \in {"none", "joined"} => at'[t] = at[t]
        /\ held \ P.worker.frees \subseteq held'
    BY <1>2, OthersKeep DEF StandInv
  <2>2. \A t : Needs(t) \notin P.worker.frees
    BY NotMadeByWorker DEF StandInv, Needs
  <2>3. QED
    BY <2>1, <2>2 DEF ThreadInv, SpawnedInv, HasAndIsJoined, LeftBehind
<1>3. QED
  BY <1>1, <1>2, ThreadMain DEF Next

LEMMA ThreadInit == Init => ThreadInv /\ SpawnedInv
BY DEF Init, ThreadInv, SpawnedInv, Threads

(* A main that ends has joined every thread it spawned, unless the device  *)
(* did not start or stop; the capture device has even then.                *)
THEOREM ProgramsEndJoined == Spec => []EndsJoined
<1>1. StandInv /\ FailedOK /\ [Next]_vars => FailedOK'
  BY FailedNext
<1>2. StandInv /\ StandsInv /\ [Next]_vars => StandsInv'
  BY StandsNext
<1>3. StandInv /\ StandsInv /\ FailedOK /\ ThreadInv /\ SpawnedInv /\ [Next]_vars
        => ThreadInv' /\ SpawnedInv'
  BY ThreadNext
<1>4. StandInv /\ ThreadInv => EndsJoined
  <2> SUFFICES ASSUME StandInv, ThreadInv, Done, ~LeftBehind, NEW t \in Threads
               PROVE  at[t] \in {"none", "joined"}
    BY DEF EndsJoined, Threads, LeftBehind
  <2>1. pc > Len(ScriptOf(prog))
    BY DEF Done, Script, ScriptOf, P
  <2>2. prog \in DOMAIN Programs /\ pc \in Nat
    BY InTable, ScriptPositions DEF StandInv, PcOK, Script, P, ScriptOf
  <2>3. ~JoinedAfter(prog, t, pc)
    BY <2>1, <2>2, ScriptPositions DEF JoinedAfter, StepsOf
  <2>4. QED
    BY <2>3 DEF ThreadInv, HasAndIsJoined
<1>5. QED
  BY StandInvInit, StandInvNext, StandsInit, ThreadInit, <1>1, <1>2, <1>3, <1>4,
     PTL DEF Spec

-----------------------------------------------------------------------------
(***************************************************************************)
(* The callback.  While the device runs what its callback fills is there,  *)
(* and main still has a step that ends the callbacks before that goes.     *)
(***************************************************************************)
PlayInv ==
  \/ "stop" \in failed
  \/ /\ at.callback # "idle" => playing
     /\ playing => FillsOf(prog) \in held \union failed /\ QuietAfter(prog, pc)

LEMMA PlayMain ==
  ASSUME StandInv, StandsInv, PlayInv, Main, "stop" \notin failed'
  PROVE  PlayInv'
<1>1. /\ prog \in DOMAIN Programs /\ prog' = prog /\ P = Programs[prog]
      /\ Here = ScriptOf(prog)[pc] /\ pc \in DOMAIN ScriptOf(prog)
      /\ failed \subseteq failed'
      /\ pc' = pc + 1 \/ pc' = pc \/ (pc' = P.cleanup /\ Jumps(Here))
  BY MainAdvances
<1>2. at'.callback = at.callback
  BY MainMoves
<1>3. /\ at.callback # "idle" => playing
      /\ playing => FillsOf(prog) \in held \union failed /\ QuietAfter(prog, pc)
  BY <1>1 DEF PlayInv
<1>4. CASE MainStart /\ playing' = TRUE /\ pc' = pc + 1 /\ held' = held
  <2>1. pc \in StepsOf(prog, "start")
    BY <1>1, <1>4 DEF MainStart, Doing, StepsOf
  <2>2. /\ pc < P.cleanup /\ FillsOf(prog) \in Stands(prog, pc)
        /\ QuietAfter(prog, pc + 1)
    BY <1>1, <2>1, StartAssumption
  <2>3. QED
    BY <1>1, <1>4, <2>2 DEF StandsInv, PlayInv
<1>5. CASE ~playing' /\ at.callback = "idle"
  BY <1>2, <1>5 DEF PlayInv
<1>6. CASE ~playing' /\ ~playing
  BY <1>2, <1>3, <1>6 DEF PlayInv
<1>7. CASE playing /\ playing' /\ Here.do # "stop" /\ ~Removes(Here, "device")
  <2>1. /\ ~Jumps(Here) /\ ~Removes(Here, FillsOf(prog))
        /\ QuietAfter(prog, pc + 1)
    BY <1>1, <1>3, <1>7, QuietStep
  <2>2. FillsOf(prog) \in held' \union failed'
    BY <1>1, <1>3, <1>7, <2>1, MainKeepsStanding
  <2>3. QED
    BY <1>1, <1>2, <1>3, <1>7, <2>1, <2>2 DEF PlayInv
<1>8. \/ MainStart /\ playing' = TRUE /\ pc' = pc + 1 /\ held' = held
      \/ ~playing' /\ at.callback = "idle"
      \/ ~playing' /\ ~playing
      \/ playing /\ playing' /\ Here.do # "stop" /\ ~Removes(Here, "device")
  <2>1. CASE MainStart
    BY <2>1 DEF MainStart, Doing, Succeed, Removes
  <2>2. CASE MainStop
    BY <2>2 DEF MainStop, Doing, GoOn, Fail
  <2>3. CASE MainTearDown
    <3>1. playing' <=> (playing /\ "device" \notin Here.on)
      BY <2>3 DEF MainTearDown
    <3>2. QED
      BY <2>3, <3>1 DEF MainTearDown, Doing, Removes
  <2>4. CASE ~MainStart /\ ~MainStop /\ ~MainTearDown
    BY <2>4 DEF Main, MainCheck, MainSetUp, MainSpawn, MainReadLine, MainAwait,
                MainTellExit, MainWake, MainJoin, Doing, Removes
  <2>5. QED
    BY <2>1, <2>2, <2>3, <2>4 DEF Main
<1>9. QED
  BY <1>4, <1>5, <1>6, <1>7, <1>8

LEMMA PlayNext ==
  ASSUME StandInv, StandsInv, PlayInv, [Next]_vars
  PROVE  PlayInv'
<1>1. CASE UNCHANGED vars
  BY <1>1 DEF vars, PlayInv
<1>2. CASE Callback \/ Reader \/ Worker \/ Keys
  <2>1. /\ UNCHANGED <<prog, pc, failed, playing>>
        /\ held \ P.worker.frees \subseteq held'
    BY <1>2, OthersKeep DEF StandInv
  <2>2. FillsOf(prog) \notin P.worker.frees
    BY NotMadeByWorker DEF StandInv, FillsOf
  <2>3. at'.callback # "idle" => at.callback # "idle" \/ playing
    <3>1. CASE Callback
      BY <3>1 DEF Callback, CallbackBegin, CallbackWrite, CallbackPublish,
                  CallbackNotify
    <3>2. CASE Reader \/ Worker \/ Keys
      <4>1. at'.callback = at.callback
        <5>1. CASE Reader
          BY <5>1, HandOverMoves
             DEF Reader, ReaderLoop, ReaderTest, ReaderBlock, ReaderSnapshot,
                 ReaderPiece, ReaderInterval, ReaderStop, ReaderCommit, Move,
                 StandInv, PlaceOK, Thread
        <5>2. CASE Worker
          BY <5>2 DEF Worker, WorkerLoop, WorkerTest, WorkerBlock, WorkerBegin,
                      WorkerClear, Move, StandInv, PlaceOK, Thread
        <5>3. CASE Keys
          BY <5>3, KeysNotifyMoves
             DEF Keys, PressA, PressEscape, Move, StandInv, PlaceOK, Thread
        <5>4. QED
          BY <3>2, <5>1, <5>2, <5>3
      <4>2. QED
        BY <4>1
    <3>3. QED
      BY <1>2, <3>1, <3>2
  <2>4. QED
    BY <2>1, <2>2, <2>3 DEF PlayInv
<1>3. CASE Main
  BY <1>3, PlayMain DEF PlayInv
<1>4. QED
  BY <1>1, <1>2, <1>3 DEF Next

-----------------------------------------------------------------------------
(***************************************************************************)
(* Before the device is started, and for ever when it does not start, no   *)
(* audio moves, although the threads run and Escape may end them.          *)
(***************************************************************************)
BeforeStart(i) == \A j \in StepsOf(prog, "start") : i <= j

BlindReader == Spawns(prog, "reader") /\ ~P.reader.testsExit

StartInv == "start" \in failed =>
              /\ \A j \in StepsOf(prog, "start") : j < pc
              /\ BlindReader => pc >= P.cleanup

Quiet ==
  /\ ~playing /\ at.callback = "idle" /\ ~ready /\ ~sliceReady
  /\ at.reader \notin {"drain", "interval", "stop", "commit"}
  /\ at.reader = "snapshot" => exit
  /\ ~(exit /\ BlindReader)
  /\ at.worker # "infer" /\ (at.worker = "begin" => exit)

QuietInv == (BeforeStart(pc) \/ "start" \in failed) => Quiet

LEMMA StartMain ==
  ASSUME StandInv, StartInv, Main
  PROVE  StartInv'
<1>1. /\ prog \in DOMAIN Programs /\ prog' = prog /\ P' = P
      /\ P = Programs[prog] /\ Here = ScriptOf(prog)[pc]
      /\ pc \in DOMAIN ScriptOf(prog)
      /\ \/ pc' = pc + 1
         \/ pc' = pc /\ Here.do = "await"
         \/ /\ pc' = P.cleanup /\ Jumps(Here)
            /\ failed' = failed \union {Here.do}
  BY MainAdvances
<1>2. /\ pc \in Nat /\ P.cleanup \in Nat
      /\ \A j \in StepsOf(prog, "start") : j \in Nat /\ j < P.cleanup
  BY <1>1, ScriptPositions, StartAssumption DEF StepsOf
<1>3. SUFFICES ASSUME "start" \in failed'
               PROVE  /\ \A j \in StepsOf(prog, "start") : j < pc'
                      /\ BlindReader => pc' >= P.cleanup
  BY <1>1 DEF StartInv, BlindReader
<1>4. CASE "start" \in failed
  BY <1>1, <1>2, <1>4 DEF StartInv
<1>5. CASE "start" \notin failed
  <2>1. MainStart /\ (Here.onFailure = "ignored" => pc' = pc + 1)
                  /\ (Here.onFailure # "ignored" => pc' = P.cleanup)
    <3>1. CASE MainSetUp
      <4>1. Here.onFailure = "ignored" => Here.on \subseteq {"file", "resampler", "stream"}
        <5>1. pc \in StepsOf(prog, "setUp")
          BY <1>1, <3>1 DEF MainSetUp, Doing, StepsOf
        <5>2. QED
          BY <1>1, <5>1, FlagAssumption
      <4>2. QED
        BY <1>3, <1>5, <3>1, <4>1 DEF MainSetUp, Succeed, Fail
    <3>2. CASE MainStart
      BY <1>3, <1>5, <3>2 DEF MainStart, Succeed, Fail, GoOn
    <3>3. CASE ~MainSetUp /\ ~MainStart
      BY <1>3, <1>5, <3>3
         DEF Main, MainCheck, MainSpawn, MainReadLine, MainAwait, MainStop,
             MainTellExit, MainWake, MainJoin, MainTearDown, Succeed, Fail,
             GoOn
    <3>4. QED
      BY <3>1, <3>2, <3>3
  <2>2. pc \in StepsOf(prog, "start") /\ Here.do = "start"
    BY <1>1, <2>1 DEF MainStart, Doing, StepsOf
  <2>3. \A j \in StepsOf(prog, "start") : j = pc
    BY <1>1, <2>2, StartAssumption
  <2>4. BlindReader => Here.onFailure # "ignored"
    BY <1>1, <2>2, ExitAssumption DEF BlindReader, Jumps
  <2>5. QED
    BY <1>2, <2>1, <2>3, <2>4
<1>6. QED
  BY <1>4, <1>5

(* A step of main into, or within, the quiet keeps it.                     *)
LEMMA QuietMain ==
  ASSUME StandInv, StartInv, QuietInv, Main,
         BeforeStart(pc)' \/ "start" \in failed'
  PROVE  Quiet'
<1>1. /\ prog \in DOMAIN Programs /\ prog' = prog /\ P' = P
      /\ P = Programs[prog] /\ Here = ScriptOf(prog)[pc]
      /\ pc \in DOMAIN ScriptOf(prog) /\ failed \subseteq failed'
      /\ \/ pc' = pc + 1
         \/ pc' = pc /\ Here.do = "await"
         \/ /\ pc' = P.cleanup /\ Jumps(Here)
            /\ failed' = failed \union {Here.do}
  BY MainAdvances
<1>2. /\ pc \in Nat /\ P.cleanup \in Nat
      /\ \A j \in StepsOf(prog, "start") : j \in Nat /\ j < P.cleanup
  BY <1>1, ScriptPositions, StartAssumption DEF StepsOf
<1>3. StartInv'
  BY StartMain
<1>4. /\ UNCHANGED <<ready, sliceReady>> /\ at'.callback = at.callback
      /\ MovedByMain("reader") /\ MovedByMain("worker")
      /\ BlindReader' = BlindReader /\ (exit => exit')
  BY <1>1, MainMoves DEF Threads, BlindReader
<1>5. CASE BeforeStart(pc) \/ "start" \in failed
  <2>1. Quiet
    BY <1>5 DEF QuietInv
  <2>2. ~playing'
    <3>1. CASE MainStart /\ Succeed
      <4>1. pc \in StepsOf(prog, "start") /\ pc' = pc + 1 /\ failed' = failed
        BY <1>1, <3>1 DEF MainStart, Doing, Succeed, StepsOf
      <4>2. ~BeforeStart(pc)' /\ "start" \notin failed
        BY <1>1, <1>2, <4>1 DEF BeforeStart, StartInv
      <4>3. QED
        BY <4>1, <4>2
    <3>2. CASE ~(MainStart /\ Succeed)
      BY <2>1, <3>2
         DEF Quiet, Main, MainCheck, MainSetUp, MainSpawn, MainStart,
             MainReadLine, MainAwait, MainStop, MainTellExit, MainWake,
             MainJoin, MainTearDown
    <3>3. QED
      BY <3>1, <3>2
  <2>3. ~(exit' /\ BlindReader)
    <3>1. CASE MainTellExit /\ BlindReader
      <4>1. pc \in StepsOf(prog, "tellExit") /\ pc' = pc + 1 /\ failed' = failed
        BY <1>1, <3>1 DEF MainTellExit, Doing, Succeed, StepsOf
      <4>2. pc < P.cleanup /\ \E j \in StepsOf(prog, "start") : j < pc
        BY <1>1, <3>1, <4>1, ExitAssumption DEF BlindReader
      <4>3. ~BeforeStart(pc)'
        BY <1>1, <1>2, <4>1, <4>2 DEF BeforeStart
      <4>4. "start" \notin failed
        BY <1>2, <3>1, <4>2 DEF StartInv
      <4>5. QED
        BY <4>1, <4>3, <4>4
    <3>2. CASE ~MainTellExit
      <4>1. exit' = exit
        BY <3>2 DEF Main, MainCheck, MainSetUp, MainSpawn, MainStart,
                    MainReadLine, MainAwait, MainStop, MainWake, MainJoin,
                    MainTearDown
      <4>2. QED
        BY <2>1, <4>1 DEF Quiet
    <3>3. QED
      BY <3>1, <3>2
  <2>4. QED
    BY <1>4, <2>1, <2>2, <2>3 DEF Quiet, MovedByMain
<1>6. BeforeStart(pc) \/ "start" \in failed
  <2>1. CASE BeforeStart(pc)'
    BY <1>1, <1>2, <2>1 DEF BeforeStart
  <2>2. CASE "start" \in failed' /\ "start" \notin failed
    <3>1. Here.do = "start"
      <4>1. CASE MainSetUp
        <5>1. pc \in StepsOf(prog, "setUp")
          BY <1>1, <4>1 DEF MainSetUp, Doing, StepsOf
        <5>2. Here.onFailure = "ignored" => Here.on \subseteq {"file", "resampler", "stream"}
          BY <1>1, <5>1, FlagAssumption
        <5>3. QED
          BY <2>2, <4>1, <5>2 DEF MainSetUp, Succeed, Fail
      <4>2. CASE ~MainSetUp
        BY <2>2, <4>2
           DEF Main, MainCheck, MainSpawn, MainStart, MainReadLine, MainAwait,
               MainStop, MainTellExit, MainWake, MainJoin, MainTearDown,
               Succeed, Fail, GoOn, Doing
      <4>3. QED
        BY <4>1, <4>2
    <3>2. pc \in StepsOf(prog, "start")
      BY <1>1, <3>1 DEF StepsOf
    <3>3. \A j \in StepsOf(prog, "start") : j = pc
      BY <1>1, <3>2, StartAssumption
    <3>4. QED
      BY <1>2, <3>3 DEF BeforeStart
  <2>3. QED
    BY <2>1, <2>2
<1>7. QED
  BY <1>5, <1>6

LEMMA QuietOthers ==
  ASSUME StandInv, SpawnedInv, HookInv, Quiet, Callback \/ Reader \/ Worker \/ Keys
  PROVE  Quiet'
<1> USE DEF StandInv, PlaceOK, Thread
<1>1. UNCHANGED <<prog, playing>> /\ BlindReader' = BlindReader
  BY OthersKeep DEF BlindReader
<1>2. CASE Callback
  BY <1>2 DEF Callback, CallbackBegin, CallbackWrite, CallbackPublish,
              CallbackNotify, Quiet
<1>3. CASE Reader
  <2>1. at.reader # "none"
    BY <1>3 DEF Reader, ReaderLoop, ReaderTest, ReaderBlock, ReaderSnapshot,
                ReaderPiece, ReaderInterval, ReaderStop, ReaderCommit
  <2>2. exit => P.reader.testsExit
    BY <2>1 DEF SpawnedInv, Quiet, BlindReader, Threads
  <2>3. ReaderLoop \/ ReaderTest \/ ReaderBlock \/ ReaderSnapshot
    BY <1>3 DEF Reader, ReaderPiece, ReaderInterval, ReaderStop, ReaderCommit,
                Quiet
  <2>4. QED
    BY <1>1, <2>2, <2>3
       DEF ReaderLoop, ReaderTest, ReaderBlock, ReaderSnapshot, Move, Quiet
<1>4. CASE Worker
  BY <1>1, <1>4 DEF Worker, WorkerLoop, WorkerTest, WorkerBlock, WorkerBegin,
                    WorkerClear, Move, Quiet
<1>5. CASE PressA \/ KeysNotify
  BY <1>1, <1>5, KeysNotifyMoves DEF PressA, KeysNotify, Quiet
<1>6. CASE PressEscape
  <2>1. HasKeys(prog)
    BY <1>6 DEF PressEscape, KeysHeard, HookInv
  <2>2. ~BlindReader
    BY <2>1, InTable, ExitAssumption DEF BlindReader, P
  <2>3. QED
    BY <1>1, <1>6, <2>2 DEF PressEscape, Move, Quiet
<1>7. QED
  BY <1>2, <1>3, <1>4, <1>5, <1>6 DEF Keys

LEMMA QuietNext ==
  ASSUME StandInv, StartInv, SpawnedInv, HookInv, QuietInv, [Next]_vars
  PROVE  StartInv' /\ QuietInv'
<1>1. CASE UNCHANGED vars
  BY <1>1 DEF vars, StartInv, QuietInv, BeforeStart, Quiet, BlindReader, P
<1>2. CASE Callback \/ Reader \/ Worker \/ Keys
  <2>1. UNCHANGED <<prog, pc, failed>> /\ P' = P
    BY <1>2, OthersKeep DEF StandInv
  <2>2. BeforeStart(pc)' = BeforeStart(pc) /\ StartInv'
    BY <2>1 DEF BeforeStart, StartInv, BlindReader
  <2>3. QED
    BY <1>2, <2>1, <2>2, QuietOthers DEF QuietInv
<1>3. CASE Main
  BY <1>3, StartMain, QuietMain DEF QuietInv
<1>4. QED
  BY <1>1, <1>2, <1>3 DEF Next

(* Audio moves only through what is set up, in every order of the threads, *)
(* unless the device did not stop or the resampler nobody checked is       *)
(* missing.                                                                *)
THEOREM ProgramsUseOnlyWhatIsSetUp == Spec => []UsesOnlyWhatIsSetUp
<1>1. Init => PlayInv /\ StartInv /\ QuietInv
  BY DEF Init, PlayInv, StartInv, QuietInv, Quiet
<1>2. StandInv /\ FailedOK /\ [Next]_vars => FailedOK'
  BY FailedNext
<1>3. StandInv /\ StandsInv /\ [Next]_vars => StandsInv'
  BY StandsNext
<1>4. StandInv /\ StandsInv /\ FailedOK /\ ThreadInv /\ SpawnedInv /\ [Next]_vars
        => ThreadInv' /\ SpawnedInv'
  BY ThreadNext
<1>5. StandInv /\ HookInv /\ [Next]_vars => HookInv'
  BY HookNext
<1>6. StandInv /\ StandsInv /\ PlayInv /\ [Next]_vars => PlayInv'
  BY PlayNext
<1>7. StandInv /\ StartInv /\ SpawnedInv /\ HookInv /\ QuietInv /\ [Next]_vars
        => StartInv' /\ QuietInv'
  BY QuietNext
<1>8. FailedOK /\ ThreadInv /\ PlayInv /\ QuietInv => UsesOnlyWhatIsSetUp
  <2> SUFFICES ASSUME FailedOK, ThreadInv, PlayInv, QuietInv,
                      "stop" \notin failed, "resampler" \notin failed
               PROVE  UsesOnlyWhatIsSetUp
    BY DEF UsesOnlyWhatIsSetUp
  <2>1. at.callback = "write" => FillsOf(prog) \in held
    BY DEF PlayInv, FailedOK, FillsOf
  <2>2. ASSUME NEW t \in Threads, at[t] \notin {"none", "joined"},
               "start" \notin failed
        PROVE  Needs(t) \in held
    BY <2>2 DEF ThreadInv, HasAndIsJoined, LeftBehind
  <2>3. at.reader \in {"drain", "interval", "stop", "commit"} => "ring" \in held
    BY <2>2 DEF QuietInv, Quiet, Threads, Needs
  <2>4. at.worker = "infer" => "model" \in held
    BY <2>2 DEF QuietInv, Quiet, Threads, Needs
  <2>5. QED
    BY <2>1, <2>3, <2>4 DEF UsesOnlyWhatIsSetUp, FillsOf, P
<1>9. QED
  BY StandInvInit, StandInvNext, StandsInit, ThreadInit, HookInit,
     <1>1, <1>2, <1>3, <1>4, <1>5, <1>6, <1>7, <1>8, PTL DEF Spec
=============================================================================
