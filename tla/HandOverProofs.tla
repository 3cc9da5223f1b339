---------------------------- MODULE HandOverProofs ----------------------------
(***************************************************************************)
(* What CapturePipelineProofs proves of the ring carried on to the         *)
(* inference buffers, to the end of the program and to FrameChannel, for   *)
(* every size of ring, buffer and burst.                                   *)
(***************************************************************************)
EXTENDS CapturePipelineProofs

(***************************************************************************)
(* The slice.  A worker that is past the predicate without an exit holds   *)
(* a slice with audio in it, and the flag is raised over such a slice      *)
(* only.                                                                   *)
(***************************************************************************)
SliceInv ==
  /\ \/ inferenceBufReady \/ worker = "transcribe"
     \/ worker = "woken" /\ ~exit
     => inferSliceBuf # <<>>
  /\ reader = "overflow" => inferenceBuf # <<>>

LEMMA SliceInvInit == Init => SliceInv
BY DEF Init, SliceInv

LEMMA SliceInvNext ==
  ASSUME TypeOK, SliceInv, [Next]_vars
  PROVE  SliceInv'
<1> USE DEF SliceInv
<1>1. ASSUME NEW n \in 1..MaxBurst, DeliverFrames(n)
      PROVE  SliceInv'
  BY <1>1 DEF DeliverFrames, ProducerOnly, consumerVars, bufferVars, workerVars
<1>2. CASE Producer
  BY <1>2
     DEF Producer, ProducerDrop, ProducerAcquire, ProducerCommit,
         ProducerPublish, ProducerNotify, ProducerCount, ProducerOnly,
         Notified, consumerVars, bufferVars, workerVars
<1>3. CASE Consumer
  <2>1. CASE ConsumerRecord
    <3>1. Len(inferenceBuf') >= InferenceBufferSize => inferenceBuf' # <<>>
      BY EmptySeq, PipelineAssumption
    <3>2. QED
      BY <2>1, <3>1 DEF ConsumerRecord, ConsumerOnly, workerVars
  <2>2. CASE ConsumerOverflow \/ ConsumerRelease
    BY <2>2 DEF ConsumerOverflow, ConsumerRelease, HandOver, Notified,
                BuffersKept, ConsumerOnly, bufferVars, workerVars
  <2>3. CASE \/ ConsumerLoop \/ ConsumerCheck \/ ConsumerBlock
             \/ ConsumerSnapshot \/ ConsumerAcquire \/ ConsumerIdle
             \/ ConsumerCommit \/ ConsumerCount
    BY <2>3 DEF ConsumerLoop, ConsumerCheck, ConsumerBlock, ConsumerSnapshot,
                ConsumerAcquire, ConsumerIdle, ConsumerCommit, ConsumerCount,
                BuffersKept, ConsumerOnly, bufferVars, workerVars
  <2>4. QED
    BY <1>3, <2>1, <2>2, <2>3 DEF Consumer
<1>4. CASE Worker
  BY <1>4
     DEF Worker, WorkerLoop, WorkerCheck, WorkerBlock, WorkerBegin,
         WorkerFree, WorkerReport, WorkerOnly, consumerVars, bufferVars
<1>5. CASE Main
  BY <1>5
     DEF Main, MainCreateAudio, MainSpawn, MainStart, MainCheck, MainBlock,
         MainStop, MainNotifyAudio, MainJoinRead, MainNotifyInference,
         MainJoinWorker, MainDestroyAudio, MainDestroyKeys, MainReturn,
         MainOnly, ThreadsKept, Notified, bufferVars
<1>6. CASE PressA \/ PressEscape \/ KeysNotify
  BY <1>6 DEF PressA, PressEscape, KeysNotify, KeysOnly, consumerVars,
              bufferVars, workerVars
<1>7. CASE SpuriousWakeup
  BY <1>7 DEF SpuriousWakeup, bufferVars
<1>8. CASE UNCHANGED vars
  BY <1>8 DEF vars, consumerVars, bufferVars, workerVars
<1>9. QED
  BY <1>1, <1>2, <1>3, <1>4, <1>5, <1>6, <1>7, <1>8 DEF Next

(* The worker never transcribes an empty slice.                            *)
THEOREM NothingIsNeverTranscribed == Spec => []NeverTranscribesNothing
<1>1. SliceInv => NeverTranscribesNothing
  BY DEF SliceInv, NeverTranscribesNothing
<1>2. QED
  BY RingInvInit, RingInvNext, SliceInvInit, SliceInvNext, <1>1, TypeCorrect,
     PTL DEF Spec

-----------------------------------------------------------------------------
(***************************************************************************)
(* The end of the program.  Main destroys the ring and the backend in two  *)
(* situations: both threads have been joined, or the device never started  *)
(* and no frame ever reached them.                                         *)
(***************************************************************************)
Unstarted == {"audioInit", "spawn", "start"}
Ending    == {"destroyAudio", "destroyKeys", "return", "finished", "aborted"}
AtRest    == {"unborn", "joined"}

DeviceInv ==
  /\ main \in {"audioInit", "spawn"} => reader = "unborn" /\ worker = "unborn"
  /\ main \in Unstarted => written = 0
  /\ main \notin {"check", "asleep", "blocked", "stop"} => ~deviceOn
  /\ ~deviceOn => device = "idle"

JoinInv ==
  /\ main \in {"notifyInference", "joinWorker"} => reader = "joined"
  /\ main \in Ending => \/ reader \in AtRest /\ worker \in AtRest
                        \/ written = 0

(* Without a committed frame nothing ever reaches the buffers.             *)
SilenceInv ==
  written = 0 => /\ inferSliceBuf = <<>> /\ inferenceBuf = <<>>
                 /\ ~inferenceBufReady /\ worker # "transcribe"

TeardownInv == DeviceInv /\ JoinInv /\ SilenceInv

LEMMA TeardownInvInit == Init => TeardownInv
BY DEF Init, TeardownInv, DeviceInv, JoinInv, SilenceInv, Unstarted, Ending,
       AtRest

(* Without a committed frame the read thread never gets past its snapshot. *)
LEMMA NoFrameNoRead ==
  ASSUME RingInv, written = 0
  PROVE  ~ReadingRing /\ reader \notin {"acquire", "count"}
BY DEF RingInv, TypeOK, CountersOK, ReadThreadInv, ReadingRing

LEMMA TeardownInvNext ==
  ASSUME RingInv, SliceInv, TeardownInv, [Next]_vars
  PROVE  TeardownInv'
<1> USE DEF TeardownInv
<1>1. ASSUME NEW n \in 1..MaxBurst, DeliverFrames(n)
      PROVE  TeardownInv'
  BY <1>1
     DEF DeviceInv, JoinInv, SilenceInv, DeliverFrames, ProducerOnly,
         consumerVars, bufferVars, workerVars, mainVars
<1>2. CASE Producer
  <2>1. deviceOn /\ UNCHANGED <<bufferVars, worker, main, deviceOn>>
    BY <1>2
       DEF DeviceInv, Producer, ProducerDrop, ProducerAcquire, ProducerCommit,
           ProducerPublish, ProducerNotify, ProducerCount, ProducerOnly,
           workerVars, mainVars
  <2>2. main \in {"check", "asleep", "blocked", "stop"}
    BY <2>1 DEF DeviceInv
  <2>3. written' = 0 => written = 0
    BY <1>2
       DEF RingInv, TypeOK, CountersOK, CallbackInv, Producer, ProducerDrop,
           ProducerAcquire, ProducerCommit, ProducerPublish, ProducerNotify,
           ProducerCount
  <2>4. QED
    BY <2>1, <2>2, <2>3
       DEF DeviceInv, JoinInv, SilenceInv, Unstarted, Ending, bufferVars
<1>3. CASE Consumer
  <2>1. UNCHANGED <<written, device, main, deviceOn>>
    BY <1>3
       DEF Consumer, ConsumerLoop, ConsumerCheck, ConsumerBlock,
           ConsumerSnapshot, ConsumerAcquire, ConsumerRecord, ConsumerIdle,
           ConsumerOverflow, ConsumerRelease, ConsumerCommit, ConsumerCount,
           ConsumerOnly, producerVars, mainVars
  <2>2. reader \notin AtRest /\ worker' \in {worker, Notified(worker)}
    BY <1>3
       DEF AtRest, Consumer, ConsumerLoop, ConsumerCheck, ConsumerBlock,
           ConsumerSnapshot, ConsumerAcquire, ConsumerRecord, ConsumerIdle,
           ConsumerOverflow, ConsumerRelease, ConsumerCommit, ConsumerCount,
           BuffersKept, HandOver, workerVars
  <2>3. DeviceInv'
    BY <2>1, <2>2 DEF DeviceInv, AtRest
  <2>4. JoinInv'
    BY <2>1, <2>2 DEF JoinInv, AtRest
  <2>5. SilenceInv'
    <3>1. CASE written = 0
      <4>1. UNCHANGED <<bufferVars, workerVars>>
        BY <1>3, <3>1, NoFrameNoRead
           DEF ReadingRing, Consumer, ConsumerLoop, ConsumerCheck,
               ConsumerBlock, ConsumerSnapshot, ConsumerAcquire,
               ConsumerRecord, ConsumerIdle, ConsumerOverflow,
               ConsumerRelease, ConsumerCommit, ConsumerCount, BuffersKept
      <4>2. QED
        BY <2>1, <4>1 DEF SilenceInv, bufferVars, workerVars
    <3>2. QED
      BY <2>1, <3>1 DEF SilenceInv
  <2>6. QED
    BY <2>3, <2>4, <2>5
<1>4. CASE Worker
  BY <1>4
     DEF DeviceInv, JoinInv, SilenceInv, SliceInv, AtRest, Worker, WorkerLoop,
         WorkerCheck, WorkerBlock, WorkerBegin, WorkerFree, WorkerReport,
         WorkerOnly, producerVars, consumerVars, bufferVars, mainVars
<1>5. CASE Main
  <2>1. UNCHANGED <<written, device, bufferVars>>
    BY <1>5
       DEF Main, MainCreateAudio, MainSpawn, MainStart, MainCheck, MainBlock,
           MainStop, MainNotifyAudio, MainJoinRead, MainNotifyInference,
           MainJoinWorker, MainDestroyAudio, MainDestroyKeys, MainReturn,
           MainOnly, producerVars
  <2>2. DeviceInv'
    BY <1>5, <2>1
       DEF DeviceInv, Unstarted, Main, MainCreateAudio, MainSpawn, MainStart,
           MainCheck, MainBlock, MainStop, MainNotifyAudio, MainJoinRead,
           MainNotifyInference, MainJoinWorker, MainDestroyAudio,
           MainDestroyKeys, MainReturn, ThreadsKept
  <2>3. JoinInv'
    BY <1>5, <2>1
       DEF DeviceInv, JoinInv, Unstarted, Ending, AtRest, Main,
           MainCreateAudio, MainSpawn, MainStart, MainCheck, MainBlock,
           MainStop, MainNotifyAudio, MainJoinRead, MainNotifyInference,
           MainJoinWorker, MainDestroyAudio, MainDestroyKeys, MainReturn,
           ThreadsKept
  <2>4. SilenceInv'
    BY <1>5, <2>1
       DEF SilenceInv, Notified, Main, MainCreateAudio, MainSpawn, MainStart,
           MainCheck, MainBlock, MainStop, MainNotifyAudio, MainJoinRead,
           MainNotifyInference, MainJoinWorker, MainDestroyAudio,
           MainDestroyKeys, MainReturn, ThreadsKept, bufferVars
  <2>5. QED
    BY <2>2, <2>3, <2>4
<1>6. CASE PressA \/ PressEscape \/ KeysNotify
  BY <1>6
     DEF DeviceInv, JoinInv, SilenceInv, Unstarted, Ending, Notified, PressA,
         PressEscape, KeysNotify, KeysOnly, producerVars, consumerVars,
         bufferVars, workerVars, mainVars
<1>7. CASE SpuriousWakeup
  BY <1>7
     DEF DeviceInv, JoinInv, SilenceInv, Unstarted, Ending, AtRest,
         SpuriousWakeup, producerVars, bufferVars
<1>8. CASE UNCHANGED vars
  BY <1>8
     DEF DeviceInv, JoinInv, SilenceInv, vars, producerVars, consumerVars,
         bufferVars, workerVars, mainVars
<1>9. QED
  BY <1>1, <1>2, <1>3, <1>4, <1>5, <1>6, <1>7, <1>8 DEF Next

(* The ring is destroyed when nobody is at it, and the program never ends  *)
(* under a transcription.                                                  *)
THEOREM TeardownIsSafe == Spec => []TeardownSafe
<1>1. RingInv /\ TeardownInv => TeardownSafe
  BY NoFrameNoRead
     DEF TeardownInv, DeviceInv, JoinInv, SilenceInv, Ending, AtRest,
         TeardownSafe, ReadingRing
<1>2. RingInv => TypeOK
  BY DEF RingInv
<1>3. QED
  BY RingInvInit, RingInvNext, SliceInvInit, SliceInvNext, TeardownInvInit,
     TeardownInvNext, <1>1, <1>2, PTL DEF Spec

-----------------------------------------------------------------------------
(***************************************************************************)
(* The bounded channel: four steps of the pipeline offer, accept, refuse   *)
(* and deliver frames, all the others stutter.                             *)
(***************************************************************************)
LEMMA ChannelInit == Init => Channel!Init
BY DEF Init, Channel!Init

LEMMA ChannelNext ==
  ASSUME RingInv, [Next]_vars
  PROVE  [Channel!Next]_(Channel!vars)
<1> USE DEF RingInv, TypeOK, CountersOK
<1>1. ASSUME NEW n \in 1..MaxBurst, DeliverFrames(n)
      PROVE  Channel!Offer
  BY <1>1, PipelineAssumption
     DEF CallbackInv, Publishing, DeliverFrames, consumerVars, Channel!Offer
<1>2. CASE ProducerDrop
  <2>1. written = read + RingSize
    BY <1>2, WriteGrant DEF CallbackInv, ProducerDrop
  <2>2. QED
    BY <1>2, <2>1
       DEF CallbackInv, Publishing, ProducerDrop, consumerVars, Channel!Refuse,
           Channel!Next
<1>3. CASE ProducerCommit
  <2>1. Channel!Accept
    BY <1>3, PipelineAssumption
       DEF CallbackInv, Publishing, ProducerCommit, consumerVars,
           Channel!Accept
  <2>2. QED
    BY <2>1 DEF Channel!Next
<1>4. CASE ConsumerCommit
  <2>1. Channel!Deliver
    BY <1>4
       DEF ReadThreadInv, ReadingRing, ConsumerCommit, ConsumerOnly,
           producerVars, Channel!Deliver
  <2>2. QED
    BY <2>1 DEF Channel!Next
<1>5. CASE \/ ProducerAcquire \/ ProducerPublish \/ ProducerNotify
           \/ ProducerCount
  BY <1>5 DEF ProducerAcquire, ProducerPublish, ProducerNotify, ProducerCount,
              consumerVars, Channel!vars
<1>6. CASE \/ ConsumerLoop \/ ConsumerCheck \/ ConsumerBlock
           \/ ConsumerSnapshot \/ ConsumerAcquire \/ ConsumerRecord
           \/ ConsumerIdle \/ ConsumerOverflow \/ ConsumerRelease
           \/ ConsumerCount
  BY <1>6 DEF ConsumerLoop, ConsumerCheck, ConsumerBlock, ConsumerSnapshot,
              ConsumerAcquire, ConsumerRecord, ConsumerIdle, ConsumerOverflow,
              ConsumerRelease, ConsumerCount, ConsumerOnly, producerVars,
              Channel!vars
<1>7. CASE Elsewhere
  BY <1>7
     DEF Elsewhere, Worker, WorkerLoop, WorkerCheck, WorkerBlock,
         WorkerBegin, WorkerFree, WorkerReport, WorkerOnly, Main,
         MainCreateAudio, MainSpawn, MainStart, MainCheck, MainBlock,
         MainStop, MainNotifyAudio, MainJoinRead, MainNotifyInference,
         MainJoinWorker, MainDestroyAudio, MainDestroyKeys, MainReturn,
         MainOnly, PressA, PressEscape, KeysNotify, KeysOnly, SpuriousWakeup,
         producerVars, consumerVars, Channel!vars
<1>8. CASE UNCHANGED vars
  BY <1>8 DEF vars, producerVars, consumerVars, Channel!vars
<1>9. QED
  BY <1>1, <1>2, <1>3, <1>4, <1>5, <1>6, <1>7, <1>8
     DEF Next, Producer, Consumer, Elsewhere, Channel!Next

(* The ring between the two threads is a bounded channel: it refuses only  *)
(* when full, and delivers every accepted frame once and in order.         *)
THEOREM RingImplementsChannel == Spec => ImplementsChannel
BY RingInvInit, RingInvNext, ChannelInit, ChannelNext, PTL
   DEF Spec, ImplementsChannel, Channel!Spec

-----------------------------------------------------------------------------
(***************************************************************************)
(* What m_inferSliceBuf and m_inferenceBuf hold: frames in the order of    *)
(* capture, and audio of its own for every utterance.                      *)
(***************************************************************************)
(* The frames behind the last one that may have been appended.             *)
Taken == IF reader \in {"overflow", "release", "commit"}
         THEN read + toRead ELSE read

UpTo(s, n) == \A i \in DOMAIN s : s[i] <= n

-----------------------------------------------------------------------------
(***************************************************************************)
(* Increasing sequences                                                    *)
(***************************************************************************)
LEMMA IncreasingSuffix ==
  ASSUME NEW s \in Seq(Nat), NEW t \in Seq(Nat), NEW n \in Nat,
         Increasing(s \o t), UpTo(s \o t, n)
  PROVE  Increasing(t) /\ UpTo(t, n)
<1>1. /\ s \o t \in Seq(Nat) /\ Len(s) \in Nat /\ Len(t) \in Nat
      /\ DOMAIN (s \o t) = 1..(Len(s) + Len(t))
      /\ DOMAIN t = 1..Len(t)
  BY ConcatProperties, LenProperties
<1>2. ASSUME NEW i \in 1..Len(t)
      PROVE  /\ Len(s) + i \in DOMAIN (s \o t)
             /\ (s \o t)[Len(s) + i] = t[i]
  <2>1. Len(s) + i \in Nat /\ Len(s) + i > Len(s)
        /\ Len(s) + i <= Len(s) + Len(t)
    BY <1>1
  <2>2. (Len(s) + i) - Len(s) = i
    BY <1>1
  <2>3. QED
    BY <1>1, <2>1, <2>2, ConcatProperties
<1>3. UpTo(t, n)
  BY <1>1, <1>2 DEF UpTo
<1>4. ASSUME NEW i \in 1..Len(t), NEW j \in 1..Len(t), i < j
      PROVE  t[i] < t[j]
  <2>1. Len(s) + i < Len(s) + j
    BY <1>1, <1>4
  <2>2. QED
    BY <1>2, <2>1 DEF Increasing
<1>5. QED
  BY <1>1, <1>3, <1>4 DEF Increasing

LEMMA ConcatOfThree ==
  ASSUME NEW s \in Seq(Nat), NEW t \in Seq(Nat), NEW u \in Seq(Nat)
  PROVE  (s \o t) \o u = s \o (t \o u)
BY ConcatAssociative

(* A piece read from frame r on continues what ends with frame r or before.*)
LEMMA IncreasingExtension ==
  ASSUME NEW s \in Seq(Nat), NEW r \in Nat, NEW k \in Nat, NEW t \in Seq(Nat),
         t = [i \in 1..k |-> r + i], Increasing(s), UpTo(s, r)
  PROVE  Increasing(s \o t) /\ UpTo(s \o t, r + k)
<1>1. /\ Len(s) \in Nat /\ DOMAIN s = 1..Len(s) /\ DOMAIN t = 1..k
      /\ Len(t) = k
  BY LenProperties
<1>2. DOMAIN (s \o t) = 1..(Len(s) + k)
  BY <1>1, ConcatProperties, LenProperties
<1>3. ASSUME NEW i \in 1..(Len(s) + k)
      PROVE  (s \o t)[i] = IF i <= Len(s) THEN s[i] ELSE r + (i - Len(s))
  <2>1. CASE i <= Len(s)
    BY <1>1, <2>1, ConcatProperties
  <2>2. CASE i > Len(s)
    <3>1. i - Len(s) \in 1..k
      BY <1>1, <2>2
    <3>2. (s \o t)[i] = t[i - Len(s)]
      BY <1>1, <2>2, ConcatProperties
    <3>3. QED
      BY <1>1, <2>2, <3>1, <3>2
  <2>3. QED
    BY <1>1, <2>1, <2>2
<1>4. ASSUME NEW i \in 1..Len(s)
      PROVE  s[i] \in Nat /\ s[i] <= r
  BY <1>1, ElementOfSeq DEF UpTo
<1>5. UpTo(s \o t, r + k)
  <2>1. ASSUME NEW i \in 1..(Len(s) + k)
        PROVE  (s \o t)[i] <= r + k
    BY <1>1, <1>3, <1>4
  <2>2. QED
    BY <1>2, <2>1 DEF UpTo
<1>6. ASSUME NEW i \in 1..(Len(s) + k), NEW j \in 1..(Len(s) + k), i < j
      PROVE  (s \o t)[i] < (s \o t)[j]
  <2>1. CASE j <= Len(s)
    <3>1. i \in DOMAIN s /\ j \in DOMAIN s /\ i <= Len(s)
      BY <1>1, <1>6, <2>1
    <3>2. s[i] < s[j]
      BY <1>6, <3>1 DEF Increasing
    <3>3. QED
      BY <1>3, <2>1, <3>1, <3>2
  <2>2. CASE i <= Len(s) /\ j > Len(s)
    BY <1>1, <1>3, <1>4, <2>2
  <2>3. CASE i > Len(s)
    BY <1>1, <1>3, <1>6, <2>3
  <2>4. QED
    BY <1>1, <2>1, <2>2, <2>3
<1>7. QED
  BY <1>2, <1>5, <1>6 DEF Increasing

-----------------------------------------------------------------------------
(***************************************************************************)
(* One step of the pipeline as the two buffers see it.  Pending is what    *)
(* the worker has been handed followed by what it has not.                 *)
(***************************************************************************)
Pending == inferSliceBuf \o inferenceBuf

OrderInv == Increasing(Pending) /\ UpTo(Pending, Taken)

(* Every utterance counted, in the worker's hands, or being collected.     *)
One(b) == IF b THEN 1 ELSE 0
Utterances == processed + One(worker = "report")
                + One(inferSliceBuf # <<>>) + One(inferenceBuf # <<>>)
UtteranceInv == Utterances <= Taken

BufferSteps == \/ ConsumerRecord \/ ConsumerOverflow \/ ConsumerRelease
               \/ WorkerFree \/ \E success \in BOOLEAN : WorkerReport(success)

(* No other step touches a buffer, and none moves Taken back.              *)
OtherStep == /\ UNCHANGED <<inferSliceBuf, inferenceBuf, processed>>
             /\ (worker' = "report") = (worker = "report")
             /\ Taken <= Taken'

LEMMA TakenIsNat == TypeOK => Taken \in Nat
BY DEF TypeOK, CountersOK, Taken

LEMMA TakenStaysNat == (TypeOK => Taken \in Nat)'
BY TakenIsNat, PTL

LEMMA OtherSteps ==
  ASSUME RingInv, DeviceInv, [Next]_vars
  PROVE  BufferSteps \/ OtherStep
<1> USE DEF RingInv, TypeOK, CountersOK
<1>1. ASSUME NEW n \in 1..MaxBurst, DeliverFrames(n)
      PROVE  OtherStep
  BY <1>1 DEF OtherStep, Taken, DeliverFrames, ProducerOnly, consumerVars,
              bufferVars, workerVars
<1>2. CASE Producer
  BY <1>2
     DEF OtherStep, Taken, Notified, Producer, ProducerDrop, ProducerAcquire,
         ProducerCommit, ProducerPublish, ProducerNotify, ProducerCount,
         ProducerOnly, consumerVars, bufferVars, workerVars
<1>3. CASE ConsumerCommit
  BY <1>3 DEF OtherStep, Taken, ConsumerCommit, BuffersKept, bufferVars,
              workerVars
<1>4. CASE \/ ConsumerLoop \/ ConsumerCheck \/ ConsumerBlock
           \/ ConsumerSnapshot \/ ConsumerAcquire \/ ConsumerCount
           \/ ConsumerIdle
  BY <1>4 DEF OtherStep, Taken, ConsumerLoop, ConsumerCheck, ConsumerBlock,
              ConsumerSnapshot, ConsumerAcquire, ConsumerCount,
              ConsumerIdle, BuffersKept, bufferVars, workerVars
<1>5. CASE Worker
  BY <1>5
     DEF BufferSteps, OtherStep, Taken, Worker, WorkerLoop, WorkerCheck,
         WorkerBlock, WorkerBegin, WorkerOnly, consumerVars, bufferVars
<1>6. CASE Main \/ SpuriousWakeup \/ PressA \/ PressEscape \/ KeysNotify
  <2>1. UNCHANGED <<bufferVars, processed, read, toRead>>
    BY <1>6
       DEF Main, MainCreateAudio, MainSpawn, MainStart, MainCheck, MainBlock,
           MainStop, MainNotifyAudio, MainJoinRead, MainNotifyInference,
           MainJoinWorker, MainDestroyAudio, MainDestroyKeys, MainReturn,
           MainOnly, PressA, PressEscape, KeysNotify, KeysOnly,
           SpuriousWakeup, consumerVars, workerVars
  <2>2. Taken' = Taken
    BY <1>6, <2>1
       DEF SpawnInv, Taken, Notified, Main, MainCreateAudio, MainSpawn,
           MainStart, MainCheck, MainBlock, MainStop, MainNotifyAudio,
           MainJoinRead, MainNotifyInference, MainJoinWorker,
           MainDestroyAudio, MainDestroyKeys, MainReturn, ThreadsKept, PressA,
           PressEscape, KeysNotify, KeysOnly, SpuriousWakeup, consumerVars
  <2>3. (worker' = "report") = (worker = "report")
    BY <1>6
       DEF DeviceInv, StatesOK, WorkerState, Notified, Main, MainCreateAudio,
           MainSpawn, MainStart, MainCheck, MainBlock, MainStop,
           MainNotifyAudio, MainJoinRead, MainNotifyInference,
           MainJoinWorker, MainDestroyAudio, MainDestroyKeys, MainReturn,
           ThreadsKept, PressA, PressEscape, KeysNotify, KeysOnly,
           SpuriousWakeup, workerVars
  <2>4. QED
    BY <2>1, <2>2, <2>3, TakenIsNat DEF OtherStep, bufferVars
<1>7. CASE UNCHANGED vars
  BY <1>7 DEF vars, OtherStep, Taken, consumerVars, bufferVars, workerVars
<1>8. QED
  BY <1>1, <1>2, <1>3, <1>4, <1>5, <1>6, <1>7 DEF Next, Consumer, BufferSteps

-----------------------------------------------------------------------------
(***************************************************************************)
(* The order of the frames                                                 *)
(***************************************************************************)
LEMMA OrderInvInit == Init => OrderInv
<1> SUFFICES ASSUME Init PROVE OrderInv
  OBVIOUS
<1>1. Pending = <<>> /\ DOMAIN Pending = {}
  BY EmptySeq, ConcatEmptySeq DEF Init, Pending
<1>2. QED
  BY <1>1 DEF OrderInv, Increasing, UpTo

LEMMA UpToMore ==
  ASSUME NEW s \in Seq(Nat), NEW a \in Nat, NEW b \in Nat, a <= b, UpTo(s, a)
  PROVE  UpTo(s, b)
<1>1. ASSUME NEW i \in DOMAIN s
      PROVE  s[i] <= b
  <2>1. s[i] \in Nat
    BY ElementOfSeq, LenProperties
  <2>2. s[i] <= a
    BY DEF UpTo
  <2>3. QED
    BY <2>1, <2>2
<1>2. QED
  BY <1>1 DEF UpTo

(* Frames leave at the front only, when the worker has done with them or   *)
(* the read thread replaces them.                                          *)
LEMMA OrderInvNext ==
  ASSUME RingInv, RingInv', DeviceInv, OrderInv, [Next]_vars
  PROVE  OrderInv'
<1>1. TypeOK /\ Taken \in Nat /\ Taken' \in Nat
  BY TakenIsNat, TakenStaysNat DEF RingInv
<1>2. /\ inferSliceBuf \in Seq(Nat) /\ inferenceBuf \in Seq(Nat)
      /\ Pending \in Seq(Nat) /\ <<>> \in Seq(Nat)
  BY <1>1, ConcatProperties, EmptySeq DEF TypeOK, BuffersOK, Pending
<1>3. CASE UNCHANGED <<inferSliceBuf, inferenceBuf>> /\ Taken <= Taken'
  <2>1. Pending' = Pending
    BY <1>3 DEF Pending
  <2>2. QED
    BY <1>1, <1>2, <1>3, <2>1, UpToMore DEF OrderInv
<1>4. CASE Pending' = inferenceBuf /\ Taken' = Taken
  <2>1. Increasing(inferenceBuf) /\ UpTo(inferenceBuf, Taken)
    BY <1>1, <1>2, IncreasingSuffix DEF OrderInv, Pending
  <2>2. QED
    BY <1>4, <2>1 DEF OrderInv
<1>5. CASE ConsumerRecord
  <2> DEFINE k == Min({toRead, ResampleCap})
  <2>1. /\ k \in Nat /\ k <= toRead /\ Resampled \in Seq(Nat)
        /\ toRead \in Nat /\ read \in Nat
    BY <1>1, ResampledIsSeq, MinOfTwo, PipelineAssumption
       DEF TypeOK, CountersOK
  <2>2. Taken = read /\ Taken' = read + toRead
    BY <1>5 DEF Taken, ConsumerRecord
  <2>3. Pending' = Pending \o Resampled
    <3>1. inferSliceBuf' = inferSliceBuf
          /\ inferenceBuf' = inferenceBuf \o Resampled
      BY <1>5 DEF ConsumerRecord
    <3>2. (inferSliceBuf \o inferenceBuf) \o Resampled
            = inferSliceBuf \o (inferenceBuf \o Resampled)
      BY <1>2, <2>1, ConcatOfThree
    <3>3. QED
      BY <3>1, <3>2 DEF Pending
  <2>4. Increasing(Pending \o Resampled) /\ UpTo(Pending \o Resampled, read + k)
    <3>1. Resampled = [i \in 1..k |-> read + i]
      BY DEF Resampled
    <3>2. Increasing(Pending) /\ UpTo(Pending, read)
      BY <2>2 DEF OrderInv
    <3> HIDE DEF k
    <3>3. QED
      BY <1>2, <2>1, <3>1, <3>2, IncreasingExtension
  <2>5. UpTo(Pending \o Resampled, read + toRead)
    <3>1. /\ Pending \o Resampled \in Seq(Nat)
          /\ read + k \in Nat /\ read + toRead \in Nat
          /\ read + k <= read + toRead
      BY <1>2, <2>1, ConcatProperties
    <3> HIDE DEF k
    <3>2. QED
      BY <2>4, <3>1, UpToMore
  <2>6. QED
    BY <2>2, <2>3, <2>4, <2>5 DEF OrderInv
<1>6. CASE ConsumerOverflow \/ ConsumerRelease
  <2>1. Taken' = Taken
    BY <1>6 DEF Taken, ConsumerOverflow, ConsumerRelease
  <2>2. CASE HandOver
    <3>1. Pending' = inferenceBuf \o <<>>
      BY <2>2 DEF HandOver, Pending
    <3>2. QED
      BY <1>2, <1>4, <2>1, <3>1, ConcatEmptySeq
  <2>3. CASE UNCHANGED <<inferSliceBuf, inferenceBuf>>
    BY <1>1, <1>3, <2>1, <2>3
  <2>4. QED
    BY <1>6, <2>2, <2>3
       DEF ConsumerOverflow, ConsumerRelease, BuffersKept, bufferVars
<1>7. CASE WorkerFree
  <2>1. Pending' = <<>> \o inferenceBuf /\ Taken' = Taken
    BY <1>7 DEF Pending, Taken, WorkerFree, WorkerOnly, consumerVars
  <2>2. QED
    BY <1>2, <1>4, <2>1, ConcatEmptySeq
<1>8. CASE \E success \in BOOLEAN : WorkerReport(success)
  <2>1. UNCHANGED <<inferSliceBuf, inferenceBuf>> /\ Taken' = Taken
    BY <1>8 DEF Taken, WorkerReport, WorkerOnly, consumerVars, bufferVars
  <2>2. QED
    BY <1>1, <1>3, <2>1
<1>9. CASE OtherStep
  BY <1>3, <1>9 DEF OtherStep
<1>10. QED
  BY <1>5, <1>6, <1>7, <1>8, <1>9, OtherSteps DEF BufferSteps

(* The slice and the buffer behind it are in the order of capture, with no *)
(* frame twice, whatever the resampler leaves out.                         *)
THEOREM BuffersInOrder == Spec => []CaptureOrder
<1>1. OrderInv => CaptureOrder
  BY DEF OrderInv, Pending, CaptureOrder
<1>2. RingInv => TypeOK
  BY DEF RingInv
<1>3. TeardownInv => DeviceInv
  BY DEF TeardownInv
<1>4. QED
  BY RingInvInit, RingInvNext, SliceInvInit, SliceInvNext, TeardownInvInit,
     TeardownInvNext, OrderInvInit, OrderInvNext, <1>1, <1>2, <1>3, PTL
     DEF Spec

-----------------------------------------------------------------------------
(***************************************************************************)
(* Every utterance has a frame of its own                                  *)
(***************************************************************************)
LEMMA UtteranceInvInit == Init => UtteranceInv
BY DEF Init, UtteranceInv, Utterances, One, Taken

LEMMA UtteranceInvNext ==
  ASSUME RingInv, RingInv', SliceInv, DeviceInv, UtteranceInv, [Next]_vars
  PROVE  UtteranceInv'
<1>1. Taken \in Nat /\ Taken' \in Nat /\ processed \in Nat
  <2>1. TypeOK /\ TypeOK'
    BY DEF RingInv
  <2>2. processed \in Nat
    BY <2>1 DEF TypeOK, CountersOK
  <2>3. QED
    BY <2>1, <2>2, TakenIsNat, TakenStaysNat
<1>2. CASE ConsumerRecord
  <2>1. /\ Taken = read /\ Taken' = read + toRead
        /\ UNCHANGED <<inferSliceBuf, worker, processed>>
    BY <1>2 DEF Taken, ConsumerRecord, workerVars
  <2>2. toRead \in Nat /\ toRead > 0 /\ read \in Nat
    BY <1>2 DEF RingInv, TypeOK, CountersOK, ReadThreadInv, ReadingRing,
                ConsumerRecord
  <2>3. One((inferenceBuf # <<>>)') <= One(inferenceBuf # <<>>) + 1
    BY DEF One
  <2>4. QED
    BY <1>1, <2>1, <2>2, <2>3 DEF UtteranceInv, Utterances, One
<1>3. CASE ConsumerOverflow \/ ConsumerRelease
  <2>1. /\ Taken' = Taken /\ UNCHANGED processed
        /\ (worker' = "report") = (worker = "report")
        /\ \/ UNCHANGED <<inferSliceBuf, inferenceBuf>>
           \/ inferSliceBuf' = inferenceBuf /\ inferenceBuf' = <<>>
    BY <1>3 DEF Taken, Notified, HandOver, ConsumerOverflow, ConsumerRelease,
                BuffersKept, bufferVars, workerVars
  <2>2. QED
    BY <1>1, <2>1 DEF UtteranceInv, Utterances, One
<1>4. CASE WorkerFree
  <2>1. /\ Taken' = Taken /\ UNCHANGED <<inferenceBuf, processed>>
        /\ worker = "transcribe" /\ worker' = "report"
        /\ inferSliceBuf # <<>> /\ inferSliceBuf' = <<>>
    BY <1>4 DEF SliceInv, Taken, WorkerFree, WorkerOnly, consumerVars
  <2>2. QED
    BY <1>1, <2>1 DEF UtteranceInv, Utterances, One
<1>5. CASE \E success \in BOOLEAN : WorkerReport(success)
  <2>1. /\ Taken' = Taken /\ UNCHANGED <<inferSliceBuf, inferenceBuf>>
        /\ worker = "report" /\ worker' = "loop"
        /\ processed' \in {processed, processed + 1}
    BY <1>5 DEF Taken, WorkerReport, WorkerOnly, consumerVars, bufferVars
  <2>2. QED
    <3>1. CASE processed' = processed
      BY <1>1, <2>1, <3>1 DEF UtteranceInv, Utterances, One
    <3>2. CASE processed' = processed + 1
      BY <1>1, <2>1, <3>2 DEF UtteranceInv, Utterances, One
    <3>3. QED
      BY <2>1, <3>1, <3>2
<1>6. CASE OtherStep
  BY <1>1, <1>6 DEF OtherStep, UtteranceInv, Utterances, One
<1>7. QED
  BY <1>2, <1>3, <1>4, <1>5, <1>6, OtherSteps DEF BufferSteps

(* Never more utterances are counted than frames were taken out of the     *)
(* ring: no audio is transcribed twice.                                    *)
THEOREM UtterancesHaveAudio == Spec => []EachUtteranceHasItsAudio
<1>1. RingInv /\ UtteranceInv => EachUtteranceHasItsAudio
  BY DEF RingInv, TypeOK, CountersOK, UtteranceInv, Utterances, One, Taken,
         EachUtteranceHasItsAudio
<1>2. RingInv => TypeOK
  BY DEF RingInv
<1>3. TeardownInv => DeviceInv
  BY DEF TeardownInv
<1>4. QED
  BY RingInvInit, RingInvNext, SliceInvInit, SliceInvNext, TeardownInvInit,
     TeardownInvNext, UtteranceInvInit, UtteranceInvNext, <1>1, <1>2, <1>3,
     PTL DEF Spec
=============================================================================
