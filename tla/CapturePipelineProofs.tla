------------------------ MODULE CapturePipelineProofs ------------------------
(***************************************************************************)
(* The safety of CapturePipeline for every ring size, burst, buffer size   *)
(* and number of frames.                                                   *)
(***************************************************************************)
EXTENDS CapturePipeline, SequenceTheorems, TLAPS

(* The index of a frame in the ring is below the size of the ring.         *)
LEMMA SlotInRing ==
  ASSUME NEW k \in Nat
  PROVE  k % RingSize \in 0..(RingSize - 1)
BY PipelineAssumption

(* Min of two and of three naturals is one of them and bounds them all.    *)
LEMMA MinOfTwo ==
  ASSUME NEW a \in Nat, NEW b \in Nat
  PROVE  /\ Min({a, b}) \in Nat
         /\ Min({a, b}) \in {a, b}
         /\ Min({a, b}) <= a /\ Min({a, b}) <= b
<1>1. \E m \in {a, b} : \A y \in {a, b} : m =< y
  OBVIOUS
<1>2. QED
  BY <1>1 DEF Min

LEMMA MinOfThree ==
  ASSUME NEW a \in Nat, NEW b \in Nat, NEW c \in Nat
  PROVE  /\ Min({a, b, c}) \in Nat
         /\ Min({a, b, c}) \in {a, b, c}
         /\ Min({a, b, c}) <= a /\ Min({a, b, c}) <= b /\ Min({a, b, c}) <= c
<1>1. \E m \in {a, b, c} : \A y \in {a, b, c} : m =< y
  <2>1. CASE a <= b /\ a <= c
    BY <2>1
  <2>2. CASE b <= a /\ b <= c
    BY <2>2
  <2>3. CASE c <= a /\ c <= b
    BY <2>3
  <2>4. QED
    BY <2>1, <2>2, <2>3
<1>2. QED
  BY <1>1 DEF Min

-----------------------------------------------------------------------------
(***************************************************************************)
(* The ring.  CallbackInv and ReadThreadInv say what the local variables   *)
(* of each side guarantee at each of its states; the other side only ever  *)
(* moves its own counter, in the direction that keeps them true.           *)
(***************************************************************************)
Publishing == device \in {"publish", "notify", "count"}

CallbackInv ==
  /\ device = "idle" => remaining = 0
  /\ device \in {"idle", "acquire"} => toWrite = 0
  /\ device = "acquire" => remaining > 0
  /\ device \notin {"idle", "acquire"} => 0 < toWrite /\ toWrite <= remaining
  /\ device = "copy" => /\ written + toWrite <= read + RingSize
                        /\ (written % RingSize) + toWrite <= RingSize
  /\ captured = produced + dropped + remaining
  /\ written = produced + IF Publishing THEN toWrite ELSE 0

ReadThreadInv ==
  /\ reader \in {"acquire", "count"} => available <= written - read
  /\ reader = "acquire" => available > 0
  /\ reader = "count" => toRead > 0
  /\ ReadingRing => /\ 0 < toRead /\ toRead <= available
                    /\ available <= written - read
                    /\ (read % RingSize) + toRead <= RingSize
  /\ read = consumed + IF reader = "count" THEN toRead ELSE 0

(* The read thread starts once, from nothing.                              *)
SpawnInv == main \in {"audioInit", "spawn"} => reader = "unborn"

RingInv == /\ TypeOK /\ SpawnInv
           /\ read <= written /\ written <= read + RingSize
           /\ CallbackInv /\ ReadThreadInv

LEMMA RingInvInit == Init => RingInv
<1> SUFFICES ASSUME Init PROVE RingInv
  OBVIOUS
<1>1. TypeOK
  <2>1. CountersOK
    BY DEF Init, CountersOK
  <2>2. StatesOK
    BY DEF Init, StatesOK, DeviceState, ReaderState, WorkerState, MainState
  <2>3. FlagsOK
    BY DEF Init, FlagsOK
  <2>4. BuffersOK
    BY DEF Init, BuffersOK
  <2>5. QED
    BY <2>1, <2>2, <2>3, <2>4 DEF TypeOK
<1>2. CallbackInv
  BY DEF Init, CallbackInv, Publishing
<1>3. ReadThreadInv
  BY DEF Init, ReadThreadInv, ReadingRing
<1>4. QED
  BY <1>1, <1>2, <1>3, PipelineAssumption DEF RingInv, SpawnInv, Init

(* What a grant of the ring is worth, in either direction.                 *)
LEMMA WriteGrant ==
  ASSUME RingInv, NEW n \in Nat
  PROVE  /\ AcquireWrite(n) \in Nat
         /\ AcquireWrite(n) <= n
         /\ written + AcquireWrite(n) <= read + RingSize
         /\ (written % RingSize) + AcquireWrite(n) <= RingSize
         /\ n > 0 /\ AcquireWrite(n) = 0 => written = read + RingSize
<1>1. written % RingSize \in 0..(RingSize - 1)
  BY SlotInRing DEF RingInv, TypeOK, CountersOK
<1>2. RingSize - Occupied \in Nat /\ RingSize - (written % RingSize) \in Nat
  BY <1>1, PipelineAssumption DEF RingInv, TypeOK, CountersOK, Occupied
<1>3. QED
  BY <1>1, <1>2, MinOfThree, PipelineAssumption
     DEF AcquireWrite, Occupied, RingInv, TypeOK, CountersOK

LEMMA ReadGrantNat ==
  ASSUME RingInv, NEW n \in Nat
  PROVE  Occupied \in Nat /\ AcquireRead(n) \in Nat
<1>1. read % RingSize \in 0..(RingSize - 1)
  BY SlotInRing DEF RingInv, TypeOK, CountersOK
<1>2. Occupied \in Nat /\ RingSize - (read % RingSize) \in Nat
  BY <1>1, PipelineAssumption DEF RingInv, TypeOK, CountersOK, Occupied
<1>3. QED
  BY <1>2, MinOfThree DEF AcquireRead

LEMMA ReadGrant ==
  ASSUME RingInv, NEW n \in Nat, n <= written - read, n > 0
  PROVE  /\ AcquireRead(n) \in Nat
         /\ 0 < AcquireRead(n) /\ AcquireRead(n) <= n
         /\ (read % RingSize) + AcquireRead(n) <= RingSize
<1>1. read % RingSize \in 0..(RingSize - 1)
  BY SlotInRing DEF RingInv, TypeOK, CountersOK
<1>2. Occupied \in Nat /\ RingSize - (read % RingSize) \in Nat \ {0}
  BY <1>1, PipelineAssumption DEF RingInv, TypeOK, CountersOK, Occupied
<1>3. QED
  BY <1>1, <1>2, MinOfThree, PipelineAssumption
     DEF AcquireRead, Occupied, RingInv, TypeOK, CountersOK

(* A step that touches no counter of the ring and moves neither side into  *)
(* or out of a state the invariant speaks of.                              *)
QuietReader == ReaderState \ {"acquire", "process", "overflow", "release",
                              "commit", "count"}
RingKept == /\ UNCHANGED <<producerVars, read, consumed, available, toRead>>
            /\ \/ UNCHANGED reader
               \/ reader \in QuietReader /\ reader' \in QuietReader

LEMMA RingKeptInv ==
  ASSUME RingInv, RingKept
  PROVE  /\ read' <= written' /\ written' <= read' + RingSize
         /\ CallbackInv' /\ ReadThreadInv'
<1>1. CallbackInv'
  BY DEF RingInv, RingKept, CallbackInv, Publishing, producerVars
<1>2. ReadThreadInv'
  BY DEF RingInv, RingKept, ReadThreadInv, ReadingRing, QuietReader,
         producerVars
<1>3. QED
  BY <1>1, <1>2 DEF RingInv, RingKept, producerVars

LEMMA DeliverFramesRing ==
  ASSUME RingInv, NEW n \in 1..MaxBurst, DeliverFrames(n)
  PROVE  RingInv'
<1>1. TypeOK'
  BY PipelineAssumption
     DEF RingInv, TypeOK, CountersOK, StatesOK, FlagsOK, BuffersOK, DeviceState,
         DeliverFrames, ProducerOnly, consumerVars, bufferVars, workerVars,
         keyVars, mainVars
<1>2. CallbackInv'
  BY DEF RingInv, TypeOK, CountersOK, CallbackInv, Publishing, DeliverFrames
<1>3. QED
  BY <1>1, <1>2
     DEF RingInv, SpawnInv, ReadThreadInv, ReadingRing, DeliverFrames,
         ProducerOnly, consumerVars, mainVars

LEMMA ProducerRing ==
  ASSUME RingInv, Producer
  PROVE  RingInv'
<1> USE DEF RingInv, ProducerOnly
<1>1. TypeOK'
  <2>1. AcquireWrite(remaining) \in Nat
    BY WriteGrant DEF TypeOK, CountersOK
  <2>2. CountersOK'
    BY <2>1
       DEF TypeOK, CountersOK, CallbackInv, Producer, ProducerDrop,
           ProducerAcquire, ProducerCommit, ProducerPublish, ProducerNotify,
           ProducerCount, consumerVars, workerVars, keyVars
  <2>3. StatesOK'
    BY DEF TypeOK, StatesOK, DeviceState, ReaderState, Notified, Producer,
           ProducerDrop, ProducerAcquire, ProducerCommit, ProducerPublish,
           ProducerNotify, ProducerCount, consumerVars, workerVars, keyVars,
           mainVars
  <2>4. FlagsOK' /\ BuffersOK'
    BY DEF TypeOK, FlagsOK, BuffersOK, Producer, ProducerDrop,
           ProducerAcquire, ProducerCommit, ProducerPublish, ProducerNotify,
           ProducerCount, bufferVars, keyVars, mainVars
  <2>5. QED
    BY <2>2, <2>3, <2>4 DEF TypeOK
<1>2. SpawnInv'
  BY DEF SpawnInv, Notified, Producer, ProducerDrop, ProducerAcquire,
         ProducerCommit, ProducerPublish, ProducerNotify, ProducerCount,
         consumerVars, mainVars
<1>3. CASE ProducerDrop
  <2>1. CallbackInv'
    BY <1>3 DEF TypeOK, CountersOK, CallbackInv, Publishing, ProducerDrop
  <2>2. QED
    BY <1>1, <1>2, <1>3, <2>1
       DEF ReadThreadInv, ReadingRing, ProducerDrop, consumerVars
<1>4. CASE ProducerAcquire
  <2>1. CallbackInv'
    BY <1>4, WriteGrant
       DEF TypeOK, CountersOK, CallbackInv, Publishing, ProducerAcquire,
           consumerVars
  <2>2. QED
    BY <1>1, <1>2, <1>4, <2>1
       DEF ReadThreadInv, ReadingRing, ProducerAcquire, consumerVars
<1>5. CASE ProducerCommit
  <2>1. CallbackInv'
    BY <1>5 DEF TypeOK, CountersOK, CallbackInv, Publishing, ProducerCommit
  <2>2. written' >= written /\ written' <= read + RingSize
    BY <1>5 DEF TypeOK, CountersOK, CallbackInv, ProducerCommit
  <2>3. ReadThreadInv'
    BY <1>5, <2>2
       DEF TypeOK, CountersOK, ReadThreadInv, ReadingRing, ProducerCommit,
           consumerVars
  <2>4. QED
    BY <1>1, <1>2, <1>5, <2>1, <2>2, <2>3
       DEF TypeOK, CountersOK, ProducerCommit, consumerVars
<1>6. CASE ProducerPublish \/ ProducerNotify
  <2>1. CallbackInv'
    BY <1>6 DEF TypeOK, CountersOK, CallbackInv, Publishing, ProducerPublish,
                ProducerNotify, consumerVars
  <2>2. ReadThreadInv'
    BY <1>6 DEF ReadThreadInv, ReadingRing, Notified, ProducerPublish,
                ProducerNotify, consumerVars
  <2>3. QED
    BY <1>1, <1>2, <1>6, <2>1, <2>2
       DEF ProducerPublish, ProducerNotify, consumerVars
<1>7. CASE ProducerCount
  <2>1. CallbackInv'
    BY <1>7 DEF TypeOK, CountersOK, CallbackInv, Publishing, ProducerCount
  <2>2. QED
    BY <1>1, <1>2, <1>7, <2>1
       DEF ReadThreadInv, ReadingRing, ProducerCount, consumerVars
<1>8. QED
  BY <1>3, <1>4, <1>5, <1>6, <1>7 DEF Producer

(* What is appended to m_inferenceBuf is a sequence of capture positions.  *)
LEMMA ResampledIsSeq ==
  ASSUME TypeOK
  PROVE  /\ Min({toRead, ResampleCap}) \in Nat
         /\ Resampled \in Seq(Nat)
<1>1. Min({toRead, ResampleCap}) \in Nat
  BY MinOfTwo, PipelineAssumption DEF TypeOK, CountersOK
<1>2. \A i \in 1..Min({toRead, ResampleCap}) : read + i \in Nat
  BY <1>1 DEF TypeOK, CountersOK
<1>3. Resampled \in [1..Min({toRead, ResampleCap}) -> Nat]
  BY <1>2 DEF Resampled
<1>4. QED
  BY <1>1, <1>3, SeqDef

LEMMA ConsumerRing ==
  ASSUME RingInv, Consumer
  PROVE  RingInv'
<1> USE DEF RingInv, ConsumerOnly, BuffersKept
<1>1. TypeOK'
  <2>1. AcquireRead(available) \in Nat /\ Occupied \in Nat
    BY ReadGrantNat DEF TypeOK, CountersOK
  <2>2. CountersOK'
    <3>1. UNCHANGED <<producerVars, processed, presses>>
      BY DEF Consumer, ConsumerLoop, ConsumerCheck, ConsumerBlock,
             ConsumerSnapshot, ConsumerAcquire, ConsumerRecord, ConsumerIdle,
             ConsumerOverflow, ConsumerRelease, ConsumerCommit, ConsumerCount,
             HandOver, workerVars, keyVars
    <3>2. ConsumerCommit => available - toRead \in Nat
      BY DEF TypeOK, CountersOK, ReadThreadInv, ReadingRing, ConsumerCommit
    <3>3. read' \in Nat /\ consumed' \in Nat /\ toRead' \in Nat
      BY <2>1
         DEF TypeOK, CountersOK, Consumer, ConsumerLoop, ConsumerCheck,
             ConsumerBlock, ConsumerSnapshot, ConsumerAcquire, ConsumerRecord,
             ConsumerIdle, ConsumerOverflow, ConsumerRelease, ConsumerCommit,
             ConsumerCount
    <3>4. available' \in Nat
      BY <2>1, <3>2
         DEF TypeOK, CountersOK, Consumer, ConsumerLoop, ConsumerCheck,
             ConsumerBlock, ConsumerSnapshot, ConsumerAcquire, ConsumerRecord,
             ConsumerIdle, ConsumerOverflow, ConsumerRelease, ConsumerCommit,
             ConsumerCount
    <3>5. QED
      BY <3>1, <3>3, <3>4 DEF TypeOK, CountersOK, producerVars
  <2>3. StatesOK'
    BY DEF TypeOK, StatesOK, ReaderState, WorkerState, Notified, Consumer,
           ConsumerLoop, ConsumerCheck, ConsumerBlock, ConsumerSnapshot,
           ConsumerAcquire, ConsumerRecord, ConsumerIdle, ConsumerOverflow,
           ConsumerRelease, ConsumerCommit, ConsumerCount, HandOver,
           producerVars, workerVars, keyVars, mainVars
  <2>4. FlagsOK'
    BY DEF TypeOK, FlagsOK, Consumer,
           ConsumerLoop, ConsumerCheck, ConsumerBlock, ConsumerSnapshot,
           ConsumerAcquire, ConsumerRecord, ConsumerIdle, ConsumerOverflow,
           ConsumerRelease, ConsumerCommit, ConsumerCount, HandOver,
           bufferVars, keyVars, mainVars
  <2>5. BuffersOK'
    <3>1. <<>> \in Seq(Nat) /\ inferenceBuf \o Resampled \in Seq(Nat)
      BY ResampledIsSeq, EmptySeq, ConcatProperties DEF TypeOK, BuffersOK
    <3>2. inferenceBuf' \in {inferenceBuf, inferenceBuf \o Resampled, <<>>}
      BY DEF Consumer, ConsumerLoop, ConsumerCheck, ConsumerBlock, ConsumerSnapshot,
           ConsumerAcquire, ConsumerRecord, ConsumerIdle, ConsumerOverflow,
           ConsumerRelease, ConsumerCommit, ConsumerCount, HandOver, bufferVars
    <3>3. inferSliceBuf' \in {inferSliceBuf, inferenceBuf}
      BY DEF Consumer, ConsumerLoop, ConsumerCheck, ConsumerBlock, ConsumerSnapshot,
           ConsumerAcquire, ConsumerRecord, ConsumerIdle, ConsumerOverflow,
           ConsumerRelease, ConsumerCommit, ConsumerCount, HandOver, bufferVars
    <3>4. QED
      BY <3>1, <3>2, <3>3 DEF TypeOK, BuffersOK
  <2>6. QED
    BY <2>2, <2>3, <2>4, <2>5 DEF TypeOK
<1>2. SpawnInv'
  BY DEF SpawnInv, Consumer, ConsumerLoop, ConsumerCheck, ConsumerBlock,
         ConsumerSnapshot, ConsumerAcquire, ConsumerRecord, ConsumerIdle,
         ConsumerOverflow, ConsumerRelease, ConsumerCommit, ConsumerCount,
         mainVars
<1>3. CASE ConsumerLoop \/ ConsumerCheck \/ ConsumerBlock
  <2>1. RingKept
    BY <1>3 DEF RingKept, QuietReader, ReaderState, ConsumerLoop,
                ConsumerCheck, ConsumerBlock
  <2>2. QED
    BY <1>1, <1>2, <2>1, RingKeptInv
<1>4. CASE ConsumerSnapshot
  <2>1. ReadThreadInv'
    BY <1>4 DEF TypeOK, CountersOK, ReadThreadInv, ReadingRing, Occupied,
                ConsumerSnapshot, producerVars
  <2>2. QED
    BY <1>1, <1>2, <1>4, <2>1
       DEF CallbackInv, Publishing, ConsumerSnapshot, producerVars
<1>5. CASE ConsumerAcquire
  <2>1. ReadThreadInv'
    BY <1>5, ReadGrant
       DEF TypeOK, CountersOK, ReadThreadInv, ReadingRing, ConsumerAcquire,
           producerVars
  <2>2. QED
    BY <1>1, <1>2, <1>5, <2>1
       DEF CallbackInv, Publishing, ConsumerAcquire, producerVars
<1>6. CASE \/ ConsumerRecord \/ ConsumerIdle
           \/ ConsumerOverflow \/ ConsumerRelease
  <2>1. UNCHANGED <<producerVars, read, consumed, available, toRead>>
    BY <1>6 DEF ConsumerRecord, ConsumerIdle, ConsumerOverflow, ConsumerRelease
  <2>2. ReadingRing /\ ReadingRing'
    BY <1>6 DEF ReadingRing, ConsumerRecord, ConsumerIdle, ConsumerOverflow,
                ConsumerRelease
  <2>3. ReadThreadInv'
    BY <2>1, <2>2 DEF ReadThreadInv, ReadingRing, producerVars
  <2>4. QED
    BY <1>1, <1>2, <2>1, <2>3 DEF CallbackInv, Publishing, producerVars
<1>7. CASE ConsumerCommit
  <2>1. /\ read' = read + toRead /\ read' <= written
        /\ UNCHANGED <<producerVars, toRead, consumed>>
    BY <1>7 DEF TypeOK, CountersOK, ReadThreadInv, ReadingRing, ConsumerCommit
  <2>2. ReadThreadInv'
    BY <1>7, <2>1
       DEF TypeOK, CountersOK, ReadThreadInv, ReadingRing, ConsumerCommit,
           producerVars
  <2>3. CallbackInv'
    <3>1. read <= read' /\ read' \in Nat
      BY <2>1 DEF TypeOK, CountersOK
    <3>2. device = "copy" => written + toWrite <= read' + RingSize
      <4> SUFFICES ASSUME device = "copy"
                   PROVE  written + toWrite <= read' + RingSize
        OBVIOUS
      <4>1. written + toWrite <= read + RingSize
        BY DEF CallbackInv
      <4>2. /\ written + toWrite \in Nat /\ read + RingSize \in Nat
            /\ read \in Nat
        BY PipelineAssumption DEF TypeOK, CountersOK
      <4>3. QED
        BY <3>1, <4>1, <4>2, PipelineAssumption
    <3>3. QED
      BY <2>1, <3>2 DEF TypeOK, CountersOK, CallbackInv, Publishing, producerVars
  <2>4. QED
    BY <1>1, <1>2, <2>1, <2>2, <2>3, PipelineAssumption
       DEF TypeOK, CountersOK, producerVars
<1>8. CASE ConsumerCount
  <2>1. ReadThreadInv'
    BY <1>8 DEF TypeOK, CountersOK, ReadThreadInv, ReadingRing, ConsumerCount,
                producerVars
  <2>2. QED
    BY <1>1, <1>2, <1>8, <2>1
       DEF CallbackInv, Publishing, ConsumerCount, producerVars
<1>9. QED
  BY <1>3, <1>4, <1>5, <1>6, <1>7, <1>8 DEF Consumer

(* The worker, the keys, main and spurious wake-ups leave the ring alone.  *)
Elsewhere == Worker \/ Main \/ PressA \/ PressEscape \/ KeysNotify
               \/ SpuriousWakeup

LEMMA ElsewhereRing ==
  ASSUME RingInv, Elsewhere
  PROVE  RingInv'
<1> USE DEF Elsewhere, Worker, WorkerLoop, WorkerCheck, WorkerBlock,
            WorkerBegin, WorkerFree, WorkerReport, WorkerOnly, Main,
            MainCreateAudio, MainSpawn, MainStart, MainCheck, MainBlock,
            MainStop, MainNotifyAudio, MainJoinRead, MainNotifyInference,
            MainJoinWorker, MainDestroyAudio, MainDestroyKeys, MainReturn,
            MainOnly, ThreadsKept, PressA, PressEscape, KeysNotify, KeysOnly,
            SpuriousWakeup, Notified
<1>1. RingKept
  BY DEF RingInv, SpawnInv, TypeOK, StatesOK, RingKept, QuietReader,
         ReaderState, consumerVars
<1>2. SpawnInv'
  BY DEF RingInv, SpawnInv, TypeOK, StatesOK, MainState, consumerVars, mainVars
<1>3. TypeOK'
  <2>1. CountersOK'
    BY <1>1 DEF RingInv, TypeOK, CountersOK, RingKept, producerVars,
                consumerVars, workerVars, keyVars
  <2>2. StatesOK'
    BY DEF RingInv, TypeOK, StatesOK, ReaderState, WorkerState, MainState,
           producerVars, consumerVars, workerVars, keyVars, mainVars
  <2>3. FlagsOK'
    BY DEF RingInv, TypeOK, FlagsOK, bufferVars, keyVars, mainVars
  <2>4. BuffersOK'
    <3>1. inferenceBuf' = inferenceBuf
      BY DEF bufferVars
    <3>2. inferSliceBuf' \in {inferSliceBuf, <<>>}
      BY DEF bufferVars
    <3>3. QED
      BY <3>1, <3>2, EmptySeq DEF RingInv, TypeOK, BuffersOK
  <2>5. QED
    BY <2>1, <2>2, <2>3, <2>4 DEF TypeOK
<1>4. QED
  BY <1>1, <1>2, <1>3, RingKeptInv DEF RingInv

LEMMA RingInvNext == RingInv /\ [Next]_vars => RingInv'
<1> SUFFICES ASSUME RingInv, [Next]_vars PROVE RingInv'
  OBVIOUS
<1>1. CASE UNCHANGED vars
  BY <1>1
     DEF RingInv, TypeOK, CountersOK, StatesOK, FlagsOK, BuffersOK, SpawnInv,
         CallbackInv, Publishing, ReadThreadInv, ReadingRing, vars,
         producerVars, consumerVars, bufferVars, workerVars, keyVars, mainVars
<1>2. CASE Next
  BY <1>2, DeliverFramesRing, ProducerRing, ConsumerRing, ElsewhereRing
     DEF Next, Elsewhere
<1>3. QED
  BY <1>1, <1>2

-----------------------------------------------------------------------------
(* Every variable keeps its type: in particular none of the unsigned       *)
(* differences of the code (framesRemaining, framesAvailable) ever wraps.  *)
THEOREM TypeCorrect == Spec => []TypeOK
<1>1. RingInv => TypeOK
  BY DEF RingInv
<1>2. QED
  BY RingInvInit, RingInvNext, <1>1, PTL DEF Spec

(* The window the callback fills and the window the read thread reads are  *)
(* disjoint and inside the ring, for every size of ring and of burst.      *)
THEOREM RingWindowsHold == Spec => []RingWindows
<1>1. RingInv => RingWindows
  BY DEF RingInv, TypeOK, CountersOK, CallbackInv, ReadThreadInv, RingWindows
<1>2. QED
  BY RingInvInit, RingInvNext, <1>1, PTL DEF Spec

(* The statistics of the program add up, for every interleaving.           *)
THEOREM FramesAccounted == Spec => []FrameAccounting
<1>1. RingInv => FrameAccounting
  BY DEF RingInv, TypeOK, CountersOK, StatesOK, DeviceState, CallbackInv,
         Publishing, ReadThreadInv, FrameAccounting, Occupied
<1>2. QED
  BY RingInvInit, RingInvNext, <1>1, PTL DEF Spec
=============================================================================
