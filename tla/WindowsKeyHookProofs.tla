------------------------- MODULE WindowsKeyHookProofs -------------------------
(***************************************************************************)
(* The end of destroy() of the Windows hook for any number of keys and     *)
(* restarts: nothing of the hook is left.                                  *)
(***************************************************************************)
EXTENDS WindowsKeyHook, TLAPS

(* Which threads exist is a function of where the client is.               *)
ThreadInv ==
  /\ client \in {"spawn", "idle"} \/ ~running
  /\ client = "idle" /\ running => producer # "none" /\ consumer # "none"
  /\ client = "idle" /\ ~running => producer = "none" /\ consumer = "none"
  /\ client = "spawn" => running /\ producer # "none" /\ consumer = "none"
  /\ client \in {"notify", "joinConsumer"}
        => producer # "none" /\ consumer # "none"
  /\ client \in {"post", "joinProducer"}
        => producer # "none" /\ consumer = "none"
  /\ client = "drain" => producer = "none" /\ consumer = "none"

(* The hook is the producer's while it pumps, and WM_QUIT is sent to a     *)
(* pumping producer only, which takes it before it ends.                   *)
PumpInv ==
  /\ hooked => producer \in {"store", "pump", "push", "notify", "unhook"}
  /\ quit => HasMessageQueue /\ client = "joinProducer"

(* Every push happens before the join of the producer, and the drain after *)
QueueInv == client = "idle" /\ ~running => taken = pressed

HookInv == TypeOK /\ ThreadInv /\ PumpInv /\ QueueInv

LEMMA HookInvInit == Init => HookInv
<1> SUFFICES ASSUME Init PROVE HookInv
  OBVIOUS
<1>1. TypeOK
  <2>1. /\ creates \in 0..MaxCreates /\ presses \in 0..MaxPresses
        /\ id \in 0..creates /\ pressed \in Nat /\ taken \in 0..pressed
    BY WindowsAssumption DEF Init, NoId
  <2>2. QED
    BY <2>1 DEF Init, TypeOK, ClientState, ProducerState, ConsumerState
<1>2. ThreadInv /\ PumpInv /\ QueueInv
  BY DEF Init, ThreadInv, PumpInv, QueueInv
<1>3. QED
  BY <1>1, <1>2 DEF HookInv

LEMMA ClientStep ==
  ASSUME HookInv, Create \/ Destroy \/ Client
  PROVE  HookInv'
<1> USE WindowsAssumption
    DEF HookInv, TypeOK, ThreadInv, PumpInv, QueueInv, ClientState,
        ProducerState, ConsumerState, HasMessageQueue, Notified
<1>1. CASE Create
  <2>1. creates \in Nat /\ MaxCreates \in Nat /\ creates < MaxCreates
    BY <1>1 DEF Create
  <2>2. creates' \in 0..MaxCreates /\ id' \in 0..creates'
    BY <1>1, <2>1 DEF Create
  <2>3. pressed' \in Nat /\ taken' \in 0..pressed'
    BY <1>1 DEF Create
  <2>4. QED
    BY <1>1, <2>2, <2>3 DEF Create
<1>2. CASE CreateConsumer
  BY <1>2 DEF CreateConsumer
<1>3. CASE Destroy
  BY <1>3 DEF Destroy
<1>4. CASE DestroyNotify
  BY <1>4 DEF DestroyNotify
<1>5. CASE DestroyJoinConsumer
  BY <1>5 DEF DestroyJoinConsumer
<1>6. CASE DestroyPostQuit
  <2>1. quit' = (id = creates /\ HasMessageQueue)
    BY <1>6 DEF DestroyPostQuit
  <2>2. quit' \in BOOLEAN /\ (quit' => HasMessageQueue)
    BY <2>1
  <2>3. QED
    BY <1>6, <2>2 DEF DestroyPostQuit
<1>7. CASE DestroyJoinProducer
  BY <1>7 DEF DestroyJoinProducer
<1>8. CASE DestroyDrain
  BY <1>8 DEF DestroyDrain
<1>9. QED
  BY <1>1, <1>2, <1>3, <1>4, <1>5, <1>6, <1>7, <1>8 DEF Client

LEMMA ProducerStep ==
  ASSUME HookInv, Producer \/ KeyDown
  PROVE  HookInv'
<1> USE DEF HookInv, TypeOK, ThreadInv, PumpInv, QueueInv, ClientState,
            ProducerState, ConsumerState, HasMessageQueue, Notified
<1>1. ASSUME NEW done \in BOOLEAN, ProducerInstall(done) PROVE HookInv'
  <2>1. exit' = (exit \/ ~done)
    BY <1>1 DEF ProducerInstall
  <2>2. exit' \in BOOLEAN
    BY <2>1
  <2>3. QED
    BY <1>1, <2>2 DEF ProducerInstall
<1>2. CASE ProducerFailed
  BY <1>2 DEF ProducerFailed
<1>3. CASE ProducerStoreId
  BY <1>3 DEF ProducerStoreId
<1>4. CASE KeyDown
  BY <1>4, WindowsAssumption DEF KeyDown
<1>5. CASE CallbackPush
  BY <1>5 DEF CallbackPush
<1>6. CASE CallbackNotify
  BY <1>6 DEF CallbackNotify
<1>7. CASE ProducerGetQuit
  BY <1>7 DEF ProducerGetQuit
<1>8. CASE ProducerUnhook
  BY <1>8 DEF ProducerUnhook
<1>9. QED
  BY <1>1, <1>2, <1>3, <1>4, <1>5, <1>6, <1>7, <1>8 DEF Producer

LEMMA ConsumerStep ==
  ASSUME HookInv, Consumer \/ SpuriousWakeup
  PROVE  HookInv'
<1> USE DEF HookInv, TypeOK, ThreadInv, PumpInv, QueueInv, ConsumerState,
            HasMessageQueue, ConsumerOnly, Queued
<1>1. CASE ConsumerCheck
  BY <1>1 DEF ConsumerCheck
<1>2. CASE ConsumerLoop \/ ConsumerBlock \/ ConsumerDispatch \/ SpuriousWakeup
  BY <1>2 DEF ConsumerLoop, ConsumerBlock, ConsumerDispatch, SpuriousWakeup
<1>3. QED
  BY <1>1, <1>2 DEF Consumer

LEMMA HookInvNext == HookInv /\ [Next]_vars => HookInv'
<1> SUFFICES ASSUME HookInv, [Next]_vars PROVE HookInv'
  OBVIOUS
<1>1. CASE UNCHANGED vars
  BY <1>1 DEF vars, HookInv, TypeOK, ThreadInv, PumpInv, QueueInv,
              HasMessageQueue
<1>2. QED
  BY <1>1, ClientStep, ProducerStep, ConsumerStep DEF Next

-----------------------------------------------------------------------------
(* Every variable keeps its type, and no key is taken off an empty queue.  *)
THEOREM WindowsTypeCorrect == Spec => []TypeOK
<1>1. HookInv => TypeOK
  BY DEF HookInv
<1>2. QED
  BY HookInvInit, HookInvNext, <1>1, PTL DEF Spec

(* When destroy() has returned, no thread, no installed hook, no queued    *)
(* key and no unread WM_QUIT is left.                                      *)
THEOREM NothingIsLeftOnWindows == Spec => []DestroyReleasesAll
<1>1. HookInv => DestroyReleasesAll
  <2> SUFFICES ASSUME HookInv, client = "idle", ~running
               PROVE  /\ producer = "none" /\ consumer = "none"
                      /\ ~hooked /\ ~quit /\ Queued = 0
    BY DEF DestroyReleasesAll
  <2>1. producer = "none" /\ consumer = "none" /\ ~hooked /\ ~quit
    BY DEF HookInv, ThreadInv, PumpInv
  <2>2. Queued = 0
    BY DEF HookInv, TypeOK, QueueInv, Queued
  <2>3. QED
    BY <2>1, <2>2
<1>2. QED
  BY HookInvInit, HookInvNext, <1>1, PTL DEF Spec
=============================================================================
