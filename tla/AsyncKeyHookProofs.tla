-------------------------- MODULE AsyncKeyHookProofs --------------------------
(***************************************************************************)
(* The end of destroy() for every keyboard and any number of presses,      *)
(* restarts and bindings: nothing of the hook is left.                     *)
(***************************************************************************)
EXTENDS AsyncKeyHook, SequenceTheorems, TLAPS

(***************************************************************************)
(* Which threads exist is a function of where the client is.               *)
(***************************************************************************)
ThreadInv ==
  /\ client \in {"spawn", "idle"} \/ ~running
  /\ client = "idle" /\ running => producer # "none" /\ consumer # "none"
  /\ client = "idle" /\ ~running => producer = "none" /\ consumer = "none"
  /\ client = "spawn" => running /\ producer # "none" /\ consumer = "none"
  /\ client \in {"notify", "testFd", "closeFd", "resetFd", "joinConsumer"}
        => producer # "none" /\ consumer # "none"
  /\ client = "joinProducer" => producer # "none" /\ consumer = "none"
  /\ client = "drain" => producer = "none" /\ consumer = "none"

(***************************************************************************)
(* m_fd.  It names the one descriptor of this run of the hook or none, an  *)
(* open descriptor is named by it, and each side that tested it works on   *)
(* that descriptor, which is closed once the side is about to reset m_fd.  *)
(***************************************************************************)
FdInv ==
  /\ fd \in {NoFd, creates} /\ open \subseteq {creates}
  /\ fd = NoFd => open = {}
  /\ producer # "none" => creates # NoFd
  /\ producer \in {"none", "find", "failed", "done"} => fd = NoFd
  /\ producer = "closeFd" => ownFd = creates
  /\ producer = "resetFd" => open = {}
  /\ client = "closeFd" => clientFd = creates
  /\ client = "resetFd" => open = {}
  /\ client \in {"closeFd", "resetFd"} =>
       producer \notin {"none", "find", "failed"}

QueueInv == client = "idle" /\ ~running => queue = <<>>

HookInv == TypeOK /\ ThreadInv /\ FdInv /\ QueueInv

LEMMA HookInvInit == Init => HookInv
<1> SUFFICES ASSUME Init PROVE HookInv
  OBVIOUS
<1> USE DEF Init
<1>1. StatesOK
  BY DEF StatesOK, ClientState, ProducerState, ConsumerState
<1>2. CountersOK
  BY HookAssumption DEF CountersOK
<1>3. FdsOK
  BY DEF FdsOK, NoFd
<1>4. KeysOK
  BY EmptySeq DEF KeysOK
<1>5. ThreadInv /\ FdInv /\ QueueInv
  BY DEF ThreadInv, FdInv, QueueInv
<1>6. QED
  BY <1>1, <1>2, <1>3, <1>4, <1>5 DEF HookInv, TypeOK

LEMMA StatesNext ==
  ASSUME HookInv, [Next]_vars
  PROVE  StatesOK'
<1>1. CASE UNCHANGED vars
  BY <1>1 DEF HookInv, TypeOK, StatesOK, vars, lifeVars, producerVars,
              consumerVars
<1>2. CASE Create \/ Destroy \/ Client
  BY <1>2 DEF HookInv, TypeOK, StatesOK, ClientState, ProducerState,
              ConsumerState, Notified, Create, Destroy, Client,
              CreateConsumer, DestroyNotify, DestroyTestFd, DestroyCloseFd,
              DestroyResetFd, DestroyJoinConsumer, DestroyJoinProducer,
              DestroyDrain, lifeVars, producerVars, consumerVars
<1>3. ASSUME NEW k \in Keys \union {Any}, BindKey(k) \/ UnbindKey(k)
      PROVE  StatesOK'
  BY <1>3 DEF HookInv, TypeOK, StatesOK, BindKey, UnbindKey, lifeVars,
              producerVars, consumerVars
<1>4. CASE Producer \/ ReadKey \/ ReadOther \/ ReadUnplugged
  BY <1>4 DEF HookInv, TypeOK, StatesOK, ProducerState, ConsumerState,
              Notified, Producer, ProducerOpen, ProducerFailed, ProducerLoop,
              ProducerCall, ProducerPush, ProducerNotify,
              ProducerTestFd, ProducerCloseFd, ProducerResetFd, ReadKey,
              ReadOther, ReadUnplugged, ProducerOnly, lifeVars
<1>5. CASE Consumer \/ SpuriousWakeup
  BY <1>5 DEF HookInv, TypeOK, StatesOK, ConsumerState, Consumer,
              ConsumerLoop, ConsumerCheck, ConsumerBlock, ConsumerDispatch,
              ConsumerCall, SpuriousWakeup, ConsumerOnly, lifeVars,
              producerVars
<1>6. QED
  BY <1>1, <1>2, <1>3, <1>4, <1>5 DEF Next

LEMMA CountersNext ==
  ASSUME HookInv, [Next]_vars
  PROVE  CountersOK'
<1> USE HookAssumption DEF HookInv, TypeOK, CountersOK
<1>1. CASE UNCHANGED vars
  BY <1>1 DEF vars, lifeVars, producerVars, consumerVars, bindVars
<1>2. CASE Create \/ Destroy \/ Client
  BY <1>2 DEF Create, Destroy, Client, CreateConsumer, DestroyNotify,
              DestroyTestFd, DestroyCloseFd, DestroyResetFd,
              DestroyJoinConsumer, DestroyJoinProducer, DestroyDrain,
              producerVars, consumerVars, bindVars
<1>3. ASSUME NEW k \in Keys \union {Any}, BindKey(k) \/ UnbindKey(k)
      PROVE  CountersOK'
  BY <1>3 DEF BindKey, UnbindKey, lifeVars, producerVars, consumerVars
<1>4. CASE Producer \/ ReadKey \/ ReadOther \/ ReadUnplugged
  BY <1>4 DEF Producer, ProducerOpen, ProducerFailed, ProducerLoop,
              ProducerCall, ProducerPush, ProducerNotify,
              ProducerTestFd, ProducerCloseFd, ProducerResetFd, ReadKey,
              ReadOther, ReadUnplugged, ProducerOnly, lifeVars, bindVars
<1>5. CASE Consumer \/ SpuriousWakeup
  BY <1>5 DEF Consumer, ConsumerLoop, ConsumerCheck, ConsumerBlock,
              ConsumerDispatch, ConsumerCall, SpuriousWakeup, ConsumerOnly,
              lifeVars, producerVars, bindVars
<1>6. QED
  BY <1>1, <1>2, <1>3, <1>4, <1>5 DEF Next

LEMMA FdsNext ==
  ASSUME HookInv, [Next]_vars
  PROVE  FdsOK'
<1> USE DEF HookInv, TypeOK, FdsOK
<1>1. CASE UNCHANGED vars
  BY <1>1 DEF vars, lifeVars, producerVars
<1>2. CASE Create \/ Destroy \/ Client
  BY <1>2 DEF Create, Destroy, Client, CreateConsumer, DestroyNotify,
              DestroyTestFd, DestroyCloseFd, DestroyResetFd,
              DestroyJoinConsumer, DestroyJoinProducer, DestroyDrain,
              producerVars
<1>3. ASSUME NEW k \in Keys \union {Any}, BindKey(k) \/ UnbindKey(k)
      PROVE  FdsOK'
  BY <1>3 DEF BindKey, UnbindKey, lifeVars, producerVars
<1>4. CASE Producer \/ ReadKey \/ ReadOther \/ ReadUnplugged
  <2>1. producer # "none" => creates \in Fds
    BY HookAssumption DEF FdInv, CountersOK, Fds, NoFd
  <2>2. QED
    BY <1>4, <2>1
       DEF Producer, ProducerOpen, ProducerFailed, ProducerLoop,
           ProducerCall, ProducerPush, ProducerNotify,
           ProducerTestFd, ProducerCloseFd, ProducerResetFd, ReadKey,
           ReadOther, ReadUnplugged, ProducerOnly, lifeVars
<1>5. CASE Consumer \/ SpuriousWakeup
  BY <1>5 DEF Consumer, ConsumerLoop, ConsumerCheck, ConsumerBlock,
              ConsumerDispatch, ConsumerCall, SpuriousWakeup, ConsumerOnly,
              lifeVars, producerVars
<1>6. QED
  BY <1>1, <1>2, <1>3, <1>4, <1>5 DEF Next

LEMMA KeysNext ==
  ASSUME HookInv, [Next]_vars
  PROVE  KeysOK'
<1> USE DEF HookInv, TypeOK, KeysOK
<1>1. CASE UNCHANGED vars
  BY <1>1 DEF vars, consumerVars, bindVars
<1>2. CASE Create \/ Destroy \/ Client
  BY <1>2, EmptySeq
     DEF Notified, Create, Destroy, Client, CreateConsumer, DestroyNotify,
         DestroyTestFd, DestroyCloseFd, DestroyResetFd, DestroyJoinConsumer,
         DestroyJoinProducer, DestroyDrain, consumerVars, bindVars
<1>3. ASSUME NEW k \in Keys \union {Any}, BindKey(k) \/ UnbindKey(k)
      PROVE  KeysOK'
  BY <1>3 DEF BindKey, UnbindKey, consumerVars
<1>4. CASE Producer \/ ReadKey \/ ReadOther \/ ReadUnplugged
  <2>1. /\ UNCHANGED <<key, calls, bindings>>
        /\ consumer' = "call" => consumer = "call"
    BY <1>4 DEF Notified, Producer, ProducerOpen, ProducerFailed,
                ProducerLoop, ProducerCall, ProducerPush, ProducerNotify,
                ProducerTestFd, ProducerCloseFd, ProducerResetFd, ReadKey,
                ReadOther, ReadUnplugged, ProducerOnly, bindVars
  <2>2. queue' \in Seq(Keys)
    <3>1. CASE ProducerPush
      BY <3>1 DEF ProducerPush
    <3>2. CASE ~ProducerPush
      BY <1>4, <3>2
         DEF Producer, ProducerOpen, ProducerFailed, ProducerLoop,
             ProducerCall, ProducerNotify, ProducerTestFd, ProducerCloseFd,
             ProducerResetFd, ReadKey, ReadOther, ReadUnplugged
    <3>3. QED
      BY <3>1, <3>2
  <2>3. QED
    BY <2>1, <2>2
<1>5. CASE ConsumerDispatch
  <2>1. \A k \in Keys \union {Any} : Bound(k) \in Seq(Keys \union {Any})
    <3>1. \A k \in Keys \union {Any} : <<k>> \in Seq(Keys \union {Any})
      OBVIOUS
    <3>2. QED
      BY <3>1, EmptySeq DEF Bound
  <2>2. Bound(key) \o Bound(Any) \in Seq(Keys \union {Any})
    BY <2>1, ConcatProperties
  <2>3. QED
    BY <1>5, <2>2 DEF ConsumerDispatch, ConsumerOnly, bindVars
<1>6. CASE ConsumerCall
  <2>1. Tail(calls) \in Seq(Keys \union {Any})
    BY <1>6 DEF ConsumerCall
  <2>2. QED
    BY <1>6, <2>1 DEF ConsumerCall, ConsumerOnly, bindVars
<1>7. CASE ConsumerCheck
  <2>1. queue # <<>> => Head(queue) \in Keys /\ Tail(queue) \in Seq(Keys)
    OBVIOUS
  <2>2. QED
    BY <1>7, <2>1 DEF ConsumerCheck, ConsumerOnly, bindVars
<1>8. CASE ConsumerLoop \/ ConsumerBlock \/ SpuriousWakeup
  BY <1>8 DEF ConsumerLoop, ConsumerBlock, SpuriousWakeup, ConsumerOnly,
              bindVars
<1>9. QED
  BY <1>1, <1>2, <1>3, <1>4, <1>5, <1>6, <1>7, <1>8 DEF Next, Consumer

LEMMA ThreadNext ==
  ASSUME HookInv, [Next]_vars
  PROVE  ThreadInv' /\ QueueInv'
<1> USE DEF HookInv, ThreadInv, QueueInv
<1>1. CASE UNCHANGED vars
  BY <1>1 DEF vars, lifeVars, producerVars, consumerVars
<1>2. CASE Create \/ Destroy \/ Client
  BY <1>2 DEF TypeOK, StatesOK, ClientState, Notified, Create, Destroy,
              Client, CreateConsumer, DestroyNotify, DestroyTestFd,
              DestroyCloseFd, DestroyResetFd, DestroyJoinConsumer,
              DestroyJoinProducer, DestroyDrain, producerVars, consumerVars
<1>3. ASSUME NEW k \in Keys \union {Any}, BindKey(k) \/ UnbindKey(k)
      PROVE  ThreadInv' /\ QueueInv'
  BY <1>3 DEF BindKey, UnbindKey, lifeVars, producerVars, consumerVars
<1>4. CASE Producer \/ ReadKey \/ ReadOther \/ ReadUnplugged
  BY <1>4 DEF Notified, Producer, ProducerOpen, ProducerFailed, ProducerLoop,
              ProducerCall, ProducerPush, ProducerNotify,
              ProducerTestFd, ProducerCloseFd, ProducerResetFd, ReadKey,
              ReadOther, ReadUnplugged, ProducerOnly, lifeVars
<1>5. CASE Consumer \/ SpuriousWakeup
  BY <1>5 DEF Consumer, ConsumerLoop, ConsumerCheck, ConsumerBlock,
              ConsumerDispatch, ConsumerCall, SpuriousWakeup, ConsumerOnly,
              lifeVars, producerVars
<1>6. QED
  BY <1>1, <1>2, <1>3, <1>4, <1>5 DEF Next

LEMMA FdNext ==
  ASSUME HookInv, [Next]_vars
  PROVE  FdInv'
<1> USE DEF HookInv, FdInv
<1>1. CASE UNCHANGED vars
  BY <1>1 DEF vars, lifeVars, producerVars
<1>2. CASE Create
  BY <1>2 DEF ThreadInv, TypeOK, CountersOK, NoFd, Create
<1>3. CASE Destroy \/ Client
  BY <1>3 DEF ThreadInv, Destroy, Client, CreateConsumer, DestroyNotify,
              DestroyTestFd, DestroyCloseFd, DestroyResetFd,
              DestroyJoinConsumer, DestroyJoinProducer, DestroyDrain,
              producerVars
<1>4. ASSUME NEW k \in Keys \union {Any}, BindKey(k) \/ UnbindKey(k)
      PROVE  FdInv'
  BY <1>4 DEF BindKey, UnbindKey, lifeVars, producerVars
<1>5. CASE Producer \/ ReadKey \/ ReadOther \/ ReadUnplugged
  BY <1>5 DEF Producer, ProducerOpen, ProducerFailed, ProducerLoop,
              ProducerCall, ProducerPush, ProducerNotify,
              ProducerTestFd, ProducerCloseFd, ProducerResetFd, ReadKey,
              ReadOther, ReadUnplugged, ProducerOnly, lifeVars
<1>6. CASE Consumer \/ SpuriousWakeup
  BY <1>6 DEF Consumer, ConsumerLoop, ConsumerCheck, ConsumerBlock,
              ConsumerDispatch, ConsumerCall, SpuriousWakeup, ConsumerOnly,
              lifeVars, producerVars
<1>7. QED
  BY <1>1, <1>2, <1>3, <1>4, <1>5, <1>6 DEF Next

LEMMA HookInvNext == HookInv /\ [Next]_vars => HookInv'
BY StatesNext, CountersNext, FdsNext, KeysNext, ThreadNext, FdNext
   DEF HookInv, TypeOK

-----------------------------------------------------------------------------
(* Every variable of the hook keeps its type, and the consumer never calls *)
(* an empty callback.                                                      *)
THEOREM HookTypeCorrect == Spec => []TypeOK
<1>1. HookInv => TypeOK
  BY DEF HookInv
<1>2. QED
  BY HookInvInit, HookInvNext, <1>1, PTL DEF Spec

(* After destroy() no thread, no descriptor and no queued key is left,     *)
(* whatever the race of the two threads for m_fd came to.                  *)
THEOREM NothingIsLeft == Spec => []DestroyReleasesAll
<1>1. HookInv => DestroyReleasesAll
  BY DEF HookInv, ThreadInv, FdInv, QueueInv, DestroyReleasesAll
<1>2. QED
  BY HookInvInit, HookInvNext, <1>1, PTL DEF Spec
=============================================================================
