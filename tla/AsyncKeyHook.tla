----------------------------- MODULE AsyncKeyHook -----------------------------
(***************************************************************************)
(* The keyboard hook of sttserv/source/async_key.cpp, Linux build: a       *)
(* producer thread reads the keyboard device and queues the keys, a        *)
(* consumer thread takes them off the queue and calls what is bound to     *)
(* them, and one client thread creates and destroys the hook and changes   *)
(* the bindings.                                                           *)
(*                                                                         *)
(* A wait on m_cv is the states "check", "asleep" (the predicate was       *)
(* false, m_queueMtx is still held) and "blocked" of the consumer; a       *)
(* notification reaches it in "blocked" only.  m_fd is a plain int that    *)
(* two threads test, close and reset without a lock: every one of these    *)
(* is a step of its own.                                                   *)
(***************************************************************************)
EXTENDS Naturals, Sequences

CONSTANTS
  Keys,            (* the keys of the keyboard, KeyCode::Any not among them  *)
  Any,             (* KeyCode::Any                                           *)
  MaxPresses,      (* bound: keys pressed in all                             *)
  MaxCreates,      (* bound: create() that start the hook                    *)
  MaxBinds         (* bound: bindKey and unbindKey calls                     *)

ASSUME HookAssumption ==
  /\ Any \notin Keys
  /\ MaxPresses \in Nat /\ MaxCreates \in Nat /\ MaxBinds \in Nat

VARIABLES
  running, exit,     (* m_running, m_exit                                    *)
  client,            (* where the client is inside create() or destroy()     *)
  producer, consumer,(* where the two threads are, "none" without a thread   *)
  fd,                (* m_fd                                                 *)
  clientFd, ownFd,   (* the value of m_fd the client, the producer works on  *)
  open,              (* the descriptors that are open                        *)
  queue,             (* m_keyQueue                                           *)
  key, calls,        (* the key the consumer took; callbacks still to call   *)
  bindings,          (* the keys of m_bindings                               *)
  pressed, taken,    (* keys queued, keys taken off since the last create()  *)
  creates, presses, binds   (* how much of the bounds is used                *)

lifeVars     == <<running, client, clientFd, creates>>
producerVars == <<producer, ownFd, presses, pressed>>
consumerVars == <<consumer, key, calls, taken>>
bindVars     == <<bindings, binds>>
vars == <<lifeVars, exit, producerVars, consumerVars, fd, open, queue,
          bindVars>>

NoFd == 0     (* -1 in the code *)
Fds  == 1..MaxCreates

ClientState   == {"idle", "spawn", "notify", "testFd", "closeFd", "resetFd",
                  "joinConsumer", "joinProducer", "drain"}
ProducerState == {"none", "find", "failed", "loop", "call", "reading", "push",
                  "notify", "testFd", "closeFd", "resetFd", "done"}
ConsumerState == {"none", "loop", "check", "asleep", "blocked", "dispatch",
                  "call", "done"}

Init ==
  /\ running = FALSE /\ exit = FALSE
  /\ client = "idle" /\ producer = "none" /\ consumer = "none"
  /\ fd = NoFd /\ clientFd = NoFd /\ ownFd = NoFd /\ open = {}
  /\ queue = <<>> /\ key = Any /\ calls = <<>>
  /\ bindings = {}
  /\ pressed = 0 /\ taken = 0
  /\ creates = 0 /\ presses = 0 /\ binds = 0

QueueLockFree == consumer # "asleep"
Notified(pc)  == IF pc = "blocked" THEN "check" ELSE pc

(***************************************************************************)
(* create() and destroy().  Each returns at once when m_running already    *)
(* has the value it wants, which changes nothing.                          *)
(***************************************************************************)
Create ==
  /\ client = "idle" /\ ~running /\ creates < MaxCreates
  /\ running' = TRUE
  /\ exit' = FALSE
  /\ producer' = "find"
  /\ client' = "spawn"
  /\ creates' = creates + 1
  /\ pressed' = 0 /\ taken' = 0
  /\ UNCHANGED <<clientFd, ownFd, presses, consumer, key, calls, fd, open,
                 queue, bindVars>>

CreateConsumer ==
  /\ client = "spawn"
  /\ consumer' = "loop"
  /\ client' = "idle"
  /\ UNCHANGED <<running, clientFd, creates, exit, producerVars, key, calls,
                 taken, fd, open, queue, bindVars>>

Destroy ==
  /\ client = "idle" /\ running
  /\ running' = FALSE
  /\ exit' = TRUE
  /\ client' = "notify"
  /\ UNCHANGED <<clientFd, creates, producerVars, consumerVars, fd, open,
                 queue, bindVars>>

(* m_cv.notify_all without m_queueMtx.                                     *)
DestroyNotify ==
  /\ client = "notify"
  /\ consumer' = Notified(consumer)
  /\ client' = "testFd"
  /\ UNCHANGED <<running, clientFd, creates, exit, producerVars, key, calls,
                 taken, fd, open, queue, bindVars>>

(* Mutation: the descriptor is left to the producer.                       *)
DestroyKeepsFd ==
  /\ client = "testFd"
  /\ client' = "joinConsumer"
  /\ UNCHANGED <<running, clientFd, creates, exit, producerVars, consumerVars,
                 fd, open, queue, bindVars>>

DestroyTestFd ==
  /\ client = "testFd"
  /\ clientFd' = fd
  /\ client' = IF fd # NoFd THEN "closeFd" ELSE "joinConsumer"
  /\ UNCHANGED <<running, creates, exit, producerVars, consumerVars, fd, open,
                 queue, bindVars>>

(* The compiler may use the tested value or load m_fd again; closing what  *)
(* is not open changes nothing.                                            *)
DestroyCloseFd ==
  /\ client = "closeFd"
  /\ \E f \in {clientFd, fd} : open' = open \ {f}
  /\ client' = "resetFd"
  /\ UNCHANGED <<running, clientFd, creates, exit, producerVars, consumerVars,
                 fd, queue, bindVars>>

DestroyResetFd ==
  /\ client = "resetFd"
  /\ fd' = NoFd
  /\ client' = "joinConsumer"
  /\ UNCHANGED <<running, clientFd, creates, exit, producerVars, consumerVars,
                 open, queue, bindVars>>

DestroyJoinConsumer ==
  /\ client = "joinConsumer" /\ consumer = "done"
  /\ consumer' = "none"
  /\ client' = "joinProducer"
  /\ UNCHANGED <<running, clientFd, creates, exit, producerVars, key, calls,
                 taken, fd, open, queue, bindVars>>

DestroyJoinProducer ==
  /\ client = "joinProducer" /\ producer = "done"
  /\ producer' = "none"
  /\ client' = "drain"
  /\ UNCHANGED <<running, clientFd, creates, exit, ownFd, presses, pressed,
                 consumerVars, fd, open, queue, bindVars>>

DestroyDrain ==
  /\ client = "drain"
  /\ queue' = <<>>
  /\ client' = "idle"
  /\ UNCHANGED <<running, clientFd, creates, exit, producerVars, consumerVars,
                 fd, open, bindVars>>

Client == \/ CreateConsumer \/ DestroyNotify \/ DestroyTestFd
          \/ DestroyCloseFd \/ DestroyResetFd \/ DestroyJoinConsumer
          \/ DestroyJoinProducer \/ DestroyDrain

(***************************************************************************)
(* bindKey and unbindKey                                                   *)
(***************************************************************************)
BindKey(k) ==
  /\ client = "idle" /\ binds < MaxBinds
  /\ bindings' = bindings \union {k}
  /\ binds' = binds + 1
  /\ UNCHANGED <<lifeVars, exit, producerVars, consumerVars, fd, open, queue>>

UnbindKey(k) ==
  /\ client = "idle" /\ binds < MaxBinds
  /\ bindings' = bindings \ {k}
  /\ binds' = binds + 1
  /\ UNCHANGED <<lifeVars, exit, producerVars, consumerVars, fd, open, queue>>

(***************************************************************************)
(* producerThread                                                          *)
(***************************************************************************)
ProducerOnly == UNCHANGED <<lifeVars, key, calls, taken, bindVars>>

(* findDeviceProcKeyboardPath, then open: m_fd is stored, or stays -1 and  *)
(* the thread gives up: m_exit is set, again without m_queueMtx.           *)
ProducerOpen(found) ==
  /\ producer = "find"
  /\ IF found
     THEN /\ fd' = creates /\ open' = open \union {creates}
          /\ producer' = "loop" /\ UNCHANGED exit
     ELSE /\ exit' = TRUE /\ producer' = "failed"
          /\ UNCHANGED <<fd, open>>
  /\ UNCHANGED <<ownFd, presses, pressed, consumer, queue>> /\ ProducerOnly

ProducerFailed ==
  /\ producer = "failed"
  /\ consumer' = Notified(consumer)
  /\ producer' = "done"
  /\ UNCHANGED <<exit, ownFd, presses, pressed, fd, open, queue>>
  /\ ProducerOnly

ProducerLoop ==
  /\ producer = "loop"
  /\ producer' = IF exit THEN "testFd" ELSE "call"
  /\ UNCHANGED <<exit, ownFd, presses, pressed, consumer, fd, open, queue>>
  /\ ProducerOnly

(* read(m_fd): an error on a closed descriptor, else it blocks.            *)
ProducerCall ==
  /\ producer = "call"
  /\ ownFd' = fd
  /\ producer' = IF fd \in open THEN "reading" ELSE "testFd"
  /\ UNCHANGED <<exit, presses, pressed, consumer, fd, open, queue>>
  /\ ProducerOnly

(* read() returns: the close() of another thread does not end a read in    *)
(* progress, so that only the keyboard does.  A key went down, ...         *)
ReadKey ==
  /\ producer = "reading" /\ presses < MaxPresses
  /\ presses' = presses + 1
  /\ producer' = "push"
  /\ UNCHANGED <<exit, ownFd, pressed, consumer, fd, open, queue>>
  /\ ProducerOnly

(* ... any other event: a release, a repeat, a synchronisation, ...        *)
ReadOther ==
  /\ producer = "reading"
  /\ producer' = "loop"
  /\ UNCHANGED <<exit, ownFd, presses, pressed, consumer, fd, open, queue>>
  /\ ProducerOnly

(* ... or the keyboard is gone, and read() fails.                          *)
ReadUnplugged ==
  /\ producer = "reading"
  /\ producer' = "testFd"
  /\ UNCHANGED <<exit, ownFd, presses, pressed, consumer, fd, open, queue>>
  /\ ProducerOnly

(* Mutation: the key is queued without m_queueMtx.                         *)
ProducerPushUnlocked ==
  /\ producer = "push"
  /\ \E k \in Keys : queue' = Append(queue, k)
  /\ pressed' = pressed + 1
  /\ producer' = "notify"
  /\ UNCHANGED <<exit, ownFd, presses, consumer, fd, open>>
  /\ ProducerOnly

ProducerPush ==
  /\ producer = "push" /\ QueueLockFree
  /\ \E k \in Keys : queue' = Append(queue, k)
  /\ pressed' = pressed + 1
  /\ producer' = "notify"
  /\ UNCHANGED <<exit, ownFd, presses, consumer, fd, open>>
  /\ ProducerOnly

ProducerNotify ==
  /\ producer = "notify"
  /\ consumer' = Notified(consumer)
  /\ producer' = "loop"
  /\ UNCHANGED <<exit, ownFd, presses, pressed, fd, open, queue>>
  /\ ProducerOnly

(* Mutation: the thread leaves the descriptor to destroy().                *)
ProducerKeepsFd ==
  /\ producer = "testFd"
  /\ producer' = "done"
  /\ UNCHANGED <<exit, ownFd, presses, pressed, consumer, fd, open, queue>>
  /\ ProducerOnly

ProducerTestFd ==
  /\ producer = "testFd"
  /\ ownFd' = fd
  /\ producer' = IF fd # NoFd THEN "closeFd" ELSE "done"
  /\ UNCHANGED <<exit, presses, pressed, consumer, fd, open, queue>>
  /\ ProducerOnly

ProducerCloseFd ==
  /\ producer = "closeFd"
  /\ \E f \in {ownFd, fd} : open' = open \ {f}
  /\ producer' = "resetFd"
  /\ UNCHANGED <<exit, ownFd, presses, pressed, consumer, fd, queue>>
  /\ ProducerOnly

ProducerResetFd ==
  /\ producer = "resetFd"
  /\ fd' = NoFd
  /\ producer' = "done"
  /\ UNCHANGED <<exit, ownFd, presses, pressed, consumer, open, queue>>
  /\ ProducerOnly

Producer == \/ \E found \in BOOLEAN : ProducerOpen(found)
            \/ ProducerFailed \/ ProducerLoop \/ ProducerCall
            \/ ProducerPush \/ ProducerNotify
            \/ ProducerTestFd \/ ProducerCloseFd \/ ProducerResetFd

(***************************************************************************)
(* consumerThread and dispatch                                             *)
(***************************************************************************)
ConsumerOnly == UNCHANGED <<lifeVars, exit, producerVars, fd, open, bindVars>>

ConsumerLoop ==
  /\ consumer = "loop"
  /\ consumer' = IF exit THEN "done" ELSE "check"
  /\ UNCHANGED <<key, calls, taken, queue>> /\ ConsumerOnly

(* The predicate, and under the same lock the key at the front; on exit    *)
(* the thread leaves, with one more key dispatched if any is queued.       *)
ConsumerCheck ==
  /\ consumer = "check"
  /\ IF queue # <<>>
     THEN /\ key' = Head(queue) /\ queue' = Tail(queue)
          /\ taken' = taken + 1
          /\ consumer' = "dispatch"
     ELSE /\ consumer' = IF exit THEN "done" ELSE "asleep"
          /\ UNCHANGED <<key, queue, taken>>
  /\ UNCHANGED calls /\ ConsumerOnly

ConsumerBlock ==
  /\ consumer = "asleep"
  /\ consumer' = "blocked"
  /\ UNCHANGED <<key, calls, taken, queue>> /\ ConsumerOnly

Bound(k) == IF k \in bindings THEN <<k>> ELSE <<>>

(* Mutation: the callbacks are called without looking whether any is bound. *)
ConsumerDispatchUnchecked ==
  /\ consumer = "dispatch"
  /\ calls' = Bound(key) \o Bound(Any)
  /\ consumer' = "call"
  /\ UNCHANGED <<key, taken, queue>> /\ ConsumerOnly

(* dispatch: the callbacks of the key and of Any are copied under the lock *)
(* and called without it, in this order.                                   *)
ConsumerDispatch ==
  /\ consumer = "dispatch"
  /\ calls' = Bound(key) \o Bound(Any)
  /\ consumer' = IF calls' = <<>> THEN "loop" ELSE "call"
  /\ UNCHANGED <<key, taken, queue>> /\ ConsumerOnly

ConsumerCall ==
  /\ consumer = "call"
  /\ calls' = Tail(calls)
  /\ consumer' = IF calls' = <<>> THEN "loop" ELSE "call"
  /\ UNCHANGED <<key, taken, queue>> /\ ConsumerOnly

Consumer == \/ ConsumerLoop \/ ConsumerCheck \/ ConsumerBlock
            \/ ConsumerDispatch \/ ConsumerCall

SpuriousWakeup ==
  /\ consumer = "blocked"
  /\ consumer' = "check"
  /\ UNCHANGED <<key, calls, taken, queue>> /\ ConsumerOnly

-----------------------------------------------------------------------------
Next ==
  \/ Create \/ Destroy \/ Client
  \/ \E k \in Keys \union {Any} : BindKey(k) \/ UnbindKey(k)
  \/ Producer \/ ReadKey \/ ReadOther \/ ReadUnplugged
  \/ Consumer \/ SpuriousWakeup

(* Threads that can run are scheduled, and a thread that waits for a mutex *)
(* that is free again and again gets it.  Nobody has to press a key, to    *)
(* call create() or destroy(), or to unplug the keyboard.                  *)
Fairness == /\ WF_vars(Client) /\ WF_vars(Producer) /\ WF_vars(Consumer)
            /\ SF_vars(ProducerPush)

Spec == Init /\ [][Next]_vars /\ Fairness

-----------------------------------------------------------------------------
(* Every variable stays in its range, and the consumer is at a call only   *)
(* with a callback to call (an empty std::function would throw).           *)
StatesOK   == /\ client \in ClientState /\ producer \in ProducerState
              /\ consumer \in ConsumerState
              /\ running \in BOOLEAN /\ exit \in BOOLEAN
CountersOK == /\ pressed \in Nat /\ taken \in Nat
              /\ creates \in 0..MaxCreates /\ presses \in 0..MaxPresses
              /\ binds \in 0..MaxBinds
FdsOK      == /\ {fd, clientFd, ownFd} \subseteq Fds \union {NoFd}
              /\ open \subseteq Fds
KeysOK     == /\ queue \in Seq(Keys) /\ key \in Keys \union {Any}
              /\ bindings \subseteq Keys \union {Any}
              /\ calls \in Seq(Keys \union {Any})
              /\ consumer = "call" => calls # <<>>
TypeOK     == StatesOK /\ CountersOK /\ FdsOK /\ KeysOK

(* When destroy() has returned nothing of the hook is left, whichever of   *)
(* the two threads got to m_fd first: no thread (create() may assign to    *)
(* m_producer and m_consumer again), no open descriptor, no queued key.    *)
DestroyReleasesAll ==
  client = "idle" /\ ~running =>
    /\ producer = "none" /\ consumer = "none"
    /\ open = {} /\ fd = NoFd
    /\ queue = <<>>

(* No wake-up is lost between a key and the consumer: a queued key is      *)
(* taken, unless the hook is told to stop.                                 *)
KeysTaken == \A n \in 1..MaxPresses : (pressed >= n) ~> (taken >= n \/ exit)

(* Two things alone keep destroy() from returning.  A missed notification: *)
(* unless the consumer is between its predicate and its wait, destroy()    *)
(* comes past it, with keys queued, pushed or dispatched meanwhile.  And a *)
(* read() in progress: a producer on its way to it, or back from it with   *)
(* one more event, finds m_exit set or the descriptor gone.                *)
OnlyMissAndReadHoldDestroy ==
  /\ (client = "notify" /\ consumer # "asleep") ~> (client = "joinProducer")
  /\ (client = "joinProducer" /\ producer # "reading") ~> (client = "idle")
=============================================================================
