---------------------------- MODULE WindowsKeyHook ----------------------------
(***************************************************************************)
(* The keyboard hook of sttserv/source/async_key.cpp, Windows build.  The  *)
(* producer thread installs a low-level hook and pumps messages; the       *)
(* system calls keyboardCallback on it while it is in GetMessage.  To end  *)
(* it destroy() posts WM_QUIT to the thread whose number the producer has  *)
(* left in m_producerID.                                                   *)
(*                                                                         *)
(* The consumer is that of the Linux build (AsyncKeyHook): keys are here   *)
(* only counted and dispatch is one step.  One client, one hook: s_instance*)
(* is set as long as the producer pumps.  A thread that has installed the  *)
(* hook has a message queue; a WM_QUIT posted to a thread without one, or  *)
(* to one that has ended, is lost.                                         *)
(***************************************************************************)
EXTENDS Naturals

CONSTANTS
  MaxPresses,      (* bound: keys pressed in all                             *)
  MaxCreates       (* bound: create() that start the hook                    *)

ASSUME WindowsAssumption == MaxPresses \in Nat /\ MaxCreates \in Nat

VARIABLES
  running, exit,     (* m_running, m_exit                                    *)
  client,            (* where the client is inside create() or destroy()     *)
  producer, consumer,(* where the two threads are, "none" without a thread   *)
  id,                (* m_producerID: the create() whose producer it names   *)
  hooked,            (* m_keyHook is installed                               *)
  quit,              (* WM_QUIT is in the producer's message queue           *)
  pressed, taken,    (* keys queued, keys taken off since the last create()  *)
  creates, presses   (* how much of the bounds is used                       *)

vars == <<running, exit, client, producer, consumer, id, hooked, quit,
          pressed, taken, creates, presses>>

NoId == 0     (* 0xFFFFFFFF in the code *)

ClientState   == {"idle", "spawn", "notify", "joinConsumer", "post",
                  "joinProducer", "drain"}
ProducerState == {"none", "install", "failed", "store", "pump", "push",
                  "notify", "unhook", "done"}
ConsumerState == {"none", "loop", "check", "asleep", "blocked", "dispatch",
                  "done"}

Queued == pressed - taken

Init ==
  /\ running = FALSE /\ exit = FALSE
  /\ client = "idle" /\ producer = "none" /\ consumer = "none"
  /\ id = NoId /\ hooked = FALSE /\ quit = FALSE
  /\ pressed = 0 /\ taken = 0 /\ creates = 0 /\ presses = 0

QueueLockFree == consumer # "asleep"
Notified(pc)  == IF pc = "blocked" THEN "check" ELSE pc
HasMessageQueue == producer \in {"store", "pump", "push", "notify"}

(***************************************************************************)
(* create() and destroy()                                                  *)
(***************************************************************************)
(* Mutation: create() stores the number of the thread it starts.           *)
CreateStoresId ==
  /\ client = "idle" /\ ~running /\ creates < MaxCreates
  /\ running' = TRUE /\ exit' = FALSE
  /\ producer' = "install" /\ client' = "spawn"
  /\ creates' = creates + 1 /\ id' = creates + 1
  /\ pressed' = 0 /\ taken' = 0
  /\ UNCHANGED <<consumer, hooked, quit, presses>>

(* m_producerID keeps the number of the last producer.                     *)
Create ==
  /\ client = "idle" /\ ~running /\ creates < MaxCreates
  /\ running' = TRUE /\ exit' = FALSE
  /\ producer' = "install" /\ client' = "spawn"
  /\ creates' = creates + 1
  /\ pressed' = 0 /\ taken' = 0
  /\ UNCHANGED <<consumer, id, hooked, quit, presses>>

CreateConsumer ==
  /\ client = "spawn"
  /\ consumer' = "loop" /\ client' = "idle"
  /\ UNCHANGED <<running, exit, producer, id, hooked, quit, pressed, taken,
                 creates, presses>>

Destroy ==
  /\ client = "idle" /\ running
  /\ running' = FALSE /\ exit' = TRUE
  /\ client' = "notify"
  /\ UNCHANGED <<producer, consumer, id, hooked, quit, pressed, taken, creates,
                 presses>>

DestroyNotify ==
  /\ client = "notify"
  /\ consumer' = Notified(consumer)
  /\ client' = "joinConsumer"
  /\ UNCHANGED <<running, exit, producer, id, hooked, quit, pressed, taken,
                 creates, presses>>

DestroyJoinConsumer ==
  /\ client = "joinConsumer" /\ consumer = "done"
  /\ consumer' = "none"
  /\ client' = "post"
  /\ UNCHANGED <<running, exit, producer, id, hooked, quit, pressed, taken,
                 creates, presses>>

(* PostThreadMessage, if any producer has ever stored its number.          *)
DestroyPostQuit ==
  /\ client = "post"
  /\ quit' = (id = creates /\ HasMessageQueue)
  /\ client' = "joinProducer"
  /\ UNCHANGED <<running, exit, producer, consumer, id, hooked, pressed, taken,
                 creates, presses>>

DestroyJoinProducer ==
  /\ client = "joinProducer" /\ producer = "done"
  /\ producer' = "none"
  /\ client' = "drain"
  /\ UNCHANGED <<running, exit, consumer, id, hooked, quit, pressed, taken,
                 creates, presses>>

(* Mutation: the queue is left to the next consumer.                       *)
DestroyKeepsQueue ==
  /\ client = "drain"
  /\ client' = "idle"
  /\ UNCHANGED <<running, exit, producer, consumer, id, hooked, quit, pressed,
                 taken, creates, presses>>

DestroyDrain ==
  /\ client = "drain"
  /\ taken' = pressed
  /\ client' = "idle"
  /\ UNCHANGED <<running, exit, producer, consumer, id, hooked, quit, pressed,
                 creates, presses>>

Client == \/ CreateConsumer \/ DestroyNotify \/ DestroyJoinConsumer
          \/ DestroyPostQuit \/ DestroyJoinProducer \/ DestroyDrain

(***************************************************************************)
(* producerThread and keyboardCallback                                     *)
(***************************************************************************)
ProducerInstall(done) ==
  /\ producer = "install"
  /\ hooked' = done
  /\ producer' = IF done THEN "store" ELSE "failed"
  /\ exit' = (exit \/ ~done)
  /\ UNCHANGED <<running, client, consumer, id, quit, pressed, taken, creates,
                 presses>>

ProducerFailed ==
  /\ producer = "failed"
  /\ consumer' = Notified(consumer)
  /\ producer' = "done"
  /\ UNCHANGED <<running, exit, client, id, hooked, quit, pressed, taken,
                 creates, presses>>

ProducerStoreId ==
  /\ producer = "store"
  /\ id' = creates
  /\ producer' = "pump"
  /\ UNCHANGED <<running, exit, client, consumer, hooked, quit, pressed, taken,
                 creates, presses>>

(* A key goes down: keyboardCallback is called from within GetMessage.     *)
KeyDown ==
  /\ producer = "pump" /\ presses < MaxPresses
  /\ presses' = presses + 1
  /\ producer' = "push"
  /\ UNCHANGED <<running, exit, client, consumer, id, hooked, quit, pressed,
                 taken, creates>>

(* Mutation: the key is queued without m_queueMtx.                         *)
CallbackPushUnlocked ==
  /\ producer = "push"
  /\ pressed' = pressed + 1
  /\ producer' = "notify"
  /\ UNCHANGED <<running, exit, client, consumer, id, hooked, quit, taken,
                 creates, presses>>

CallbackPush ==
  /\ producer = "push" /\ QueueLockFree
  /\ pressed' = pressed + 1
  /\ producer' = "notify"
  /\ UNCHANGED <<running, exit, client, consumer, id, hooked, quit, taken,
                 creates, presses>>

CallbackNotify ==
  /\ producer = "notify"
  /\ consumer' = Notified(consumer)
  /\ producer' = "pump"
  /\ UNCHANGED <<running, exit, client, id, hooked, quit, pressed, taken,
                 creates, presses>>

(* GetMessage returns 0 for WM_QUIT, and for nothing else.                 *)
ProducerGetQuit ==
  /\ producer = "pump" /\ quit
  /\ quit' = FALSE
  /\ producer' = "unhook"
  /\ UNCHANGED <<running, exit, client, consumer, id, hooked, pressed, taken,
                 creates, presses>>

(* m_keyHook is reset whether or not the system takes the hook out: a      *)
(* failure is only printed, and the system takes out what is left when the *)
(* thread ends, which is the next thing it does.                           *)
ProducerUnhook ==
  /\ producer = "unhook"
  /\ hooked' = FALSE
  /\ producer' = "done"
  /\ UNCHANGED <<running, exit, client, consumer, id, quit, pressed, taken,
                 creates, presses>>

Producer == \/ \E done \in BOOLEAN : ProducerInstall(done)
            \/ ProducerFailed \/ ProducerStoreId \/ CallbackPush
            \/ CallbackNotify \/ ProducerGetQuit \/ ProducerUnhook

(***************************************************************************)
(* consumerThread                                                          *)
(***************************************************************************)
ConsumerOnly == UNCHANGED <<running, exit, client, producer, id, hooked, quit,
                            pressed, creates, presses>>

ConsumerLoop ==
  /\ consumer = "loop"
  /\ consumer' = IF exit THEN "done" ELSE "check"
  /\ UNCHANGED taken /\ ConsumerOnly

(* Mutation: a woken thread takes a key without looking.                   *)
ConsumerTakesUnchecked ==
  /\ consumer = "check"
  /\ IF Queued > 0 \/ exit
     THEN taken' = taken + 1 /\ consumer' = "dispatch"
     ELSE consumer' = "asleep" /\ UNCHANGED taken
  /\ ConsumerOnly

ConsumerCheck ==
  /\ consumer = "check"
  /\ IF Queued > 0
     THEN taken' = taken + 1 /\ consumer' = "dispatch"
     ELSE consumer' = (IF exit THEN "done" ELSE "asleep") /\ UNCHANGED taken
  /\ ConsumerOnly

ConsumerBlock ==
  /\ consumer = "asleep"
  /\ consumer' = "blocked"
  /\ UNCHANGED taken /\ ConsumerOnly

ConsumerDispatch ==
  /\ consumer = "dispatch"
  /\ consumer' = "loop"
  /\ UNCHANGED taken /\ ConsumerOnly

Consumer == ConsumerLoop \/ ConsumerCheck \/ ConsumerBlock \/ ConsumerDispatch

SpuriousWakeup ==
  /\ consumer = "blocked"
  /\ consumer' = "check"
  /\ UNCHANGED taken /\ ConsumerOnly

-----------------------------------------------------------------------------
Next == \/ Create \/ Destroy \/ Client
        \/ Producer \/ KeyDown
        \/ Consumer \/ SpuriousWakeup

(* As in AsyncKeyHook: threads that can run do, and one that finds its     *)
(* mutex free again and again gets it.                                     *)
Fairness == /\ WF_vars(Client) /\ WF_vars(Producer) /\ WF_vars(Consumer)
            /\ SF_vars(CallbackPush)

Spec == Init /\ [][Next]_vars /\ Fairness

-----------------------------------------------------------------------------
(* Every variable stays in its range; no key is taken off an empty queue.  *)
TypeOK ==
  /\ running \in BOOLEAN /\ exit \in BOOLEAN
  /\ hooked \in BOOLEAN /\ quit \in BOOLEAN
  /\ client \in ClientState /\ producer \in ProducerState
  /\ consumer \in ConsumerState
  /\ creates \in 0..MaxCreates /\ presses \in 0..MaxPresses
  /\ id \in 0..creates
  /\ pressed \in Nat /\ taken \in 0..pressed

(* "Stop threads, uninstall hook and release resources": nothing of the    *)
(* hook is left when destroy() has returned, and a key that went down      *)
(* after the consumer had gone is not kept for the next one; nor is a      *)
(* WM_QUIT in the queue of a thread that is gone.                          *)
DestroyReleasesAll ==
  client = "idle" /\ ~running =>
    /\ producer = "none" /\ consumer = "none"
    /\ ~hooked /\ ~quit /\ Queued = 0

(* No wake-up is lost between keyboardCallback and the consumer.           *)
KeysTaken == \A n \in 1..MaxPresses : (pressed >= n) ~> (taken >= n \/ exit)

(* A destroy() that finds the producer's own number in m_producerID ends:  *)
(* by then that thread has a message queue, and no key keeps it from       *)
(* reading it.                                                             *)
QuitReachesProducer == (client = "post" /\ id = creates) ~> (client = "idle")

(* "Then unblock the producer's GetMessage loop": the destroy() that waits *)
(* for the producer alone returns.                                         *)
ProducerUnblocked == (client = "joinProducer") ~> (client = "idle")
=============================================================================
