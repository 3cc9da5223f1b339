---------------------------- MODULE AudioManager2 ----------------------------
(***************************************************************************)
(* The audio manager of sttserv/source/audio2.cpp: one block of memory     *)
(* holds a context, a device, a ring and a resampler of miniaudio, set up  *)
(* in two calls whose every stage may fail and is then rolled back by      *)
(* destroy(), which goes by one flag for each resource.                    *)
(*                                                                         *)
(* A call is a chain of steps, one for each call into the library.  The    *)
(* pointers follow the resources, except m_ctx, which the code tests:      *)
(* m_underlyingMem is not null while "mem" is live.                        *)
(***************************************************************************)
EXTENDS Naturals

CONSTANTS
  MaxDevices,   (* bound: devices of a kind the machine has                 *)
  Careful       (* is the manager finalised only after createContext()      *)
                (* succeeded, as every program of the repository does?      *)

NoDevice == 255 (* 0xFF *)

ASSUME ManagerAssumption == /\ MaxDevices \in Nat /\ MaxDevices + 1 < NoDevice
                            /\ Careful \in BOOLEAN

VARIABLES
  client,       (* "idle" between two calls, else the stage of the call     *)
  live,         (* what has been set up and not torn down                   *)
  flags,        (* which of the mb_init flags are set                       *)
  ctx,          (* is m_ctx set?                                            *)
  count,        (* the lengths of the two lists of m_deviceList             *)
  index,        (* m_captureDeviceIdx and m_playbackDeviceIdx               *)
  playing       (* the device has been started: its callback may run        *)

vars == <<client, live, flags, ctx, count, index, playing>>

Resources == {"mem", "context", "audioDev", "ringBuffer", "resampler"}
Flags     == Resources \union {"devList", "all"}
Side      == {"capture", "playback"}
Ids       == 0..(MaxDevices + 1) \union {NoDevice}
Stage     == {"idle", "context", "list", "device", "ring", "resampler",
              "destroyResampler", "destroyRing", "destroyDevice",
              "destroyList", "destroyContext", "destroyMem"}
RollBack  == "destroyResampler"

Init ==
  /\ client = "idle"
  /\ live = {} /\ flags = {} /\ ctx = FALSE
  /\ count = [s \in Side |-> 0] /\ index = [s \in Side |-> NoDevice]
  /\ playing = FALSE

(* One stage: resource r is set up and its flag set, or destroy() is next. *)
SetUp(r, ok, next) ==
  IF ok THEN /\ live' = live \union {r}
             /\ flags' = flags \union {r}
             /\ client' = next
        ELSE client' = RollBack /\ UNCHANGED <<live, flags>>

(***************************************************************************)
(* createContext: at once true when there is memory already                *)
(***************************************************************************)
InitializeMemory(ok) ==
  /\ client = "idle" /\ "mem" \notin live /\ "all" \notin flags
  /\ SetUp("mem", ok, "context")
  /\ ctx' = (ok \/ ctx)
  /\ UNCHANGED <<count, index, playing>>

InitializeContext(ok) ==
  /\ client = "context"
  /\ SetUp("context", ok, "list")
  /\ UNCHANGED <<ctx, count, index, playing>>

(* Mutation: the index of a missing default is not narrowed to eight bits. *)
InitializeDeviceListWide(ok) ==
  /\ client = "list"
  /\ IF ok
     THEN /\ count' \in [Side -> 0..MaxDevices]
          /\ index' \in [Side -> 0..MaxDevices \union {256 * NoDevice + NoDevice}]
          /\ flags' = flags \union {"devList"}
          /\ client' = "idle"
     ELSE client' = RollBack /\ UNCHANGED <<count, index, flags>>
  /\ UNCHANGED <<live, ctx, playing>>

(* The default device of a kind is picked; there may be none.              *)
InitializeDeviceList(ok) ==
  /\ client = "list"
  /\ IF ok
     THEN /\ count' \in [Side -> 0..MaxDevices]
          /\ index' \in [Side -> Ids]
          /\ \A s \in Side : index'[s] # NoDevice => index'[s] < count'[s]
          /\ flags' = flags \union {"devList"}
          /\ client' = "idle"
     ELSE client' = RollBack /\ UNCHANGED <<count, index, flags>>
  /\ UNCHANGED <<live, ctx, playing>>

(***************************************************************************)
(* selectDevicesAndFinalize                                                *)
(***************************************************************************)
MayFinalize == "all" \notin flags /\ (Careful => "devList" \in flags)

(* The ids asked for replace the defaults and are compared with the lists. *)
SelectDevices(id) ==
  /\ client = "idle" /\ MayFinalize
  /\ index' = [s \in Side |-> IF id[s] = NoDevice THEN index[s] ELSE id[s]]
  /\ client' = IF ~ctx \/ \E s \in Side : index'[s] > count[s]
               THEN RollBack ELSE "device"
  /\ UNCHANGED <<live, flags, ctx, count, playing>>

InitializeAudioDevice(ok) ==
  /\ client = "device"
  /\ SetUp("audioDev", ok, "ring")
  /\ UNCHANGED <<ctx, count, index, playing>>

(* Mutation: the call returns false and the device is left behind.         *)
InitializeRingBufferKeepsRest(ok) ==
  /\ client = "ring"
  /\ IF ok THEN SetUp("ringBuffer", TRUE, "resampler")
           ELSE client' = "idle" /\ UNCHANGED <<live, flags>>
  /\ UNCHANGED <<ctx, count, index, playing>>

(* Mutation: the status of the ring is not looked at.                      *)
InitializeRingBufferUntested(ok) ==
  /\ client = "ring"
  /\ IF ok THEN SetUp("ringBuffer", TRUE, "resampler")
           ELSE client' = "resampler" /\ UNCHANGED <<live, flags>>
  /\ UNCHANGED <<ctx, count, index, playing>>

InitializeRingBuffer(ok) ==
  /\ client = "ring"
  /\ SetUp("ringBuffer", ok, "resampler")
  /\ UNCHANGED <<ctx, count, index, playing>>

InitializeResampler(ok) ==
  /\ client = "resampler"
  /\ IF ok THEN /\ live' = live \union {"resampler"}
                /\ flags' = flags \union {"resampler", "all"}
                /\ client' = "idle"
           ELSE client' = RollBack /\ UNCHANGED <<live, flags>>
  /\ UNCHANGED <<ctx, count, index, playing>>

(***************************************************************************)
(* start and stop, called on a finalised manager only                      *)
(***************************************************************************)
Start(ok) ==
  /\ client = "idle" /\ "all" \in flags
  /\ playing' = (playing \/ ok)
  /\ UNCHANGED <<client, live, flags, ctx, count, index>>

Stop ==
  /\ client = "idle" /\ "all" \in flags
  /\ playing' = FALSE
  /\ UNCHANGED <<client, live, flags, ctx, count, index>>

(***************************************************************************)
(* destroy, as a call of its own (of a stopped manager) or to roll back    *)
(***************************************************************************)
Destroy ==
  /\ client = "idle" /\ ~playing
  /\ client' = RollBack
  /\ UNCHANGED <<live, flags, ctx, count, index, playing>>

TearDown(here, r, next) ==
  /\ client = here
  /\ live' = IF r \in flags THEN live \ {r} ELSE live
  /\ client' = next

DestroyResampler ==
  /\ TearDown("destroyResampler", "resampler", "destroyRing")
  /\ UNCHANGED <<flags, ctx, count, index, playing>>

DestroyRing ==
  /\ TearDown("destroyRing", "ringBuffer", "destroyDevice")
  /\ UNCHANGED <<flags, ctx, count, index, playing>>

(* Mutation: the device is torn down with a complete manager only.         *)
DestroyDeviceOfAll ==
  /\ TearDown("destroyDevice", IF "all" \in flags THEN "audioDev" ELSE "all",
              "destroyList")
  /\ UNCHANGED <<flags, ctx, count, index, playing>>

DestroyDevice ==
  /\ TearDown("destroyDevice", "audioDev", "destroyList")
  /\ UNCHANGED <<flags, ctx, count, index, playing>>

(* The lists are emptied; the indices into them stay.                      *)
DestroyList ==
  /\ client = "destroyList"
  /\ count' = IF "devList" \in flags THEN [s \in Side |-> 0] ELSE count
  /\ client' = "destroyContext"
  /\ UNCHANGED <<live, flags, ctx, index, playing>>

(* m_ctx is reset only together with a context that was initialised.       *)
DestroyContext ==
  /\ TearDown("destroyContext", "context", "destroyMem")
  /\ ctx' = (ctx /\ "context" \notin flags)
  /\ UNCHANGED <<flags, count, index, playing>>

DestroyMem ==
  /\ TearDown("destroyMem", "mem", "idle")
  /\ flags' = {}
  /\ UNCHANGED <<ctx, count, index, playing>>

-----------------------------------------------------------------------------
Next ==
  \/ \E ok \in BOOLEAN :
       \/ InitializeMemory(ok) \/ InitializeContext(ok)
       \/ InitializeDeviceList(ok) \/ InitializeAudioDevice(ok)
       \/ InitializeRingBuffer(ok) \/ InitializeResampler(ok) \/ Start(ok)
  \/ \E id \in [Side -> Ids] : SelectDevices(id)
  \/ Stop \/ Destroy
  \/ DestroyResampler \/ DestroyRing \/ DestroyDevice \/ DestroyList
  \/ DestroyContext \/ DestroyMem

Spec == Init /\ [][Next]_vars

-----------------------------------------------------------------------------
(* Every variable stays in its range.                                      *)
TypeOK ==
  /\ client \in Stage
  /\ live \subseteq Resources /\ flags \subseteq Flags
  /\ ctx \in BOOLEAN /\ playing \in BOOLEAN
  /\ count \in [Side -> 0..MaxDevices] /\ index \in [Side -> Ids]

ContextOnly == {"mem", "context"}

(* However a call ended, the manager is empty, has its context and device  *)
(* lists, or is complete, and its flags say so: no half of it is left      *)
(* behind by a stage that failed, and nothing is left unflagged to leak.   *)
ThreeShapes ==
  client = "idle" =>
    \/ live = {} /\ flags = {}
    \/ live = ContextOnly /\ flags = ContextOnly \union {"devList"}
    \/ live = Resources /\ flags = Flags

(* While the device runs, so that its callback may come at any time, the   *)
(* ring the callback writes to and the block it lies in are there.         *)
CallbackHasRing == playing => {"mem", "audioDev", "ringBuffer"} \subseteq live

(* Everything lies in the block, and the device works on the context: each *)
(* resource is set up once, after what it needs, and torn down once, not   *)
(* before what needs it.                                                   *)
Needs == [r \in Resources |-> CASE r = "mem" -> {}
                                [] r = "audioDev" -> {"mem", "context"}
                                [] OTHER -> {"mem"}]
Lifecycle == INSTANCE ResourceLifecycle WITH held <- live
ImplementsLifecycle == Lifecycle!Spec

(***************************************************************************)
(* "Error During initialization, indices are invalid/didn't create         *)
(* context": what the test in initializeAudioDevice lets pass is sound.    *)
(***************************************************************************)

(* A device is opened only at an index of the list.                        *)
IndicesValid == client = "device" => \A s \in Side : index[s] < count[s]
=============================================================================
