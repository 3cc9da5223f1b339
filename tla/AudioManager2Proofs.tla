------------------------- MODULE AudioManager2Proofs -------------------------
(***************************************************************************)
(* What the flags of the audio manager promise, for every number of        *)
(* devices, as long as its client finalises only what createContext() has  *)
(* created.  The argument is one predicate on (live, flags) for each stage *)
(* of a call.                                                              *)
(***************************************************************************)
EXTENDS AudioManager2, TLAPS

Held == flags \intersect Resources

(* What is held is closed under "lies in" and "works on".                  *)
Closed(S) == /\ S # {} => "mem" \in S
             /\ "audioDev" \in S => "context" \in S

Opened == ContextOnly \union {"audioDev"}
Ringed == Opened \union {"ringBuffer"}

SetUpInv ==
  /\ ThreeShapes
  /\ client = "context" => live = {"mem"} /\ flags = {"mem"}
  /\ client = "list" => live = ContextOnly /\ flags = ContextOnly
  /\ client = "device" => /\ live = ContextOnly
                          /\ flags = ContextOnly \union {"devList"}
  /\ client = "ring" => live = Opened /\ flags = Opened \union {"devList"}
  /\ client = "resampler" => live = Ringed /\ flags = Ringed \union {"devList"}

(* destroy() has released the first resources of its order, and holds what *)
(* the flags say of the others.                                            *)
TearDownInv ==
  /\ Closed(Held)
  /\ client = "destroyResampler" => live = Held
  /\ client = "destroyRing" => live = Held \ {"resampler"}
  /\ client = "destroyDevice" => live = Held \ {"resampler", "ringBuffer"}
  /\ client \in {"destroyList", "destroyContext"} =>
       live = Held \ {"resampler", "ringBuffer", "audioDev"}
  /\ client = "destroyMem" => live = Held \intersect {"mem"}

PlayInv == playing => client = "idle" /\ "all" \in flags

ManagerInv == TypeOK /\ SetUpInv /\ TearDownInv /\ PlayInv

-----------------------------------------------------------------------------
LEMMA ManagerTypeInit == Init => TypeOK
<1> SUFFICES ASSUME Init PROVE TypeOK
  OBVIOUS
<1>1. count \in [Side -> 0..MaxDevices]
  <2>1. 0 \in 0..MaxDevices
    BY ManagerAssumption
  <2>2. QED
    BY <2>1 DEF Init
<1>2. index \in [Side -> Ids]
  <2>1. NoDevice \in Ids
    BY DEF Ids
  <2>2. QED
    BY <2>1 DEF Init
<1>3. QED
  BY <1>1, <1>2 DEF Init, TypeOK, Stage, Resources, Flags

LEMMA ManagerTypeNext == TypeOK /\ [Next]_vars => TypeOK'
<1> SUFFICES ASSUME TypeOK, [Next]_vars PROVE TypeOK'
  OBVIOUS
<1> USE DEF TypeOK, Stage, RollBack, Resources, Flags
<1>1. ASSUME NEW ok \in BOOLEAN, InitializeMemory(ok) PROVE TypeOK'
  BY <1>1 DEF InitializeMemory, SetUp
<1>2. ASSUME NEW ok \in BOOLEAN, InitializeContext(ok) PROVE TypeOK'
  BY <1>2 DEF InitializeContext, SetUp
<1>3. ASSUME NEW ok \in BOOLEAN, InitializeDeviceList(ok) PROVE TypeOK'
  BY <1>3 DEF InitializeDeviceList
<1>4. ASSUME NEW id \in [Side -> Ids], SelectDevices(id) PROVE TypeOK'
  BY <1>4 DEF SelectDevices
<1>5. ASSUME NEW ok \in BOOLEAN, InitializeAudioDevice(ok) PROVE TypeOK'
  BY <1>5 DEF InitializeAudioDevice, SetUp
<1>6. ASSUME NEW ok \in BOOLEAN, InitializeRingBuffer(ok) PROVE TypeOK'
  BY <1>6 DEF InitializeRingBuffer, SetUp
<1>7. ASSUME NEW ok \in BOOLEAN, InitializeResampler(ok) PROVE TypeOK'
  BY <1>7 DEF InitializeResampler
<1>8. ASSUME NEW ok \in BOOLEAN, Start(ok) PROVE TypeOK'
  BY <1>8 DEF Start
<1>9. CASE Stop
  BY <1>9 DEF Stop
<1>10. CASE Destroy
  BY <1>10 DEF Destroy
<1>11. CASE DestroyResampler
  BY <1>11 DEF DestroyResampler, TearDown
<1>12. CASE DestroyRing
  BY <1>12 DEF DestroyRing, TearDown
<1>13. CASE DestroyDevice
  BY <1>13 DEF DestroyDevice, TearDown
<1>14. CASE DestroyList
  <2>1. count' \in [Side -> 0..MaxDevices]
    BY <1>14, ManagerAssumption DEF DestroyList
  <2>2. QED
    BY <1>14, <2>1 DEF DestroyList
<1>15. CASE DestroyContext
  BY <1>15 DEF DestroyContext, TearDown
<1>16. CASE DestroyMem
  BY <1>16 DEF DestroyMem, TearDown
<1>17. CASE UNCHANGED vars
  BY <1>17 DEF vars
<1>18. QED
  BY <1>1, <1>2, <1>3, <1>4, <1>5, <1>6, <1>7, <1>8, <1>9, <1>10, <1>11,
     <1>12, <1>13, <1>14, <1>15, <1>16, <1>17 DEF Next

(* TypeOK: every variable of the manager stays in its range, whatever the  *)
(* client does.                                                            *)
THEOREM ManagerTypeCorrect == Spec => []TypeOK
<1>1. QED
  BY ManagerTypeInit, ManagerTypeNext, PTL DEF Spec

-----------------------------------------------------------------------------
LEMMA ManagerInvInit == Init => ManagerInv
<1> SUFFICES ASSUME Init PROVE ManagerInv
  OBVIOUS
<1>1. SetUpInv
  BY DEF Init, SetUpInv, ThreeShapes
<1>2. TearDownInv
  BY DEF Init, TearDownInv, Closed, Held
<1>3. PlayInv
  BY DEF Init, PlayInv
<1>4. QED
  BY <1>1, <1>2, <1>3, ManagerTypeInit DEF ManagerInv

(* The stages that set up.                                                 *)
LEMMA SetUpKeeps ==
  ASSUME Careful, ManagerInv, NEW ok \in BOOLEAN,
         \/ InitializeMemory(ok) \/ InitializeContext(ok)
         \/ InitializeDeviceList(ok) \/ InitializeAudioDevice(ok)
         \/ InitializeRingBuffer(ok) \/ InitializeResampler(ok)
  PROVE  SetUpInv' /\ TearDownInv' /\ PlayInv'
<1> USE DEF ManagerInv, SetUpInv, ThreeShapes, TearDownInv, PlayInv, Closed,
            Held, RollBack, ContextOnly, Opened, Ringed, Resources, Flags,
            SetUp
<1>1. CASE InitializeMemory(ok)
  BY <1>1 DEF InitializeMemory
<1>2. CASE InitializeContext(ok)
  BY <1>2 DEF InitializeContext
<1>3. CASE InitializeDeviceList(ok)
  BY <1>3 DEF InitializeDeviceList
<1>4. CASE InitializeAudioDevice(ok)
  BY <1>4 DEF InitializeAudioDevice
<1>5. CASE InitializeRingBuffer(ok)
  BY <1>5 DEF InitializeRingBuffer
<1>6. CASE InitializeResampler(ok)
  BY <1>6 DEF InitializeResampler
<1>7. QED
  BY <1>1, <1>2, <1>3, <1>4, <1>5, <1>6

(* The steps between calls, and the choice of the devices.                 *)
LEMMA ClientKeeps ==
  ASSUME Careful, ManagerInv,
         \/ \E id \in [Side -> Ids] : SelectDevices(id)
         \/ \E ok \in BOOLEAN : Start(ok)
         \/ Stop \/ Destroy
  PROVE  SetUpInv' /\ TearDownInv' /\ PlayInv'
<1> USE DEF ManagerInv, SetUpInv, ThreeShapes, TearDownInv, PlayInv, Closed,
            Held, RollBack, ContextOnly, Opened, Ringed, Resources, Flags
<1>1. ASSUME NEW id \in [Side -> Ids], SelectDevices(id)
      PROVE  SetUpInv' /\ TearDownInv' /\ PlayInv'
  BY <1>1 DEF SelectDevices, MayFinalize
<1>2. ASSUME NEW ok \in BOOLEAN, Start(ok)
      PROVE  SetUpInv' /\ TearDownInv' /\ PlayInv'
  BY <1>2 DEF Start
<1>3. CASE Stop
  BY <1>3 DEF Stop
<1>4. CASE Destroy
  BY <1>4 DEF Destroy
<1>5. QED
  BY <1>1, <1>2, <1>3, <1>4

(* The stages of destroy().                                                *)
LEMMA TearDownKeeps ==
  ASSUME ManagerInv,
         \/ DestroyResampler \/ DestroyRing \/ DestroyDevice \/ DestroyList
         \/ DestroyContext \/ DestroyMem
  PROVE  SetUpInv' /\ TearDownInv' /\ PlayInv'
<1> USE DEF ManagerInv, SetUpInv, ThreeShapes, TearDownInv, PlayInv, Closed,
            Held, Resources, TearDown
<1>1. CASE DestroyResampler
  BY <1>1 DEF DestroyResampler
<1>2. CASE DestroyRing
  BY <1>2 DEF DestroyRing
<1>3. CASE DestroyDevice
  BY <1>3 DEF DestroyDevice
<1>4. CASE DestroyList
  BY <1>4 DEF DestroyList
<1>5. CASE DestroyContext
  BY <1>5 DEF DestroyContext
<1>6. CASE DestroyMem
  BY <1>6 DEF DestroyMem
<1>7. QED
  BY <1>1, <1>2, <1>3, <1>4, <1>5, <1>6

LEMMA ManagerInvNext ==
  ASSUME Careful, ManagerInv, [Next]_vars
  PROVE  ManagerInv'
<1>1. TypeOK'
  BY ManagerTypeNext DEF ManagerInv
<1>2. CASE Next
  BY <1>1, <1>2, SetUpKeeps, ClientKeeps, TearDownKeeps DEF Next, ManagerInv
<1>3. CASE UNCHANGED vars
  BY <1>1, <1>3 DEF vars, ManagerInv, SetUpInv, ThreeShapes, TearDownInv,
                    PlayInv, Held
<1>4. QED
  BY <1>2, <1>3

LEMMA ManagerInvariant == ASSUME Careful PROVE Spec => []ManagerInv
<1>1. ManagerInv /\ [Next]_vars => ManagerInv'
  BY ManagerInvNext
<1>2. QED
  BY <1>1, ManagerInvInit, PTL DEF Spec

(* ThreeShapes: whichever stage of a call fails, the manager is afterwards *)
(* empty, has its context and lists, or is complete, and its flags agree.  *)
THEOREM CallsEndInThreeShapes == ASSUME Careful PROVE Spec => []ThreeShapes
<1>1. ManagerInv => ThreeShapes
  BY DEF ManagerInv, SetUpInv
<1>2. QED
  BY <1>1, ManagerInvariant, PTL

(* CallbackHasRing: a callback of a started device finds the ring, and the *)
(* block the ring lies in, in place.                                       *)
THEOREM CallbackFindsRing == ASSUME Careful PROVE Spec => []CallbackHasRing
<1>1. ManagerInv => CallbackHasRing
  BY DEF ManagerInv, SetUpInv, ThreeShapes, PlayInv, CallbackHasRing,
         Resources, Flags, ContextOnly
<1>2. QED
  BY <1>1, ManagerInvariant, PTL

-----------------------------------------------------------------------------
(* Each resource is acquired by its own stage, with what it needs there.   *)
LEMMA Acquires ==
  ASSUME ManagerInv, NEW ok \in BOOLEAN,
         \/ InitializeMemory(ok) \/ InitializeContext(ok)
         \/ InitializeAudioDevice(ok)
         \/ InitializeRingBuffer(ok) \/ InitializeResampler(ok)
  PROVE  (\E r \in Resources : Lifecycle!Acquire(r)) \/ live' = live
<1> USE DEF ManagerInv, SetUpInv, SetUp, ContextOnly, Opened, Ringed,
            Lifecycle!Acquire, Needs, Resources
<1>1. CASE InitializeMemory(ok)
  <2>1. Lifecycle!Acquire("mem") \/ live' = live
    BY <1>1 DEF InitializeMemory
  <2>2. QED
    BY <2>1
<1>2. CASE InitializeContext(ok)
  <2>1. Lifecycle!Acquire("context") \/ live' = live
    BY <1>2 DEF InitializeContext
  <2>2. QED
    BY <2>1
<1>3. CASE InitializeAudioDevice(ok)
  <2>1. Lifecycle!Acquire("audioDev") \/ live' = live
    BY <1>3 DEF InitializeAudioDevice
  <2>2. QED
    BY <2>1
<1>4. CASE InitializeRingBuffer(ok)
  <2>1. Lifecycle!Acquire("ringBuffer") \/ live' = live
    BY <1>4 DEF InitializeRingBuffer
  <2>2. QED
    BY <2>1
<1>5. CASE InitializeResampler(ok)
  <2>1. Lifecycle!Acquire("resampler") \/ live' = live
    BY <1>5 DEF InitializeResampler
  <2>2. QED
    BY <2>1
<1>6. QED
  BY <1>1, <1>2, <1>3, <1>4, <1>5

(* destroy() releases in an order in which nothing released is needed.     *)
LEMMA Releases ==
  ASSUME ManagerInv,
         \/ DestroyResampler \/ DestroyRing \/ DestroyDevice
         \/ DestroyContext \/ DestroyMem
  PROVE  (\E r \in Resources : Lifecycle!Release(r)) \/ live' = live
<1> USE DEF ManagerInv, TearDownInv, Closed, Held, TearDown,
            Lifecycle!Release, Needs, Resources
<1>1. CASE DestroyResampler
  <2>1. Lifecycle!Release("resampler") \/ live' = live
    BY <1>1 DEF DestroyResampler
  <2>2. QED
    BY <2>1
<1>2. CASE DestroyRing
  <2>1. Lifecycle!Release("ringBuffer") \/ live' = live
    BY <1>2 DEF DestroyRing
  <2>2. QED
    BY <2>1
<1>3. CASE DestroyDevice
  <2>1. Lifecycle!Release("audioDev") \/ live' = live
    BY <1>3 DEF DestroyDevice
  <2>2. QED
    BY <2>1
<1>4. CASE DestroyContext
  <2>1. Lifecycle!Release("context") \/ live' = live
    BY <1>4 DEF DestroyContext
  <2>2. QED
    BY <2>1
<1>5. CASE DestroyMem
  <2>1. Lifecycle!Release("mem") \/ live' = live
    BY <1>5 DEF DestroyMem
  <2>2. QED
    BY <2>1
<1>6. QED
  BY <1>1, <1>2, <1>3, <1>4, <1>5

LEMMA StepImplements ==
  ASSUME ManagerInv, [Next]_vars
  PROVE  [Lifecycle!Next]_live
<1>1. CASE \E ok \in BOOLEAN :
             \/ InitializeMemory(ok) \/ InitializeContext(ok)
             \/ InitializeAudioDevice(ok)
             \/ InitializeRingBuffer(ok) \/ InitializeResampler(ok)
  BY <1>1, Acquires DEF Lifecycle!Next
<1>2. CASE \/ DestroyResampler \/ DestroyRing \/ DestroyDevice
           \/ DestroyContext \/ DestroyMem
  BY <1>2, Releases DEF Lifecycle!Next
<1>3. CASE \/ \E ok \in BOOLEAN : InitializeDeviceList(ok) \/ Start(ok)
           \/ \E id \in [Side -> Ids] : SelectDevices(id)
           \/ Stop \/ Destroy \/ DestroyList \/ UNCHANGED vars
  BY <1>3 DEF InitializeDeviceList, Start, SelectDevices, Stop, Destroy,
              DestroyList, vars
<1>4. QED
  BY <1>1, <1>2, <1>3 DEF Next

(* ImplementsLifecycle: the manager acquires and releases each resource    *)
(* once and in an order its dependencies allow, on every path of failure.  *)
THEOREM ManagerImplementsLifecycle ==
  ASSUME Careful PROVE Spec => ImplementsLifecycle
<1>1. Init => Lifecycle!Init
  BY DEF Init, Lifecycle!Init
<1>2. ManagerInv /\ [Next]_vars => [Lifecycle!Next]_live
  BY StepImplements
<1>3. QED
  BY <1>1, <1>2, ManagerInvariant, PTL DEF Spec, ImplementsLifecycle,
     Lifecycle!Spec
=============================================================================
