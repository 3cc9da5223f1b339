--------------------------- MODULE SequentialProofs ---------------------------
(***************************************************************************)
(* What clients that call in one thread are promised, whatever fails: the  *)
(* model backends, for any backends looked at and any implementations      *)
(* built in, and the staged managers.                                      *)
(***************************************************************************)
EXTENDS ModelBackends, StagedManagers, TLAPS

(***************************************************************************)
(* The model backends.  What the client was told says what is there: a     *)
(* state of the type named, a stream from a transcription to its result,   *)
(* unless it could not be made and was used all the same, and in unified   *)
(* the arguments.                                                          *)
(***************************************************************************)
NoStreamUsed == <<"transcribe", "noStream">> \in misuse

ToldTruly ==
  /\ version \in {"library", "unified"} /\ type \in Impl \union {"unset"}
  /\ told \in {"created", "transcribed"} => state = type /\ type \in Impl
  /\ stream = "open" => told = "transcribed" /\ Has[type].streams
  /\ told = "transcribed" /\ Has[type].streams =>
       \/ stream = "open"
       \/ version = "unified" /\ stream = "none" /\ NoStreamUsed
  /\ version = "unified" => args

(* Only whisper in unified keeps a pointer into the arguments.             *)
LEMMA Keeps ==
  ASSUME ToldTruly, type \in Impl
  PROVE  Has[type].language = "args" => version = "unified" /\ type = "whisper"
BY DEF ToldTruly, Impl, Has, Library, Unified, WhisperOfLibrary,
       ParakeetOfLibrary, SherpaOfLibrary, WhisperOfUnified, ParakeetOfUnified,
       SherpaOfUnified

LEMMA DispatchesNext ==
  ASSUME DispatchesToOwner, [BackendNext]_backendVars
  PROVE  DispatchesToOwner'
BY DEF DispatchesToOwner, BackendNext, backendVars, CreateRefused, CreateBackend,
       DropArguments, DestroyBackend, Transcribe, Result

LEMMA ToldNext ==
  ASSUME ToldTruly, [BackendNext]_backendVars
  PROVE  ToldTruly'
<1>1. CASE \/ CreateRefused \/ DropArguments \/ DestroyBackend
           \/ UNCHANGED backendVars
  BY <1>1 DEF ToldTruly, NoStreamUsed, CreateRefused, DropArguments,
              DestroyBackend, backendVars, Has
<1>2. ASSUME NEW t \in Impl, CreateBackend(t) PROVE ToldTruly'
  BY <1>2 DEF ToldTruly, NoStreamUsed, CreateBackend, Has
<1>3. ASSUME NEW ok \in BOOLEAN, Transcribe(ok) PROVE ToldTruly'
  BY <1>3 DEF ToldTruly, NoStreamUsed, Transcribe, When, Has
<1>4. CASE Result
  BY <1>4 DEF ToldTruly, NoStreamUsed, Result, When, Has
<1>5. QED
  BY <1>1, <1>2, <1>3, <1>4 DEF BackendNext

LEMMA UsesNext ==
  ASSUME ToldTruly, DispatchesToOwner, UsesWhatIsThere, [BackendNext]_backendVars
  PROVE  UsesWhatIsThere'
<1> USE DEF UsesWhatIsThere
<1>1. CASE CreateRefused \/ DropArguments \/ UNCHANGED backendVars
  BY <1>1 DEF CreateRefused, DropArguments, backendVars
<1>2. CASE DestroyBackend
  BY <1>2 DEF DestroyBackend, When, DispatchesToOwner, ToldTruly
<1>3. ASSUME NEW t \in Impl, CreateBackend(t) PROVE UsesWhatIsThere'
  BY <1>3 DEF CreateBackend
<1>4. ASSUME NEW ok \in BOOLEAN, Transcribe(ok) PROVE UsesWhatIsThere'
  <2>1. state = type /\ type \in Impl /\ stream # "open"
    BY <1>4 DEF Transcribe, ToldTruly
  <2>2. ~(Has[type].language = "args" /\ ~args)
    BY <2>1, Keeps DEF ToldTruly
  <2>3. QED
    BY <1>4, <2>1, <2>2 DEF Transcribe, When
<1>5. CASE Result
  <2>1. state = type /\ type \in Impl
    BY <1>5 DEF Result, ToldTruly
  <2>2. Has[type].streams =>
          \/ stream = "open"
          \/ version = "unified" /\ stream = "none" /\ NoStreamUsed
    BY <1>5 DEF Result, ToldTruly
  <2>3. QED
    BY <1>5, <2>1, <2>2 DEF Result, When, NoStreamUsed
<1>6. QED
  BY <1>1, <1>2, <1>3, <1>4, <1>5 DEF BackendNext

(* However a client calls create(), also when it fails or names another    *)
(* type than before, a state reaches only the functions that made it.      *)
THEOREM BackendsDispatchToOwner == BackendSpec => []DispatchesToOwner
<1>1. BackendInit => DispatchesToOwner
  BY DEF BackendInit, DispatchesToOwner
<1>2. QED
  BY <1>1, DispatchesNext, PTL DEF BackendSpec

(* Whatever a client calls, nothing is used that is not there but a stream *)
(* that could not be made: by the transcription that failed to make it,    *)
(* and in unified by the result asked for after it; and no stream is lost. *)
THEOREM BackendsUseWhatIsThere == BackendSpec => []UsesWhatIsThere
<1>1. BackendInit => DispatchesToOwner /\ ToldTruly /\ UsesWhatIsThere
  BY BackendAssumption DEF BackendInit, DispatchesToOwner, ToldTruly, UsesWhatIsThere
<1>2. ToldTruly /\ [BackendNext]_backendVars => ToldTruly'
  BY ToldNext
<1>3. ToldTruly /\ DispatchesToOwner /\ UsesWhatIsThere /\ [BackendNext]_backendVars
        => UsesWhatIsThere'
  BY UsesNext
<1>4. QED
  BY <1>1, <1>2, <1>3, DispatchesNext, PTL DEF BackendSpec

(***************************************************************************)
(* The managers.  What stands is what the calls so far set up, less what   *)
(* destroy() has torn down of it, but for what a manager forgets.          *)
(***************************************************************************)
TwoCalls == {"audio", "audio2", "audio3", "capture"}
OneCall  == {"audioAtOnce", "duplex"}
SetUpCalls == {"atOnce", "createContext", "select"}
TearDowns == {"destroy", "rollBack"}

SetBefore(stages, k) == UNION {stages[i].sets : i \in 1..(k - 1)}
AllOf(stages) == UNION {stages[i].sets : i \in DOMAIN stages}
Elements(d) == {d[i] : i \in DOMAIN d}
Order == Elements(M.destroy)
Torn == IF call \in TearDowns THEN {M.destroy[i] : i \in 1..(at - 1)} ELSE {}

(* What the calls set up: those before, and the running one so far.        *)
KnownSetUp(k) == CASE k = "context" -> AllOf(M.create)
                   [] k = "all" -> AllOf(M.atOnce) \union AllOf(M.create) \union AllOf(M.select)
                   [] OTHER -> {}
SetUp == CASE call = "idle" -> KnownSetUp(known)
           [] call = "select" -> KnownSetUp("context") \union SetBefore(Stages, at)
           [] OTHER -> SetBefore(Stages, at)

(* What may stand besides: audio3 frees only the block, a failed create()  *)
(* leaves the block and a list, and selectDevicesAndFinalize() of audio    *)
(* leaves the whole context.                                               *)
Rest ==
  CASE mgr = "audio3" -> Parts \ {"mem"}
    [] mgr = "audioAtOnce" -> IF broken /\ known = "nothing" THEN {"mem", "list"} ELSE {}
    [] mgr = "duplex" -> IF broken /\ known = "nothing" THEN {"mem"} ELSE {}
    [] mgr = "audio" -> IF block /\ call = "idle" /\ known = "nothing"
                        THEN KnownSetUp("context") ELSE {}
    [] OTHER -> {}

(* Where a call is, and what the client may know then.                     *)
CallInv ==
  /\ mgr \in OneCall \union TwoCalls
  /\ call \in {"idle"} \union SetUpCalls \union TearDowns
  /\ known \in {"nothing", "context", "all", "destroyed"}
  /\ at \in Nat
  /\ call = "idle" => at = 1
  /\ call \in SetUpCalls => at \in DOMAIN Stages /\ misused = {}
  /\ call \in TearDowns => at \in DOMAIN M.destroy
  /\ call = "atOnce" => mgr \in OneCall /\ known \in {"nothing", "destroyed"}
  /\ call = "createContext" => mgr \in TwoCalls /\ known \in {"nothing", "destroyed"}
  /\ call = "select" => known = "context"
  /\ known = "context" => mgr \in TwoCalls
  /\ call = "rollBack" => known = "nothing" /\ mgr \in TwoCalls
  /\ standing \subseteq Order /\ marked \subseteq Order \union {"all"}
  /\ block \in BOOLEAN /\ running \in BOOLEAN /\ broken \in BOOLEAN
  /\ misused \subseteq Parts /\ leaked \subseteq Parts

(* Between calls and while one sets up, what was set up stands, and little *)
(* else.                                                                   *)
StandsInv ==
  call \notin TearDowns => /\ SetUp \subseteq standing
                           /\ standing \subseteq SetUp \union Rest
                           /\ mgr = "audio" /\ Rest # {} => Rest \subseteq standing

(* The pointer is set while the block is there, and may dangle only in     *)
(* audio after a failed create().                                          *)
BlockInv ==
  /\ "mem" \in standing => block
  /\ block => "mem" \in standing \/ (mgr = "audioAtOnce" /\ broken)

(* The flags of the end and of the capture device.                         *)
MarkInv ==
  /\ "all" \in marked => known = "all" /\ call \in {"idle", "destroy"}
  /\ mgr = "capture" /\ call = "idle" /\ known \in {"nothing", "destroyed"} => marked = {}

(* The managers that may take for set up what is not.                      *)
Guesses == \/ mgr = "audioAtOnce" /\ broken
           \/ mgr = "duplex" /\ (broken \/ call = "atOnce")
           \/ mgr = "capture" /\ known # "all"

(* destroy() goes by all that stands and is still to be torn down, and     *)
(* where it does not guess by nothing else but the list.                   *)
BeliefInv ==
  /\ standing \intersect Torn \intersect Believed = {}
  /\ standing \intersect (IF mgr = "audio3" THEN {"mem"} ELSE Parts) \subseteq Believed
  /\ ~Guesses => (Believed \intersect Order) \ (Torn \union {"list"}) \subseteq standing

(* A device that runs was set up with its ring, and is torn down in order. *)
RunInv ==
  /\ running /\ mgr # "audio3" => known = "all" /\ call \in {"idle", "destroy"} /\ "device" \notin Torn
  /\ known = "all" /\ call = "destroy" /\ mgr # "audio3" => KnownSetUp("all") \ Torn \subseteq standing

(***************************************************************************)
(* What the tables say                                                     *)
(***************************************************************************)
(* The memory is set up first, a stage sets up what is not there yet, and  *)
(* what was set up before it knows the context when it needs it.           *)
StageOK(ss, k, order, before) ==
  /\ ss[k].sets \subseteq order /\ ss[k].undoes \subseteq order
  /\ ss[k].clears \subseteq ss[k].undoes
  /\ ss[k].sets \intersect (SetBefore(ss, k) \union before) = {}
  /\ ("mem" \in ss[k].sets) <=> (before = {} /\ k = 1)
  /\ before = {} /\ k > 1 => "mem" \in SetBefore(ss, k)
  /\ before # {} /\ "device" \in ss[k].sets => "context" \in before

ListOK(ss, order, before) ==
  /\ DOMAIN ss = 1..Len(ss) /\ Len(ss) \in Nat \ {0}
  /\ \A k \in DOMAIN ss : StageOK(ss, k, order, before)

DestroyOK(d) ==
  /\ DOMAIN d = 1..Len(d) /\ Len(d) \in Nat \ {0, 1}
  /\ d[Len(d)] = "mem" /\ \A i \in DOMAIN d : i # Len(d) => d[i] # "mem"
  /\ \A i, j \in DOMAIN d : d[i] = d[j] => i = j
  /\ Elements(d) \subseteq Parts

LEMMA Orders ==
  /\ DestroyOK(DestroyOfAudio) /\ DestroyOK(DestroyOfAudio2)
  /\ DestroyOK(DestroyOfAudio3) /\ DestroyOK(DestroyOfCapture)
  /\ DestroyOK(Duplex.destroy)
  /\ DestroyOfAudio[1] = "device" /\ Duplex.destroy[1] = "device"
<1> USE DEF DestroyOK, Elements, Parts
<1>1. DestroyOK(DestroyOfAudio) /\ DestroyOfAudio[1] = "device"
  BY DEF DestroyOfAudio
<1>2. DestroyOK(DestroyOfAudio2)
  BY DEF DestroyOfAudio2
<1>3. DestroyOK(DestroyOfAudio3)
  BY DEF DestroyOfAudio3
<1>4. DestroyOK(DestroyOfCapture)
  BY DEF DestroyOfCapture
<1>5. DestroyOK(Duplex.destroy) /\ Duplex.destroy[1] = "device"
  BY DEF Duplex
<1>6. QED
  BY <1>1, <1>2, <1>3, <1>4, <1>5

(* The lists of stages of the managers that set all up in one call, and    *)
(* what is left when a stage fails.                                        *)
LeftBy(ss, left) == \A k \in DOMAIN ss : SetBefore(ss, k) \ ss[k].undoes \subseteq left
UndoNone(ss) == \A k \in DOMAIN ss : ss[k].undoes = {}

LEMMA CreateOfAudioOK ==
  /\ ListOK(CreateOfAudio, Elements(DestroyOfAudio), {})
  /\ LeftBy(CreateOfAudio, {"mem", "list"})
  /\ {"mem", "context", "device", "ring", "list"} \subseteq AllOf(CreateOfAudio)
  /\ AllOf(CreateOfAudio) \subseteq Elements(DestroyOfAudio)
BY DEF ListOK, StageOK, LeftBy, SetBefore, AllOf, Elements, CreateOfAudio, DestroyOfAudio,
       SetsUp, Undoing

LEMMA CreateOfDuplexOK ==
  /\ ListOK(CreateOfDuplex, Elements(Duplex.destroy), {})
  /\ LeftBy(CreateOfDuplex, {"mem"})
  /\ \A k \in DOMAIN CreateOfDuplex : /\ "mem" \notin CreateOfDuplex[k].undoes
                                      /\ CreateOfDuplex[k].clears = {}
  /\ {"mem", "context", "device", "ring"} \subseteq AllOf(CreateOfDuplex)
  /\ AllOf(CreateOfDuplex) = Elements(Duplex.destroy)
<1> USE DEF ListOK, StageOK, LeftBy, SetBefore, AllOf, Elements, CreateOfDuplex, Duplex, SetsUp, Undoing
<1>1. ListOK(CreateOfDuplex, Elements(Duplex.destroy), {})
  OBVIOUS
<1>2. LeftBy(CreateOfDuplex, {"mem"})
  OBVIOUS
<1>3. \A k \in DOMAIN CreateOfDuplex : /\ "mem" \notin CreateOfDuplex[k].undoes
                                      /\ CreateOfDuplex[k].clears = {}
  OBVIOUS
<1>4. /\ {"mem", "context", "device", "ring"} \subseteq AllOf(CreateOfDuplex)
      /\ AllOf(CreateOfDuplex) = Elements(Duplex.destroy)
  OBVIOUS
<1>5. QED
  BY <1>1, <1>2, <1>3, <1>4

TwoListsOK(create, select, order) ==
  /\ ListOK(create, order, {}) /\ UndoNone(create)
  /\ ListOK(select, order, AllOf(create)) /\ UndoNone(select)
  /\ {"mem", "context", "list"} \subseteq AllOf(create)
  /\ {"device", "ring"} \subseteq AllOf(create) \union AllOf(select)
  /\ AllOf(create) \union AllOf(select) \subseteq order

LEMMA ListsOfAudioOK == /\ TwoListsOK(SetUpOfAudio, FinalOfAudio, Elements(DestroyOfAudio))
                        /\ Len(FinalOfAudio) = 1
BY DEF TwoListsOK, ListOK, StageOK, UndoNone, SetBefore, AllOf, Elements, SetUpOfAudio,
       FinalOfAudio, DestroyOfAudio, SetsUp, Undoing

LEMMA ListsOfAudio2OK == TwoListsOK(SetUpOfAudio2, FinalOfAudio2, Elements(DestroyOfAudio2))
BY DEF TwoListsOK, ListOK, StageOK, UndoNone, SetBefore, AllOf, Elements, SetUpOfAudio2,
       FinalOfAudio2, DestroyOfAudio2, SetsUp, Undoing

LEMMA ListsOfAudio3OK == TwoListsOK(SetUpOfAudio3, FinalOfAudio3, Elements(DestroyOfAudio3))
BY DEF TwoListsOK, ListOK, StageOK, UndoNone, SetBefore, AllOf, Elements, SetUpOfAudio3,
       FinalOfAudio3, DestroyOfAudio3, SetsUp, Surely, Undoing

LEMMA ListsOfCaptureOK ==
  /\ TwoListsOK(SetUpOfCapture, FinalOfCapture, Elements(DestroyOfCapture))
  /\ AllOf(SetUpOfCapture) \union AllOf(FinalOfCapture) = Elements(DestroyOfCapture)
BY DEF TwoListsOK, ListOK, StageOK, UndoNone, SetBefore, AllOf, Elements, SetUpOfCapture,
       FinalOfCapture, DestroyOfCapture, SetsUp, Undoing

(* The same of the manager used.                                           *)
LEMMA MOfOneCall ==
  /\ mgr = "audioAtOnce" =>
       /\ M.atOnce = CreateOfAudio /\ M.destroy = DestroyOfAudio /\ M.knows = "flags"
       /\ M.create = <<>> /\ M.select = <<>> /\ M.rollsBack = {}
  /\ mgr = "duplex" =>
       /\ M.atOnce = CreateOfDuplex /\ M.destroy = Duplex.destroy /\ M.knows = "pointer"
       /\ M.create = <<>> /\ M.select = <<>> /\ M.rollsBack = {}
BY DEF M, Managers, AudioAtOnce, Duplex

LEMMA MOfTwoCalls ==
  /\ mgr \in TwoCalls => M.atOnce = <<>>
  /\ mgr = "audio" =>
       /\ M.create = SetUpOfAudio /\ M.select = FinalOfAudio
       /\ M.destroy = DestroyOfAudio /\ M.knows = "flags"
       /\ M.rollsBack = {"createContext"}
  /\ mgr = "audio2" =>
       /\ M.create = SetUpOfAudio2 /\ M.select = FinalOfAudio2
       /\ M.destroy = DestroyOfAudio2 /\ M.knows = "flags"
       /\ M.rollsBack = {"createContext", "select"}
  /\ mgr = "audio3" =>
       /\ M.create = SetUpOfAudio3 /\ M.select = FinalOfAudio3
       /\ M.destroy = DestroyOfAudio3 /\ M.knows = "bool"
       /\ M.rollsBack = {"createContext", "select"}
  /\ mgr = "capture" =>
       /\ M.create = SetUpOfCapture /\ M.select = FinalOfCapture
       /\ M.destroy = DestroyOfCapture /\ M.knows = "mask"
       /\ M.rollsBack = {"createContext", "select"}
<1> USE DEF M, Managers, TwoCalls
<1>1. CASE mgr = "audio"
  BY <1>1 DEF Audio
<1>2. CASE mgr = "audio2"
  BY <1>2 DEF Audio2
<1>3. CASE mgr = "audio3"
  BY <1>3 DEF Audio3
<1>4. CASE mgr = "capture"
  BY <1>4 DEF Capture
<1>5. QED
  BY <1>1, <1>2, <1>3, <1>4

LEMMA DestroyFacts ==
  ASSUME mgr \in OneCall \union TwoCalls
  PROVE  /\ DestroyOK(M.destroy)
         /\ mgr \in {"audio", "audioAtOnce", "duplex"} => M.destroy[1] = "device"
BY MOfOneCall, MOfTwoCalls, Orders DEF OneCall, TwoCalls

LEMMA OneCallFacts ==
  ASSUME mgr \in OneCall
  PROVE  /\ M.create = <<>> /\ M.select = <<>> /\ M.rollsBack = {}
         /\ ListOK(M.atOnce, Order, {})
         /\ mgr = "audioAtOnce" => LeftBy(M.atOnce, {"mem", "list"})
         /\ mgr = "duplex" => /\ LeftBy(M.atOnce, {"mem"})
                              /\ \A k \in DOMAIN M.atOnce : /\ "mem" \notin M.atOnce[k].undoes
                                                            /\ M.atOnce[k].clears = {}
BY MOfOneCall, CreateOfAudioOK, CreateOfDuplexOK DEF OneCall, Order

LEMMA TwoCallFacts ==
  ASSUME mgr \in TwoCalls
  PROVE  /\ M.atOnce = <<>>
         /\ TwoListsOK(M.create, M.select, Order)
         /\ "createContext" \in M.rollsBack
         /\ ("select" \in M.rollsBack) <=> (mgr # "audio")
         /\ mgr = "audio" => Len(M.select) = 1
BY MOfTwoCalls, ListsOfAudioOK, ListsOfAudio2OK, ListsOfAudio3OK, ListsOfCaptureOK
   DEF TwoCalls, Order

LEMMA KnownFacts ==
  ASSUME mgr \in OneCall \union TwoCalls
  PROVE  /\ mgr \in OneCall => /\ KnownSetUp("context") = {}
                               /\ KnownSetUp("all") = AllOf(M.atOnce)
         /\ mgr \in TwoCalls => /\ KnownSetUp("context") = AllOf(M.create)
                                /\ KnownSetUp("all") = AllOf(M.create) \union AllOf(M.select)
                                /\ {"mem", "context", "list"} \subseteq KnownSetUp("context")
         /\ {"mem", "context", "device", "ring"} \subseteq KnownSetUp("all")
         /\ KnownSetUp("all") \subseteq Order
         /\ KnownSetUp("nothing") = {} /\ KnownSetUp("destroyed") = {}
         /\ mgr = "audioAtOnce" => "list" \in KnownSetUp("all")
         /\ mgr \in {"duplex", "capture"} => KnownSetUp("all") = Order
<1>1. AllOf(<<>>) = {}
  BY DEF AllOf
<1>2. CASE mgr \in OneCall
  BY <1>1, <1>2, MOfOneCall, CreateOfAudioOK, CreateOfDuplexOK
     DEF OneCall, TwoCalls, KnownSetUp, Order
<1>3. CASE mgr \in TwoCalls
  <2>1. /\ KnownSetUp("context") = AllOf(M.create)
        /\ KnownSetUp("all") = AllOf(M.create) \union AllOf(M.select)
        /\ KnownSetUp("nothing") = {} /\ KnownSetUp("destroyed") = {}
    BY <1>1, <1>3, TwoCallFacts DEF KnownSetUp
  <2>2. mgr = "capture" => AllOf(M.create) \union AllOf(M.select) = Order
    BY MOfTwoCalls, ListsOfCaptureOK DEF Order
  <2>3. QED
    BY <1>3, <2>1, <2>2, TwoCallFacts DEF OneCall, TwoCalls, TwoListsOK
<1>4. QED
  BY <1>2, <1>3

LEMMA Believing ==
  /\ mgr \in {"audioAtOnce", "audio", "audio2"} => Believed = marked
  /\ mgr = "audio3" => Believed = IF marked # {} THEN {"mem"} ELSE {}
  /\ mgr = "duplex" => Believed = IF block THEN Parts ELSE {}
  /\ mgr = "capture" => Believed = IF marked # {} THEN Parts \union {"all"} ELSE {}
BY MOfOneCall, MOfTwoCalls DEF Believed, TwoCalls

LEMMA BeforeFirst == ASSUME NEW ss PROVE SetBefore(ss, 1) = {}
BY DEF SetBefore

LEMMA OneMore ==
  ASSUME NEW ss, NEW k \in Nat \ {0}
  PROVE  SetBefore(ss, k + 1) = SetBefore(ss, k) \union ss[k].sets
<1>1. 1..(k + 1 - 1) = 1..(k - 1) \union {k}
  OBVIOUS
<1>2. QED
  BY <1>1 DEF SetBefore

LEMMA LastOfAll ==
  ASSUME NEW ss, DOMAIN ss = 1..Len(ss), Len(ss) \in Nat
  PROVE  SetBefore(ss, Len(ss) + 1) = AllOf(ss)
BY DEF SetBefore, AllOf

(***************************************************************************)
(* The steps                                                               *)
(***************************************************************************)
ManagerInv == CallInv /\ StandsInv /\ BlockInv /\ MarkInv /\ BeliefInv /\ RunInv

LEMMA Same ==
  ASSUME mgr' = mgr
  PROVE  M' = M /\ Order' = Order /\ \A k : KnownSetUp(k)' = KnownSetUp(k)
BY DEF M, Order, KnownSetUp

LEMMA BelievingNext ==
  ASSUME mgr' = mgr
  PROVE  /\ mgr \in {"audioAtOnce", "audio", "audio2"} => Believed' = marked'
         /\ mgr = "audio3" => Believed' = IF marked' # {} THEN {"mem"} ELSE {}
         /\ mgr = "duplex" => Believed' = IF block' THEN Parts ELSE {}
         /\ mgr = "capture" => Believed' = IF marked' # {} THEN Parts \union {"all"} ELSE {}
BY Same, MOfOneCall, MOfTwoCalls DEF Believed, TwoCalls

(* What stood when the running call began.                                 *)
Before == IF call = "select" THEN AllOf(M.create) ELSE {}

LEMMA StageFacts ==
  ASSUME CallInv, call \in SetUpCalls
  PROVE  /\ ListOK(Stages, Order, Before)
         /\ at \in 1..Len(Stages) /\ Len(Stages) \in Nat
         /\ SetUp = Before \union SetBefore(Stages, at)
         /\ mgr \in TwoCalls => UndoNone(Stages)
         /\ call = "atOnce" => Stages = M.atOnce /\ mgr \in OneCall
         /\ call = "createContext" => Stages = M.create /\ mgr \in TwoCalls
         /\ call = "select" => Stages = M.select /\ mgr \in TwoCalls
<1>1. CASE call = "atOnce"
  <2>1. Stages = M.atOnce /\ mgr \in OneCall /\ mgr \notin TwoCalls /\ Before = {}
    BY <1>1 DEF CallInv, Stages, OneCall, TwoCalls, Before
  <2>2. ListOK(Stages, Order, Before)
    BY <2>1, OneCallFacts
  <2>3. QED
    BY <1>1, <2>1, <2>2 DEF ListOK, CallInv, SetUpCalls, SetUp
<1>2. CASE call = "createContext"
  <2>1. Stages = M.create /\ mgr \in TwoCalls /\ Before = {}
    BY <1>2 DEF CallInv, Stages, Before
  <2>2. ListOK(Stages, Order, Before) /\ UndoNone(Stages)
    BY <2>1, TwoCallFacts DEF TwoListsOK
  <2>3. QED
    BY <1>2, <2>1, <2>2 DEF ListOK, CallInv, SetUpCalls, SetUp
<1>3. CASE call = "select"
  <2>1. Stages = M.select /\ mgr \in TwoCalls /\ Before = AllOf(M.create)
    BY <1>3 DEF CallInv, Stages, Before
  <2>2. ListOK(Stages, Order, Before) /\ UndoNone(Stages)
    BY <2>1, TwoCallFacts DEF TwoListsOK
  <2>3. SetUp = Before \union SetBefore(Stages, at)
    BY <1>3, <2>1, KnownFacts DEF SetUp
  <2>4. QED
    BY <1>3, <2>1, <2>2, <2>3 DEF ListOK, CallInv, SetUpCalls
<1>4. QED
  BY <1>1, <1>2, <1>3 DEF SetUpCalls

LEMMA CreateNext ==
  ASSUME ManagerInv, Create
  PROVE  ManagerInv'
<1> USE DEF ManagerInv
<1>1. /\ call = "idle" /\ misused = {} /\ call' = "atOnce" /\ at' = 1 /\ mgr' = mgr
      /\ known \in {"nothing", "destroyed"} /\ M.atOnce # <<>>
  BY DEF Create, Enter
<1>2. UNCHANGED <<mgr, known, standing, marked, block, running, broken, misused, leaked>>
  BY DEF Create
<1>3. mgr \in OneCall
  BY <1>1, TwoCallFacts DEF CallInv
<1>4. Stages' = M.atOnce /\ 1 \in DOMAIN M.atOnce
  BY <1>1, <1>3, Same, OneCallFacts DEF Stages, ListOK
<1>5. SetUp = {} /\ SetUp' = {} /\ Torn = {} /\ Torn' = {}
  BY <1>1, <1>2, <1>3, <1>4, KnownFacts, BeforeFirst DEF SetUp, Torn, TearDowns
<1>6. Believed' = Believed /\ Rest' = Rest /\ Order' = Order
  BY <1>1, <1>2, <1>3, Same DEF Believed, Rest, OneCall
<1>7. CallInv'
  BY <1>1, <1>2, <1>3, <1>4, <1>6, Same DEF CallInv, SetUpCalls, TearDowns, OneCall, TwoCalls
<1>8. StandsInv'
  BY <1>1, <1>2, <1>3, <1>5, <1>6 DEF StandsInv, TearDowns, OneCall
<1>9. BlockInv' /\ MarkInv'
  BY <1>1, <1>2, <1>3 DEF BlockInv, MarkInv, OneCall
<1>10. BeliefInv'
  BY <1>1, <1>2, <1>3, <1>5, <1>6 DEF BeliefInv, Guesses, OneCall
<1>11. RunInv'
  BY <1>1, <1>2 DEF RunInv
<1>12. QED
  BY <1>7, <1>8, <1>9, <1>10, <1>11

LEMMA CreateContextNext ==
  ASSUME ManagerInv, CreateContext
  PROVE  ManagerInv'
<1> USE DEF ManagerInv
<1>1. /\ call = "idle" /\ misused = {} /\ at' = 1 /\ mgr' = mgr
      /\ known \in {"nothing", "destroyed"} /\ M.create # <<>>
  BY DEF CreateContext, Enter
<1>2. UNCHANGED <<mgr, standing, marked, block, running, broken, misused, leaked>>
  BY DEF CreateContext
<1>3. mgr \in TwoCalls /\ mgr \notin OneCall
  BY <1>1, OneCallFacts DEF CallInv, OneCall, TwoCalls
<1>4. SetUp = {} /\ Torn = {} /\ Torn' = {}
  BY <1>1, <1>2, <1>3, KnownFacts DEF SetUp, Torn, TearDowns, CreateContext, Enter
<1>5. Believed' = Believed /\ Order' = Order /\ M' = M
  BY <1>1, <1>2, Same DEF Believed
<1>6. CASE block \/ "all" \in Believed
  <2>1. call' = "idle" /\ known' = "context"
    BY <1>6 DEF CreateContext, Enter
  <2>2. "all" \notin Believed
    BY <1>1, <1>3, Believing DEF MarkInv, TwoCalls, CallInv, TearDowns
  <2>3. "mem" \in standing
    BY <1>3, <1>6, <2>2 DEF BlockInv, TwoCalls
  <2>4. mgr = "audio" /\ standing = KnownSetUp("context")
    BY <1>1, <1>3, <1>4, <2>3 DEF StandsInv, TearDowns, Rest, TwoCalls, BlockInv
  <2>5. SetUp' = standing
    BY <1>3, <2>1, <2>4, <1>2, Same DEF SetUp
  <2>6. CallInv'
    BY <1>1, <1>2, <1>3, <1>5, <2>1 DEF CallInv, SetUpCalls, TearDowns, OneCall, TwoCalls
  <2>7. StandsInv'
    BY <1>2, <2>1, <2>4, <2>5 DEF StandsInv, Rest
  <2>8. BlockInv' /\ MarkInv'
    BY <1>1, <1>2, <2>1, <2>4 DEF BlockInv, MarkInv
  <2>9. BeliefInv'
    BY <1>1, <1>2, <1>4, <1>5, <2>1, <2>4 DEF BeliefInv, Guesses
  <2>10. RunInv'
    BY <1>1, <1>2, <2>1, <2>4 DEF RunInv
  <2>11. QED
    BY <2>6, <2>7, <2>8, <2>9, <2>10
<1>7. CASE ~(block \/ "all" \in Believed)
  <2>1. call' = "createContext" /\ known' = known
    BY <1>7 DEF CreateContext, Enter
  <2>2. Stages' = M.create /\ 1 \in DOMAIN M.create
    BY <1>3, <1>5, <2>1, TwoCallFacts DEF Stages, TwoListsOK, ListOK
  <2>3. SetUp' = {}
    BY <1>1, <2>1, <2>2, BeforeFirst DEF SetUp
  <2>4. CallInv'
    BY <1>1, <1>2, <1>3, <1>5, <2>1, <2>2 DEF CallInv, SetUpCalls, TearDowns, OneCall, TwoCalls
  <2>5. StandsInv'
    BY <1>1, <1>2, <1>3, <1>4, <1>7, <2>1, <2>3 DEF StandsInv, TearDowns, Rest, TwoCalls
  <2>6. BlockInv' /\ MarkInv'
    BY <1>1, <1>2, <2>1, <1>3 DEF BlockInv, MarkInv, TwoCalls
  <2>7. BeliefInv'
    BY <1>1, <1>2, <1>3, <1>4, <1>5, <2>1 DEF BeliefInv, Guesses, TwoCalls
  <2>8. RunInv'
    BY <1>1, <1>2, <2>1 DEF RunInv
  <2>9. QED
    BY <2>4, <2>5, <2>6, <2>7, <2>8
<1>8. QED
  BY <1>6, <1>7

LEMMA SelectNext ==
  ASSUME ManagerInv, Select
  PROVE  ManagerInv'
<1> USE DEF ManagerInv
<1>1. /\ call = "idle" /\ misused = {} /\ call' = "select" /\ at' = 1
      /\ known = "context" /\ known' = "context"
  BY DEF Select, Enter
<1>2. UNCHANGED <<mgr, standing, marked, block, running, broken, misused, leaked>>
  BY DEF Select
<1>3. mgr \in TwoCalls /\ mgr \notin OneCall
  BY <1>1 DEF CallInv, OneCall, TwoCalls
<1>4. Believed' = Believed /\ Order' = Order /\ M' = M
  BY <1>1, <1>2, Same DEF Believed
<1>5. Stages' = M.select /\ 1 \in DOMAIN M.select
  BY <1>1, <1>3, <1>4, TwoCallFacts DEF Stages, TwoListsOK, ListOK
<1>6. SetUp' = SetUp /\ Rest' = Rest /\ Torn = {} /\ Torn' = {}
  BY <1>1, <1>2, <1>3, <1>5, BeforeFirst, Same
     DEF SetUp, Rest, Torn, TearDowns, TwoCalls
<1>7. CallInv'
  BY <1>1, <1>2, <1>3, <1>4, <1>5 DEF CallInv, SetUpCalls, TearDowns, OneCall, TwoCalls
<1>8. StandsInv'
  BY <1>1, <1>2, <1>6 DEF StandsInv, TearDowns
<1>9. BlockInv' /\ MarkInv'
  BY <1>1, <1>2, <1>3 DEF BlockInv, MarkInv
<1>10. BeliefInv'
  BY <1>1, <1>2, <1>3, <1>4, <1>6 DEF BeliefInv, Guesses, TwoCalls
<1>11. RunInv'
  BY <1>1, <1>2 DEF RunInv
<1>12. QED
  BY <1>7, <1>8, <1>9, <1>10, <1>11

LEMMA OtherCallsNext ==
  ASSUME ManagerInv, StartDevice \/ StopDevice \/ DestroyManager \/ UNCHANGED managerVars
  PROVE  ManagerInv'
<1> USE DEF ManagerInv
<1>1. CASE StartDevice \/ StopDevice
  <2>1. /\ call = "idle" /\ misused = {} /\ call' = "idle" /\ at' = 1 /\ at = 1
        /\ known = "all" /\ known' = "all" /\ running' \in BOOLEAN
        /\ UNCHANGED <<mgr, standing, marked, block, broken, misused, leaked>>
    BY <1>1 DEF StartDevice, StopDevice, Enter, CallInv
  <2>2. M' = M /\ Order' = Order /\ Believed' = Believed
    BY <2>1, Same DEF Believed
  <2>3. /\ SetUp' = SetUp /\ Rest' = Rest /\ Torn' = {} /\ Torn = {}
    BY <2>1, Same DEF SetUp, Rest, Torn, TearDowns
  <2>4. CallInv'
    BY <2>1, <2>2 DEF CallInv, SetUpCalls, TearDowns
  <2>5. StandsInv' /\ BlockInv' /\ MarkInv' /\ BeliefInv' /\ RunInv'
    BY <2>1, <2>2, <2>3 DEF StandsInv, BlockInv, MarkInv, BeliefInv, Guesses, RunInv, TearDowns
  <2>6. QED
    BY <2>4, <2>5
<1>2. CASE DestroyManager
  <2>1. /\ call = "idle" /\ misused = {} /\ call' = "destroy" /\ at' = 1
        /\ UNCHANGED <<mgr, known, standing, marked, block, running, broken, misused, leaked>>
    BY <1>2 DEF DestroyManager, Enter
  <2>2. M' = M /\ Order' = Order /\ Believed' = Believed
    BY <2>1, Same DEF Believed
  <2>3. Torn' = {} /\ Torn = {} /\ 1 \in DOMAIN M.destroy
    BY <2>1, <2>2, DestroyFacts DEF Torn, TearDowns, CallInv, DestroyOK
  <2>4. CallInv'
    BY <2>1, <2>2, <2>3 DEF CallInv, SetUpCalls, TearDowns
  <2>5. StandsInv' /\ BlockInv' /\ MarkInv'
    BY <2>1 DEF StandsInv, BlockInv, MarkInv, TearDowns
  <2>6. BeliefInv'
    BY <2>1, <2>2, <2>3 DEF BeliefInv, Guesses
  <2>7. known = "all" => KnownSetUp("all") \subseteq standing
    BY <2>1 DEF StandsInv, SetUp, TearDowns
  <2>8. RunInv'
    BY <2>1, <2>3, <2>7, Same DEF RunInv
  <2>9. QED
    BY <2>4, <2>5, <2>6, <2>8
<1>3. CASE UNCHANGED managerVars
  <2>1. M' = M /\ Order' = Order /\ Believed' = Believed /\ Stages' = Stages
    BY <1>3, Same DEF Believed, Stages, managerVars
  <2>2. SetUp' = SetUp /\ Rest' = Rest /\ Torn' = Torn
    BY <1>3, <2>1, Same DEF SetUp, Rest, Torn, managerVars
  <2>3. QED
    BY <1>3, <2>1, <2>2, Same DEF CallInv, StandsInv, BlockInv, MarkInv, BeliefInv,
       Guesses, RunInv, managerVars
<1>4. QED
  BY <1>1, <1>2, <1>3

LEMMA TearDownNext ==
  ASSUME ManagerInv, TearDownPart
  PROVE  ManagerInv'
<1> USE DEF ManagerInv
<1> DEFINE gone == {M.destroy[at]} \intersect Believed
           end  == at = Len(M.destroy)
<1>1. /\ call \in TearDowns
      /\ standing' = standing \ gone
      /\ misused' = misused \union ((gone \ standing) \ {"list"})
      /\ running' = (running /\ "device" \notin gone)
      /\ block' = (block /\ "mem" \notin gone)
      /\ marked' = IF end THEN {} ELSE marked
      /\ call' = IF end THEN "idle" ELSE call
      /\ at' = IF end THEN 1 ELSE at + 1
      /\ known' = IF end THEN "destroyed" ELSE known
      /\ UNCHANGED <<mgr, broken, leaked>>
  BY DEF TearDownPart, TearDowns
<1>2. DestroyOK(M.destroy) /\ mgr \in OneCall \union TwoCalls
  BY DestroyFacts DEF CallInv
<1>3. at \in 1..Len(M.destroy) /\ Len(M.destroy) \in Nat \ {0, 1} /\ DOMAIN M.destroy = 1..Len(M.destroy)
  BY <1>1, <1>2 DEF DestroyOK, CallInv
<1>4. M.destroy[at] \in Order /\ Order \subseteq Parts
  BY <1>2, <1>3 DEF DestroyOK, Order, Elements
<1>5. ("mem" = M.destroy[at]) <=> end
  BY <1>2, <1>3 DEF DestroyOK
<1>6. Torn = {M.destroy[i] : i \in 1..(at - 1)}
  BY <1>1 DEF Torn
<1>7. M' = M /\ Order' = Order
  BY <1>1, Same
<1>8. ~end => Torn' = Torn \union {M.destroy[at]}
  <2> SUFFICES ASSUME ~end PROVE Torn' = Torn \union {M.destroy[at]}
    OBVIOUS
  <2>1. Torn' = {M.destroy[i] : i \in 1..at}
    BY <1>1, <1>3, <1>7 DEF Torn
  <2>2. 1..at = 1..(at - 1) \union {at}
    BY <1>3
  <2>3. QED
    BY <1>6, <2>1, <2>2
<1>9. end => Order = Torn \union {M.destroy[at]}
  BY <1>3, <1>6 DEF Order, Elements
<1>10. ~end => Believed' = Believed
  BY <1>1, <1>2, <1>5, <1>7 DEF Believed
<1>11. CASE ~end
  <2>1. CallInv'
    BY <1>1, <1>3, <1>4, <1>7, <1>11 DEF CallInv, SetUpCalls, TearDowns
  <2>2. StandsInv' /\ MarkInv'
    BY <1>1, <1>11 DEF StandsInv, MarkInv, TearDowns
  <2>3. BlockInv'
    BY <1>1, <1>5, <1>11 DEF BlockInv
  <2>4. BeliefInv'
    BY <1>1, <1>7, <1>8, <1>10, <1>11 DEF BeliefInv, Guesses
  <2>5. running /\ mgr # "audio3" => "device" \in Believed
    BY <1>1, <1>2, <1>4, KnownFacts DEF RunInv, BeliefInv, TearDowns
  <2>6. RunInv'
    <3>1. running' /\ mgr # "audio3" => /\ known = "all" /\ call = "destroy"
                                       /\ "device" \notin Torn'
      BY <1>1, <1>8, <1>11, <2>5 DEF RunInv, TearDowns
    <3>2. known = "all" /\ call = "destroy" /\ mgr # "audio3" =>
            KnownSetUp("all") \ Torn' \subseteq standing'
      BY <1>1, <1>8, <1>11 DEF RunInv
    <3>3. QED
      BY <1>1, <1>11, <3>1, <3>2, Same DEF RunInv
  <2>7. QED
    BY <2>1, <2>2, <2>3, <2>4, <2>6
<1>12. CASE end
  <2>1. standing' \subseteq IF mgr = "audio3" THEN Parts \ {"mem"} ELSE {}
    BY <1>1, <1>4, <1>5, <1>9, <1>12 DEF BeliefInv, CallInv
  <2>2. CallInv'
    BY <1>1, <1>3, <1>4, <1>7, <1>12 DEF CallInv, SetUpCalls, TearDowns
  <2>3. StandsInv'
    BY <1>1, <1>12, <2>1, Same, KnownFacts, <1>2 DEF StandsInv, SetUp, Rest
  <2>4. MarkInv'
    BY <1>1, <1>12 DEF MarkInv
  <2>5. BlockInv'
    BY <1>1, <1>5, <1>12, <2>1 DEF BlockInv
  <2>6. Believed' = {} /\ Torn' = {}
    <3>1. mgr = "duplex" => ~block'
      BY <1>1, <1>4, <1>5, <1>12, Believing
    <3>2. QED
      BY <1>1, <1>2, <1>12, <3>1, BelievingNext DEF Torn, TearDowns, OneCall, TwoCalls
  <2>7. BeliefInv'
    BY <2>1, <2>6, <1>1 DEF BeliefInv
  <2>8. RunInv'
    <3>1. running' /\ mgr # "audio3" => FALSE
      BY <1>1, <1>2, <1>5, <1>9, <1>12, KnownFacts DEF RunInv
    <3>2. QED
      BY <1>1, <1>12, <3>1 DEF RunInv
  <2>9. QED
    BY <2>2, <2>3, <2>4, <2>5, <2>7, <2>8
<1>13. QED
  BY <1>11, <1>12

LEMMA StageSucceedsNext ==
  ASSUME ManagerInv, StageSucceeds
  PROVE  /\ ManagerInv' /\ misused' = {}
         /\ leaked' \subseteq leaked \union (Rest \ {"list"})
<1> USE DEF ManagerInv
<1> DEFINE s == Stages[at]
<1>1. call \in SetUpCalls
  BY DEF StageSucceeds, Stages, SetUpCalls
<1>2. /\ standing' = standing \union s.sets
      /\ leaked' = leaked \union ((s.sets \intersect standing) \ {"list"})
      /\ marked' = marked \union s.sets
                   \union (IF LastStage /\ call # "createContext" THEN {"all"} ELSE {})
      /\ block' = (block \/ "mem" \in s.sets)
      /\ misused' = IF call = "select" /\ "device" \in s.sets
                    THEN misused \union ({"context"} \ standing) ELSE misused
      /\ LastStage => /\ call' = "idle" /\ at' = 1
                      /\ known' = IF call = "createContext" THEN "context" ELSE "all"
      /\ ~LastStage => at' = at + 1 /\ UNCHANGED <<call, known>>
      /\ UNCHANGED <<mgr, running, broken>>
  BY DEF StageSucceeds
<1>3. /\ StageOK(Stages, at, Order, Before)
      /\ at \in 1..Len(Stages) /\ Len(Stages) \in Nat /\ DOMAIN Stages = 1..Len(Stages)
      /\ SetUp = Before \union SetBefore(Stages, at)
      /\ mgr \in OneCall \union TwoCalls /\ misused = {}
  BY <1>1, StageFacts DEF ListOK, CallInv
<1>4. M' = M /\ Order' = Order /\ Order \subseteq Parts
  BY <1>2, <1>3, Same, DestroyFacts DEF DestroyOK, Order
<1>5. SetUp \union s.sets = Before \union SetBefore(Stages, at + 1)
  BY <1>3, OneMore
<1>6. /\ call = "select" => "context" \in SetUp /\ "mem" \in SetUp /\ Before # {}
      /\ call # "select" => Before = {}
  BY <1>1, <1>3, StageFacts, KnownFacts DEF Before
<1>7. "mem" \in SetUp \union s.sets
  BY <1>3, <1>6 DEF StageOK
<1>8. SetUp \subseteq standing /\ standing \subseteq SetUp \union Rest
  BY <1>1 DEF StandsInv, SetUpCalls, TearDowns
<1>9. misused' = {}
  BY <1>2, <1>3, <1>6, <1>8 DEF StageOK, Before
<1>10. Torn = {} /\ Torn' = {}
  BY <1>1, <1>2 DEF Torn, TearDowns, SetUpCalls
<1>11. "all" \notin marked /\ "all" \notin Order
  BY <1>1, <1>4 DEF MarkInv, SetUpCalls, Parts
<1>12. BlockInv'
  BY <1>2 DEF BlockInv
<1>13. ASSUME ~LastStage PROVE ManagerInv'
  <2>1. Stages' = Stages /\ SetUp' = SetUp \union s.sets
    <3>1. Stages' = Stages /\ Before' = Before
      BY <1>2, <1>4, <1>13 DEF Stages, Before
    <3>2. SetUp' = Before' \union SetBefore(Stages', at')
      BY <1>1, <1>2, <1>13, <3>1, <1>3, Same, KnownFacts, StageFacts
         DEF SetUp, Before, SetUpCalls
    <3>3. QED
      BY <1>2, <1>5, <1>13, <3>1, <3>2
  <2>2. CallInv'
    <3>1. at' \in DOMAIN Stages'
      BY <1>2, <1>3, <1>13, <2>1 DEF LastStage
    <3>2. standing' \subseteq Order' /\ marked' \subseteq Order' \union {"all"}
      BY <1>2, <1>3, <1>4, <1>13 DEF CallInv, StageOK
    <3>3. leaked' \subseteq Parts
      BY <1>2, <1>3, <1>4 DEF CallInv, StageOK
    <3>4. QED
      BY <1>1, <1>2, <1>3, <1>4, <1>9, <1>13, <3>1, <3>2, <3>3
         DEF CallInv, SetUpCalls, TearDowns
  <2>3. Rest' = Rest
    BY <1>1, <1>2, <1>3, <1>13 DEF Rest, SetUpCalls
  <2>4. StandsInv'
    BY <1>1, <1>2, <1>8, <1>13, <2>1, <2>3 DEF StandsInv, Rest, SetUpCalls
  <2>5. MarkInv'
    BY <1>1, <1>2, <1>3, <1>11, <1>13 DEF MarkInv, SetUpCalls, StageOK
  <2>6. BeliefInv'
    <3>1. CASE mgr \in {"audioAtOnce", "audio", "audio2"}
      <4>1. Believed = marked /\ Believed' = marked' /\ Guesses' = Guesses
        BY <1>2, <1>3, <3>1, Believing, BelievingNext DEF Guesses
      <4>2. standing' \intersect Parts \subseteq marked'
        BY <1>2, <3>1, <4>1 DEF BeliefInv
      <4>3. ~Guesses => (marked' \intersect Order) \ {"list"} \subseteq standing'
        BY <1>2, <1>10, <1>13, <4>1 DEF BeliefInv
      <4>4. QED
        BY <1>2, <1>4, <1>10, <3>1, <4>1, <4>2, <4>3 DEF BeliefInv
    <3>2. CASE mgr = "audio3"
      BY <1>2, <1>7, <1>8, <1>10, <1>4, <3>2, Believing, BelievingNext DEF BeliefInv, Guesses
    <3>3. CASE mgr = "duplex"
      <4>1. call = "atOnce" /\ block'
        BY <1>1, <1>2, <1>3, <1>7, <1>8, <1>12, <3>3
           DEF CallInv, SetUpCalls, OneCall, TwoCalls, BlockInv
      <4>2. QED
        BY <1>2, <1>10, <1>13, <2>2, <1>4, <3>3, <4>1, BelievingNext DEF BeliefInv, Guesses, CallInv
    <3>4. CASE mgr = "capture"
      <4>1. known' # "all" /\ (standing' # {} => marked' # {})
        BY <1>1, <1>2, <1>13, <3>4, Believing, <1>4 DEF CallInv, SetUpCalls, BeliefInv
      <4>2. QED
        BY <1>2, <1>10, <1>4, <2>2, <3>4, <4>1, BelievingNext DEF BeliefInv, Guesses, CallInv
    <3>5. QED
      BY <1>3, <3>1, <3>2, <3>3, <3>4 DEF OneCall, TwoCalls
  <2>7. RunInv'
    BY <1>1, <1>2, <1>13 DEF RunInv, SetUpCalls, CallInv
  <2>8. QED
    BY <1>12, <2>2, <2>4, <2>5, <2>6, <2>7
<1>14. ASSUME LastStage PROVE ManagerInv'
  <2>1. SetUp' = SetUp \union s.sets
    <3>1. SetUp \union s.sets = Before \union AllOf(Stages)
      BY <1>3, <1>5, <1>14, LastOfAll DEF LastStage
    <3>2. KnownSetUp(known') = Before \union AllOf(Stages)
      BY <1>1, <1>2, <1>14, StageFacts, KnownFacts, <1>3
         DEF Before, SetUpCalls, OneCall, TwoCalls
    <3>3. QED
      BY <1>2, <1>14, <3>1, <3>2, Same DEF SetUp
  <2>2. CallInv'
    <3>1. standing' \subseteq Order' /\ marked' \subseteq Order' \union {"all"}
      BY <1>2, <1>3, <1>4, <1>14 DEF CallInv, StageOK
    <3>2. leaked' \subseteq Parts
      BY <1>2, <1>3, <1>4 DEF CallInv, StageOK
    <3>3. QED
      BY <1>1, <1>2, <1>3, <1>4, <1>9, <1>14, <3>1, <3>2, StageFacts
         DEF CallInv, SetUpCalls, TearDowns
  <2>3. StandsInv'
    <3>1. mgr # "audio3" => Rest \subseteq SetUp'
      BY <1>1, <1>2, <1>3, <1>7, <1>14, <2>1, KnownFacts, Same, StageFacts
         DEF Rest, SetUp, SetUpCalls, OneCall, TwoCalls
    <3>2. (mgr = "audio3" => Rest' = Rest) /\ (mgr = "audio" => Rest' = {})
      BY <1>2, <1>14 DEF Rest
    <3>3. QED
      BY <1>2, <1>8, <2>1, <3>1, <3>2 DEF StandsInv
  <2>4. MarkInv'
    BY <1>1, <1>2, <1>3, <1>11, <1>14 DEF MarkInv, SetUpCalls, StageOK
  <2>5. BeliefInv'
    <3>1. CASE mgr \in {"audioAtOnce", "audio", "audio2"}
      <4>1. Believed = marked /\ Believed' = marked' /\ Guesses' = Guesses
        BY <1>2, <1>3, <3>1, Believing, BelievingNext DEF Guesses
      <4>2. marked' \intersect Order = (marked \union s.sets) \intersect Order
        BY <1>2, <1>11
      <4>3. standing' \intersect Parts \subseteq marked'
        BY <1>2, <3>1, <4>1 DEF BeliefInv
      <4>4. ~Guesses => (marked' \intersect Order) \ {"list"} \subseteq standing'
        BY <1>2, <1>10, <4>1, <4>2 DEF BeliefInv
      <4>5. QED
        BY <1>2, <1>4, <1>10, <3>1, <4>1, <4>3, <4>4 DEF BeliefInv
    <3>2. CASE mgr = "audio3"
      BY <1>2, <1>7, <1>8, <1>10, <1>4, <3>2, Believing, BelievingNext DEF BeliefInv, Guesses
    <3>3. CASE mgr = "duplex"
      <4>1. known' = "all" /\ block'
        BY <1>1, <1>2, <1>3, <1>7, <1>8, <1>12, <1>14, <3>3
           DEF CallInv, SetUpCalls, OneCall, TwoCalls, BlockInv
      <4>2. Order \subseteq standing'
        BY <1>2, <1>3, <1>8, <1>14, <2>1, <3>3, <4>1, KnownFacts, Same DEF SetUp
      <4>3. QED
        BY <1>2, <1>10, <2>2, <1>4, <3>3, <4>1, <4>2, BelievingNext DEF BeliefInv, CallInv
    <3>4. CASE mgr = "capture"
      <4>1. standing' # {} => marked' # {}
        BY <1>1, <1>2, <3>4, Believing, <1>4 DEF CallInv, SetUpCalls, BeliefInv
      <4>2. known' = "all" => Order \subseteq standing'
        BY <1>2, <1>3, <1>8, <1>14, <2>1, <3>4, KnownFacts, Same DEF SetUp
      <4>3. QED
        BY <1>2, <1>10, <1>4, <2>2, <3>4, <4>1, <4>2, BelievingNext DEF BeliefInv, Guesses, CallInv
    <3>5. QED
      BY <1>3, <3>1, <3>2, <3>3, <3>4 DEF OneCall, TwoCalls
  <2>6. RunInv'
    BY <1>1, <1>2, <1>14 DEF RunInv, SetUpCalls, CallInv
  <2>7. QED
    BY <1>12, <2>2, <2>3, <2>4, <2>5, <2>6
<1>15. leaked' \subseteq leaked \union (Rest \ {"list"})
  BY <1>2, <1>3, <1>8 DEF StageOK
<1>16. QED
  BY <1>9, <1>13, <1>14, <1>15

LEMMA StageFailsNext ==
  ASSUME ManagerInv, StageFails
  PROVE  /\ ManagerInv' /\ misused' = {}
         /\ leaked' \subseteq leaked \union (Rest \ {"list"})
<1> USE DEF ManagerInv
<1> DEFINE s    == Stages[at]
           freed == s.sets \intersect standing \intersect {"mem"}
<1>1. call \in SetUpCalls
  BY DEF StageFails, Stages, SetUpCalls
<1>2. /\ standing' = standing \ (s.undoes \union freed)
      /\ leaked' = leaked \union freed
      /\ marked' = marked \ s.clears
      /\ block' = (block /\ "mem" \notin s.sets)
      /\ call' = IF call \in M.rollsBack THEN "rollBack" ELSE "idle"
      /\ broken' = (broken \/ standing # {})
      /\ at' = 1 /\ known' = "nothing"
      /\ UNCHANGED <<mgr, running, misused>>
  BY DEF StageFails
<1>3. /\ StageOK(Stages, at, Order, Before)
      /\ at \in 1..Len(Stages) /\ Len(Stages) \in Nat /\ DOMAIN Stages = 1..Len(Stages)
      /\ SetUp = Before \union SetBefore(Stages, at)
      /\ mgr \in OneCall \union TwoCalls /\ misused = {}
  BY <1>1, StageFacts DEF ListOK, CallInv
<1>4. M' = M /\ Order' = Order /\ Order \subseteq Parts /\ 1 \in DOMAIN M.destroy
  BY <1>2, <1>3, Same, DestroyFacts DEF DestroyOK, Order
<1>5. SetUp \subseteq standing /\ standing \subseteq SetUp \union Rest
  BY <1>1 DEF StandsInv, SetUpCalls, TearDowns
<1>6. Torn = {} /\ Torn' = {}
  BY <1>1, <1>2 DEF Torn, TearDowns, SetUpCalls
<1>7. mgr \in TwoCalls => s.undoes = {} /\ s.clears = {} /\ freed = {}
  <2> SUFFICES ASSUME mgr \in TwoCalls
               PROVE  s.undoes = {} /\ s.clears = {} /\ freed = {}
    OBVIOUS
  <2>1. s.undoes = {} /\ s.clears = {}
    BY <1>1, <1>3, StageFacts DEF UndoNone, StageOK
  <2>2. "mem" \notin Rest
    BY <1>1 DEF Rest, TwoCalls, SetUpCalls
  <2>3. QED
    BY <1>3, <1>5, <2>1, <2>2 DEF StageOK
<1>8. mgr = "duplex" => "mem" \notin s.undoes /\ s.clears = {}
  BY <1>1, <1>3, StageFacts, OneCallFacts DEF OneCall, TwoCalls, SetUpCalls
<1>9. CallInv'
  <2>1. call \in M.rollsBack => mgr \in TwoCalls
    BY <1>3, OneCallFacts
  <2>2. freed \subseteq Parts
    BY <1>3, <1>4 DEF StageOK
  <2>3. QED
    BY <1>1, <1>2, <1>3, <1>4, <2>1, <2>2 DEF CallInv, SetUpCalls, TearDowns
<1>10. BlockInv'
  BY <1>2, <1>3, <1>7, <1>8 DEF BlockInv, OneCall, TwoCalls
<1>11. MarkInv'
  <2>1. mgr = "capture" => call' = "rollBack"
    BY <1>1, <1>2, <1>3, StageFacts, TwoCallFacts DEF OneCall, TwoCalls, SetUpCalls
  <2>2. QED
    BY <1>1, <1>2, <2>1 DEF MarkInv, SetUpCalls
<1>12. mgr \in OneCall =>
         /\ call' = "idle"
         /\ standing' \subseteq IF standing = {} THEN {}
                                ELSE IF mgr = "audioAtOnce" THEN {"mem", "list"} ELSE {"mem"}
  <2> SUFFICES ASSUME mgr \in OneCall
               PROVE  /\ call' = "idle"
                      /\ standing' \subseteq IF standing = {} THEN {}
                                ELSE IF mgr = "audioAtOnce" THEN {"mem", "list"} ELSE {"mem"}
    OBVIOUS
  <2>1. call = "atOnce" /\ Stages = M.atOnce /\ Before = {}
    BY <1>1, StageFacts DEF OneCall, TwoCalls, SetUpCalls, Before
  <2>2. Rest \subseteq IF mgr = "audioAtOnce" THEN {"mem", "list"} ELSE {"mem"}
    BY DEF Rest, OneCall
  <2>3. SetBefore(Stages, at) \ s.undoes
          \subseteq IF mgr = "audioAtOnce" THEN {"mem", "list"} ELSE {"mem"}
    BY <1>3, <2>1, OneCallFacts DEF LeftBy, OneCall
  <2>4. QED
    BY <1>2, <1>3, <1>5, <2>1, <2>2, <2>3, OneCallFacts
<1>13. StandsInv'
  <2>1. SetUp' = IF call' = "idle" THEN {} ELSE SetUp'
    BY <1>2, <1>3, Same, KnownFacts DEF SetUp
  <2>2. CASE mgr \in OneCall
    BY <1>2, <1>12, <2>1, <2>2 DEF StandsInv, Rest, OneCall
  <2>3. CASE mgr \in TwoCalls /\ call' = "idle"
    <3>1. mgr = "audio" /\ call = "select" /\ Before # {} /\ at = 1 /\ Before = KnownSetUp("context")
          /\ "mem" \in Before
      <4>1. mgr \notin OneCall /\ call \notin M.rollsBack
        BY <1>2, <2>3 DEF OneCall, TwoCalls
      <4>2. call = "select" /\ mgr = "audio"
        BY <1>1, <2>3, <4>1, StageFacts, TwoCallFacts DEF SetUpCalls
      <4>3. Stages = M.select /\ Len(M.select) = 1 /\ Before = AllOf(M.create)
        BY <2>3, <4>2, StageFacts, TwoCallFacts, <1>1 DEF Before
      <4>4. AllOf(M.create) = KnownSetUp("context") /\ "mem" \in KnownSetUp("context")
        BY <1>3, <2>3, KnownFacts
      <4>5. QED
        BY <1>3, <4>2, <4>3, <4>4
    <3>2. standing = KnownSetUp("context") /\ standing' = standing
      <4>1. Rest = {} /\ SetBefore(Stages, at) = {}
        BY <3>1, BeforeFirst DEF Rest
      <4>2. QED
        BY <1>2, <1>3, <1>5, <1>7, <2>3, <3>1, <4>1
    <3>3. block'
      BY <1>2, <1>3, <3>1, <3>2 DEF BlockInv, StageOK
    <3>4. Rest' = KnownSetUp("context")
      BY <1>2, <2>3, <3>1, <3>3, Same DEF Rest
    <3>5. QED
      BY <1>2, <2>1, <2>3, <3>2, <3>4 DEF StandsInv
  <2>4. CASE call' # "idle"
    BY <1>2, <2>4 DEF StandsInv, TearDowns
  <2>5. QED
    BY <1>3, <2>2, <2>3, <2>4
<1>14. BeliefInv'
  <2>1. CASE mgr = "audioAtOnce"
    <3>1. standing' \intersect Parts \subseteq marked'
      BY <1>2, <1>3, <2>1, Believing DEF BeliefInv, StageOK
    <3>2. ~Guesses' => (marked' \intersect Order) \ {"list"} \subseteq standing'
      BY <1>2, <1>6, <2>1, Believing DEF BeliefInv, Guesses
    <3>3. QED
      BY <1>2, <1>4, <1>6, <2>1, <3>1, <3>2, BelievingNext DEF BeliefInv
  <2>2. CASE mgr \in {"audio", "audio2"}
    BY <1>2, <1>4, <1>6, <1>7, <2>2, Believing, BelievingNext DEF BeliefInv, Guesses, TwoCalls
  <2>3. CASE mgr = "audio3"
    BY <1>2, <1>4, <1>6, <1>7, <2>3, Believing, BelievingNext DEF BeliefInv, Guesses, TwoCalls
  <2>4. CASE mgr = "duplex"
    <3>1. standing' # {} => "mem" \in standing'
      BY <1>12, <2>4 DEF OneCall
    <3>2. ~Guesses' => standing' = {} /\ ~block'
      BY <1>2, <1>10, <1>12, <2>4 DEF Guesses, OneCall, BlockInv
    <3>3. QED
      BY <1>2, <1>6, <1>10, <2>4, <3>1, <3>2, BelievingNext, <1>4, <1>9
         DEF BeliefInv, BlockInv, CallInv
  <2>5. CASE mgr = "capture"
    BY <1>2, <1>4, <1>6, <1>7, <1>9, <2>5, Believing, BelievingNext
       DEF BeliefInv, Guesses, TwoCalls, CallInv
  <2>6. QED
    BY <1>3, <2>1, <2>2, <2>3, <2>4, <2>5 DEF OneCall, TwoCalls
<1>15. RunInv'
  BY <1>1, <1>2 DEF RunInv, SetUpCalls
<1>16. leaked' \subseteq leaked \union (Rest \ {"list"})
  BY <1>2, <1>3, <1>5 DEF StageOK
<1>17. QED
  BY <1>2, <1>3, <1>9, <1>10, <1>11, <1>13, <1>14, <1>15, <1>16

LEMMA ManagerInvInit == ManagerInit => ManagerInv
<1> SUFFICES ASSUME ManagerInit PROVE ManagerInv
  OBVIOUS
<1> USE DEF ManagerInit
<1>1. mgr \in OneCall \union TwoCalls
  BY DEF Managers, OneCall, TwoCalls
<1>2. SetUp = {} /\ Torn = {}
  BY <1>1, KnownFacts DEF SetUp, Torn, TearDowns
<1>3. Believed = {}
  BY <1>1, Believing DEF OneCall, TwoCalls
<1>4. CallInv
  BY <1>1 DEF CallInv, SetUpCalls, TearDowns
<1>5. StandsInv
  BY <1>2 DEF StandsInv, Rest
<1>6. QED
  BY <1>2, <1>3, <1>4, <1>5 DEF ManagerInv, BlockInv, MarkInv, BeliefInv, RunInv

LEMMA ManagerInvNext == ManagerInv /\ [ManagerNext]_managerVars => ManagerInv'
BY CreateNext, CreateContextNext, SelectNext, OtherCallsNext, TearDownNext,
   StageSucceedsNext, StageFailsNext DEF ManagerNext

(* Whatever fails and in whatever order the calls come, destroy() leaves   *)
(* nothing set up, but for what audio3 forgets and the pointer of audio.   *)
THEOREM ManagersLeaveNothing == ManagerSpec => []DestroyLeavesNothing
<1>1. ManagerInv => DestroyLeavesNothing
  <2> SUFFICES ASSUME ManagerInv, known = "destroyed", call = "idle"
               PROVE  /\ standing \subseteq (IF mgr = "audio3" THEN Parts \ {"mem"} ELSE {})
                      /\ block => (mgr = "audioAtOnce" /\ broken)
    BY DEF DestroyLeavesNothing
  <2>1. standing \subseteq Rest
    BY KnownFacts DEF ManagerInv, CallInv, StandsInv, SetUp, TearDowns
  <2>2. Rest = IF mgr = "audio3" THEN Parts \ {"mem"} ELSE {}
    BY DEF Rest
  <2>3. QED
    BY <2>1, <2>2 DEF ManagerInv, BlockInv
<1>2. QED
  BY <1>1, ManagerInvInit, ManagerInvNext, PTL DEF ManagerSpec

(* A call that answered true has set up what the next one relies on.       *)
THEOREM ManagersAnswerTruly == ManagerSpec => []AnswersTruly
<1>1. ManagerInv => AnswersTruly
  BY KnownFacts DEF ManagerInv, CallInv, StandsInv, SetUp, TearDowns, AnswersTruly,
                    OneCall, TwoCalls
<1>2. QED
  BY <1>1, ManagerInvInit, ManagerInvNext, PTL DEF ManagerSpec

(* A callback that may run has its ring and its memory, except where       *)
(* destroy() goes in another order.                                        *)
THEOREM ManagersKeepTheRing == ManagerSpec => []CallbackKeepsItsRing
<1>1. ManagerInv => CallbackKeepsItsRing
  <2> SUFFICES ASSUME ManagerInv, running, mgr # "audio3",
                      ~({"mem", "ring"} \subseteq standing)
               PROVE  mgr \in {"audio2", "capture"} /\ call = "destroy" /\ "mem" \in standing
    BY DEF CallbackKeepsItsRing
  <2>1. mgr \in OneCall \union TwoCalls /\ known = "all" /\ call \in {"idle", "destroy"}
    BY DEF ManagerInv, CallInv, RunInv
  <2>2. {"mem", "ring"} \subseteq KnownSetUp("all")
    BY <2>1, KnownFacts
  <2>3. call = "destroy"
    BY <2>1, <2>2 DEF ManagerInv, StandsInv, SetUp, TearDowns
  <2>4. /\ KnownSetUp("all") \ Torn \subseteq standing /\ "device" \notin Torn
        /\ Torn = {M.destroy[i] : i \in 1..(at - 1)}
        /\ at \in 1..Len(M.destroy) /\ DestroyOK(M.destroy)
    BY <2>1, <2>3, DestroyFacts DEF ManagerInv, RunInv, Torn, TearDowns, CallInv, DestroyOK
  <2>5. "mem" \notin Torn
    BY <2>4 DEF DestroyOK
  <2>6. mgr \in {"audio", "audioAtOnce", "duplex"} => Torn = {}
    <3>1. mgr \in {"audio", "audioAtOnce", "duplex"} => M.destroy[1] = "device"
      BY <2>1, DestroyFacts
    <3>2. at > 1 => M.destroy[1] \in Torn
      BY <2>4 DEF DestroyOK
    <3>3. QED
      BY <2>4, <3>1, <3>2 DEF DestroyOK
  <2>7. QED
    BY <2>1, <2>2, <2>3, <2>4, <2>5, <2>6 DEF OneCall, TwoCalls
<1>2. QED
  BY <1>1, ManagerInvInit, ManagerInvNext, PTL DEF ManagerSpec

LEMMA TouchesNext ==
  ASSUME ManagerInv, TouchesOnlyWhatIsThere, [ManagerNext]_managerVars
  PROVE  TouchesOnlyWhatIsThere'
<1>1. CASE \/ Create \/ CreateContext \/ Select \/ StartDevice \/ StopDevice
           \/ DestroyManager
  <2>1. misused' = {}
    BY <1>1 DEF Create, CreateContext, Select, StartDevice, StopDevice, DestroyManager, Enter
  <2>2. QED
    BY <2>1 DEF TouchesOnlyWhatIsThere
<1>2. CASE StageSucceeds \/ StageFails
  BY <1>2, StageSucceedsNext, StageFailsNext DEF TouchesOnlyWhatIsThere
<1>3. CASE TearDownPart
  <2>1. /\ misused' = misused \union ((({M.destroy[at]} \intersect Believed) \ standing) \ {"list"})
        /\ known' \in {known, "destroyed"} /\ call \in TearDowns
        /\ UNCHANGED <<mgr, broken>>
    BY <1>3 DEF TearDownPart, TearDowns
  <2>2. /\ M.destroy[at] \in Order \ Torn
    <3>1. DestroyOK(M.destroy) /\ at \in DOMAIN M.destroy
      BY <2>1, DestroyFacts DEF ManagerInv, CallInv
    <3>2. QED
      BY <2>1, <3>1 DEF DestroyOK, Order, Elements, Torn
  <2>3. ~Guesses => misused' = misused
    BY <2>1, <2>2 DEF ManagerInv, BeliefInv
  <2>4. QED
    BY <2>1, <2>3 DEF TouchesOnlyWhatIsThere, Guesses, TearDowns
<1>4. CASE UNCHANGED managerVars
  BY <1>4 DEF TouchesOnlyWhatIsThere, managerVars
<1>5. QED
  BY <1>1, <1>2, <1>3, <1>4 DEF ManagerNext

(* Nothing is torn down or used that is not there, unless a creation       *)
(* failed half-way in a manager that does not keep track, or a capture     *)
(* device is not complete.                                                 *)
THEOREM ManagersTouchWhatIsThere == ManagerSpec => []TouchesOnlyWhatIsThere
<1>1. ManagerInit => TouchesOnlyWhatIsThere
  BY DEF ManagerInit, TouchesOnlyWhatIsThere
<1>2. QED
  BY <1>1, ManagerInvInit, ManagerInvNext, TouchesNext, PTL DEF ManagerSpec

LEMMA LosesNext ==
  ASSUME ManagerInv, LosesNothing, [ManagerNext]_managerVars
  PROVE  LosesNothing'
<1>1. CASE \/ Create \/ CreateContext \/ Select \/ StartDevice \/ StopDevice
           \/ DestroyManager \/ TearDownPart \/ UNCHANGED managerVars
  BY <1>1 DEF Create, CreateContext, Select, StartDevice, StopDevice, DestroyManager,
              TearDownPart, LosesNothing, managerVars
<1>2. CASE StageSucceeds \/ StageFails
  <2>1. call # "idle"
    BY <1>2 DEF StageSucceeds, StageFails, Stages
  <2>2. leaked' \subseteq leaked \union (Rest \ {"list"})
    BY <1>2, StageSucceedsNext, StageFailsNext
  <2>3. mgr' = mgr /\ (broken => broken')
    BY <1>2 DEF StageSucceeds, StageFails, ManagerInv, CallInv
  <2>4. QED
    BY <2>1, <2>2, <2>3 DEF LosesNothing, Rest
<1>3. QED
  BY <1>1, <1>2 DEF ManagerNext

(* No creation sets up something over what still stands, but for the block *)
(* after a failed create() and what audio3 forgot.                         *)
THEOREM ManagersLoseNothing == ManagerSpec => []LosesNothing
<1>1. ManagerInit => LosesNothing
  BY DEF ManagerInit, LosesNothing
<1>2. QED
  BY <1>1, ManagerInvInit, ManagerInvNext, LosesNext, PTL DEF ManagerSpec
=============================================================================
