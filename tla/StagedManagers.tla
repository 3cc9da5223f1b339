--------------------------- MODULE StagedManagers ---------------------------
(***************************************************************************)
(* The audio managers beside the one of module AudioManager2: audio.cpp,   *)
(* audio3.cpp and the copy of audio2.cpp in sandbox/, the manager of the   *)
(* duplex example and the capture device of sttserv/.  All set up one      *)
(* block of memory and then, in it, resources of miniaudio, a stage for    *)
(* each; they differ in the stages, in what a failed stage undoes, in the  *)
(* order of destroy() and in how destroy() knows what there is to destroy. *)
(*                                                                         *)
(* What follows the misuse of a resource that is not there is undefined:   *)
(* the client is not followed beyond it.                                   *)
(***************************************************************************)
EXTENDS Naturals, Sequences

Parts == {"mem", "context", "list", "device", "ring", "resampler"}

(* A stage sets something up; when it fails it undoes earlier ones and     *)
(* clears flags by hand, or leaves that to destroy().                      *)
Undoing(rs, us, cs) == [sets |-> rs, mayFail |-> TRUE, undoes |-> us, clears |-> cs]
SetsUp(r) == Undoing({r}, {}, {})
Surely(r) == [sets |-> {r}, mayFail |-> FALSE, undoes |-> {}, clears |-> {}]

(***************************************************************************)
(* The managers                                                            *)
(*   atOnce, create, select: the stages of create(), of createContext()    *)
(*     and of selectDevicesAndFinalize()                                   *)
(*   rollsBack: the calls that destroy() everything when a stage fails     *)
(*   destroy: the order in which destroy() goes                            *)
(*   knows: what destroy() goes by - a flag for each part, the flags as    *)
(*     the type bool leaves them, as the mask 8 leaves them, the pointer   *)
(***************************************************************************)
(* A program uses create() (audioAtOnce) or the two calls (audio).         *)
CreateOfAudio ==
  LET given == {"mem", "ring", "context"} IN
  <<SetsUp("mem"), SetsUp("ring"),
    Undoing({"context"}, {"ring"}, {}),
    Undoing({"list"}, given, given),
    Undoing({"device"}, given, given)>>

(* Mutation: the context undoes the ring, as in create().                  *)
SetUpOfAudioUndoesRing == <<SetsUp("mem"), SetsUp("ring"),
                            Undoing({"context"}, {"ring"}, {}), SetsUp("list")>>

SetUpOfAudio == <<SetsUp("mem"), SetsUp("ring"), SetsUp("context"), SetsUp("list")>>
FinalOfAudio == <<SetsUp("device")>>

(* Mutation: the ring is forgotten.                                        *)
DestroyOfAudioKeepsRing == <<"device", "list", "context", "mem">>
(* Mutation: the ring goes before the device.                              *)
DestroyOfAudioRingFirst == <<"ring", "device", "list", "context", "mem">>
DestroyOfAudio == <<"device", "list", "context", "ring", "mem">>

AudioAtOnce ==
  [atOnce |-> CreateOfAudio, create |-> <<>>, select |-> <<>>, rollsBack |-> {},
   destroy |-> DestroyOfAudio, knows |-> "flags"]

(* Mutation: a failed createContext() does not destroy().                  *)
AudioLeavesContext ==
  [atOnce |-> <<>>, create |-> SetUpOfAudio, select |-> FinalOfAudio,
   rollsBack |-> {}, destroy |-> DestroyOfAudio, knows |-> "flags"]

Audio ==
  [atOnce |-> <<>>, create |-> SetUpOfAudio, select |-> FinalOfAudio,
   rollsBack |-> {"createContext"}, destroy |-> DestroyOfAudio,
   knows |-> "flags"]

SetUpOfAudio2 == <<SetsUp("mem"), SetsUp("context"), SetsUp("list")>>
FinalOfAudio2 == <<SetsUp("device"), SetsUp("ring"), SetsUp("resampler")>>

DestroyOfAudio2 == <<"resampler", "ring", "device", "list", "context", "mem">>

(* Mutation: a failed selectDevicesAndFinalize() does not destroy().       *)
Audio2LeavesDevice ==
  [atOnce |-> <<>>, create |-> SetUpOfAudio2, select |-> FinalOfAudio2,
   rollsBack |-> {"createContext"}, destroy |-> DestroyOfAudio2,
   knows |-> "flags"]

Audio2 ==
  [atOnce |-> <<>>, create |-> SetUpOfAudio2, select |-> FinalOfAudio2,
   rollsBack |-> {"createContext", "select"}, destroy |-> DestroyOfAudio2,
   knows |-> "flags"]

(* Its ring is a vector.                                                   *)
SetUpOfAudio3   == <<SetsUp("mem"), SetsUp("context"), SetsUp("list")>>
FinalOfAudio3   == <<SetsUp("device"), Surely("ring"), SetsUp("resampler")>>
DestroyOfAudio3 == <<"resampler", "device", "list", "context", "ring", "mem">>

Audio3 ==
  [atOnce |-> <<>>, create |-> SetUpOfAudio3, select |-> FinalOfAudio3,
   rollsBack |-> {"createContext", "select"}, destroy |-> DestroyOfAudio3,
   knows |-> "bool"]

(* Its fourth stage only asks which device is the default.                 *)
CreateOfDuplex ==
  <<SetsUp("mem"), SetsUp("ring"),
    Undoing({"context"}, {"ring"}, {}),
    Undoing({}, {"ring", "context"}, {}),
    Undoing({"device"}, {"ring", "context"}, {})>>

Duplex ==
  [atOnce |-> CreateOfDuplex, create |-> <<>>, select |-> <<>>, rollsBack |-> {},
   destroy |-> <<"device", "ring", "context", "mem">>, knows |-> "pointer"]

SetUpOfCapture   == <<SetsUp("mem"), SetsUp("context"), SetsUp("list")>>
FinalOfCapture   == <<SetsUp("device"), SetsUp("ring"), SetsUp("resampler")>>
DestroyOfCapture == <<"resampler", "ring", "device", "list", "context", "mem">>

Capture ==
  [atOnce |-> <<>>, create |-> SetUpOfCapture, select |-> FinalOfCapture,
   rollsBack |-> {"createContext", "select"}, destroy |-> DestroyOfCapture,
   knows |-> "mask"]

Managers == [audioAtOnce |-> AudioAtOnce, audio |-> Audio, audio2 |-> Audio2,
             audio3 |-> Audio3, duplex |-> Duplex, capture |-> Capture]

VARIABLES
  mgr,          (* the manager used                                         *)
  call, at,     (* the call the client is in and its next stage             *)
  known,        (* what the client knows of: nothing, a context, all, or    *)
                (* that destroy() has run                                   *)
  standing,     (* what is set up                                           *)
  marked,       (* the parts whose flag or bit was set, and "all"           *)
  block,        (* m_underlyingMem is not null                              *)
  listed,       (* m_captureDeviceIdx is not 0xFF                           *)
  running,      (* the device runs: its callback may be called              *)
  broken,       (* a stage failed while something was set up                *)
  misused,      (* what was used or torn down without being there           *)
  leaked        (* what was set up again before it was torn down            *)

managerVars == <<mgr, call, at, known, standing, marked, block, listed, running,
                 broken, misused, leaked>>

M == Managers[mgr]

ManagerInit ==
  /\ mgr \in DOMAIN Managers
  /\ call = "idle" /\ at = 1 /\ known = "nothing"
  /\ standing = {} /\ marked = {} /\ block = FALSE /\ listed = FALSE
  /\ running = FALSE /\ broken = FALSE /\ misused = {} /\ leaked = {}

Stages == CASE call = "atOnce" -> M.atOnce
            [] call = "createContext" -> M.create
            [] call = "select" -> M.select
            [] OTHER -> <<>>

(* What destroy() takes for set up.  Any bit makes a bool 1, which reads   *)
(* as the bit of the memory; masked with 8 every bit is bit 0.             *)
Believed == CASE M.knows = "flags" -> marked
              [] M.knows = "bool" -> IF marked # {} THEN {"mem"} ELSE {}
              [] M.knows = "mask" -> IF marked # {} THEN Parts \union {"all"} ELSE {}
              [] M.knows = "pointer" -> IF block THEN Parts ELSE {}

Enter(c) == call = "idle" /\ misused = {} /\ call' = c /\ at' = 1

(***************************************************************************)
(* The calls                                                               *)
(***************************************************************************)
Create ==
  /\ known \in {"nothing", "destroyed"} /\ M.atOnce # <<>>
  /\ Enter("atOnce")
  /\ UNCHANGED <<mgr, known, standing, marked, block, listed, running, broken,
                 misused, leaked>>

(* Answers at once that there is memory, or that all is initialised.       *)
CreateContext ==
  /\ known \in {"nothing", "destroyed"} /\ M.create # <<>>
  /\ IF block \/ "all" \in Believed
     THEN Enter("idle") /\ known' = "context"
     ELSE Enter("createContext") /\ UNCHANGED known
  /\ UNCHANGED <<mgr, standing, marked, block, listed, running, broken, misused,
                 leaked>>

Select ==
  /\ known = "context"
  /\ Enter("select")
  /\ UNCHANGED <<mgr, known, standing, marked, block, listed, running, broken,
                 misused, leaked>>

StartDevice ==
  /\ known = "all" /\ Enter("idle") /\ running' = TRUE
  /\ UNCHANGED <<mgr, known, standing, marked, block, listed, broken, misused,
                 leaked>>

(* When it fails the device may run on.                                    *)
StopDevice ==
  /\ running /\ known = "all" /\ Enter("idle") /\ running' = FALSE
  /\ UNCHANGED <<mgr, known, standing, marked, block, listed, broken, misused,
                 leaked>>

DestroyManager ==
  /\ Enter("destroy")
  /\ UNCHANGED <<mgr, known, standing, marked, block, listed, running, broken,
                 misused, leaked>>

(***************************************************************************)
(* A stage                                                                 *)
(***************************************************************************)
LastStage == at = Len(Stages)

StageSucceeds ==
  /\ Stages # <<>>
  /\ LET s == Stages[at] IN
     /\ call = "select" /\ "device" \in s.sets => listed
     /\ standing' = standing \union s.sets
     /\ leaked' = leaked \union ((s.sets \intersect standing) \ {"list"})
     /\ marked' = marked \union s.sets
                 \union (IF LastStage /\ call # "createContext" THEN {"all"} ELSE {})
     /\ block' = (block \/ "mem" \in s.sets)
     /\ IF "list" \in s.sets
        THEN listed' \in IF call = "atOnce" THEN {TRUE} ELSE BOOLEAN
        ELSE UNCHANGED listed
     /\ misused' = IF call = "select" /\ "device" \in s.sets
                   THEN misused \union ({"context"} \ standing) ELSE misused
     /\ IF LastStage
        THEN /\ call' = "idle" /\ at' = 1
             /\ known' = IF call = "createContext" THEN "context" ELSE "all"
        ELSE at' = at + 1 /\ UNCHANGED <<call, known>>
  /\ UNCHANGED <<mgr, running, broken>>

(* A failed call may clear by hand what destroy() would; the pointer to    *)
(* memory it frees so stays, the one to memory it was refused is null.     *)
StageFails ==
  /\ Stages # <<>> /\ Stages[at].mayFail
  /\ LET s    == Stages[at]
         lost == s.sets \intersect standing \intersect {"mem"}
     IN
     /\ standing' = standing \ (s.undoes \union lost)
     /\ leaked' = leaked \union lost
     /\ marked' = marked \ s.clears
     /\ block' = (block /\ "mem" \notin s.sets)
     /\ call' = IF call \in M.rollsBack THEN "rollBack" ELSE "idle"
     /\ broken' = (broken \/ standing # {})
  /\ at' = 1 /\ known' = "nothing"
  /\ UNCHANGED <<mgr, listed, running, misused>>

(***************************************************************************)
(* A part of destroy(), the client's call or a failed call's roll-back     *)
(***************************************************************************)
TearDownPart ==
  /\ call \in {"destroy", "rollBack"}
  /\ LET gone == {M.destroy[at]} \intersect Believed
         end  == at = Len(M.destroy)
     IN /\ standing' = standing \ gone
        /\ misused' = misused \union ((gone \ standing) \ {"list"})
        /\ running' = (running /\ "device" \notin gone)
        /\ block' = (block /\ "mem" \notin gone)
        /\ marked' = IF end THEN {} ELSE marked
        /\ call' = IF end THEN "idle" ELSE call
        /\ at' = IF end THEN 1 ELSE at + 1
        /\ known' = IF end THEN "destroyed" ELSE known
  /\ UNCHANGED <<mgr, listed, broken, leaked>>

ManagerNext == \/ Create \/ CreateContext \/ Select \/ StartDevice \/ StopDevice \/ DestroyManager
               \/ StageSucceeds \/ StageFails \/ TearDownPart

ManagerSpec == ManagerInit /\ [][ManagerNext]_managerVars

(***************************************************************************)
(* Properties                                                              *)
(***************************************************************************)
(* destroy() leaves nothing set up and can be followed by a new creation.  *)
(* audio3 frees the block and leaves what lies in it; a create() of audio  *)
(* that failed keeps the pointer to the block it has freed.                *)
DestroyLeavesNothing ==
  (known = "destroyed" /\ call = "idle") =>
    /\ standing \subseteq (IF mgr = "audio3" THEN Parts \ {"mem"} ELSE {})
    /\ block => (mgr = "audioAtOnce" /\ broken)

(* Nothing is torn down that is not there, or used after it was, except    *)
(* when a create() failed half-way, whose flags or pointer do not follow   *)
(* what it undid, and in a capture device that is not complete, whose bits *)
(* are all one.                                                            *)
TouchesOnlyWhatIsThere ==
  misused # {} => \/ broken /\ mgr \in {"audioAtOnce", "duplex"}
                  \/ mgr = "capture" /\ known # "all"

(* Nothing is set up over what is still there, except the block after a    *)
(* create() that failed and, in audio3, what destroy() left.               *)
LosesNothing ==
  leaked \subseteq CASE mgr = "audio3" -> Parts \ {"mem"}
                     [] mgr \in {"audioAtOnce", "duplex"} /\ broken -> {"mem"}
                     [] OTHER -> {}

(* A call that answers true has set up what it is for, also the            *)
(* createContext() that finds memory and does nothing.                     *)
AnswersTruly ==
  call = "idle" =>
    /\ known = "context" => {"mem", "context", "list"} \subseteq standing
    /\ known = "all" => {"mem", "context", "device", "ring"} \subseteq standing

(* The callback of a device that runs has its ring and its memory, also    *)
(* when destroy() is called because stop() failed: audio and the duplex    *)
(* example tear the device down first.  audio2 and the capture device      *)
(* remove the ring before it, audio3 frees the memory under it.            *)
CallbackKeepsItsRing ==
  (running /\ ~({"mem", "ring"} \subseteq standing)) =>
    \/ mgr \in {"audio2", "capture"} /\ call = "destroy" /\ "mem" \in standing
    \/ mgr = "audio3"
=============================================================================
