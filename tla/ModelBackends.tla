---------------------------- MODULE ModelBackends ----------------------------
(***************************************************************************)
(* The two model backends: the one of sttserv/ ("library"), which switches *)
(* to the functions of the implementation m_type names, and its ancestor   *)
(* in sandbox2/unifiedbackend ("unified").  m_internalState (m_state)      *)
(* points to what an init function made: a model, with sherpa-onnx a       *)
(* stream that transcribe() makes and result() destroys, with whisper a    *)
(* pointer to the language asked for.                                      *)
(*                                                                         *)
(* A client transcribes when create() said true and takes the result of a  *)
(* transcription before it does anything else; the recognition tests, of   *)
(* the library, take none when transcribe() said false, the inference      *)
(* thread of unified does not look.                                        *)
(***************************************************************************)

CONSTANTS Version,      (* the backends looked at                           *)
          Built         (* the implementations compiled into the library    *)

Impl == {"whisper", "parakeet", "sherpa"}

ASSUME BackendAssumption == /\ Version \subseteq {"library", "unified"}
                            /\ Built \subseteq Impl

(* What the implementations keep: whose copy of the language, a stream.    *)
(* Mutation: whisper keeps a pointer into the arguments.                   *)
WhisperOfLibraryBorrows == [language |-> "args", streams |-> FALSE]
WhisperOfLibrary  == [language |-> "own", streams |-> FALSE]
ParakeetOfLibrary == [language |-> "none", streams |-> FALSE]
SherpaOfLibrary   == [language |-> "none", streams |-> TRUE]
WhisperOfUnified  == [language |-> "args", streams |-> FALSE]
ParakeetOfUnified == [language |-> "none", streams |-> FALSE]
SherpaOfUnified   == [language |-> "none", streams |-> TRUE]

Library == [whisper |-> WhisperOfLibrary, parakeet |-> ParakeetOfLibrary,
            sherpa |-> SherpaOfLibrary]
Unified == [whisper |-> WhisperOfUnified, parakeet |-> ParakeetOfUnified,
            sherpa |-> SherpaOfUnified]

VARIABLES
  version,      (* which of the two                                         *)
  type, state,  (* m_type and the implementation whose state is pointed to  *)
  stream,       (* tmpstream: "none", "open", or "stale" once destroyed     *)
  told,         (* what the client was told last                            *)
  args,         (* the arguments of create() are still there                *)
  lost,         (* models and streams nobody points to any more             *)
  misuse        (* which calls have used what that was not there            *)

backendVars == <<version, type, state, stream, told, args, lost, misuse>>

Has == IF version = "library" THEN Library ELSE Unified
CanMake == IF version = "library" THEN Built ELSE Impl

BackendInit ==
  /\ version \in Version
  /\ type = "unset" /\ state = "null" /\ stream = "none"
  /\ told = "nothing" /\ args = TRUE /\ lost = {} /\ misuse = {}

(* What a call misuses when a condition holds.                             *)
When(condition, call, what) == IF condition THEN {<<call, what>>} ELSE {}

(* BACKEND_MAX in both places is refused before anything is touched.       *)
CreateRefused ==
  /\ told # "transcribed"
  /\ told' = "nothing"
  /\ UNCHANGED <<version, type, state, stream, args, lost, misuse>>

(* Mutation: the pointer is not reset.                                     *)
CreateBackendOver(t) ==
  /\ told \in {"nothing", "destroyed"}
  /\ type' = t
  /\ \/ state' = t /\ t \in CanMake /\ told' = "created"
     \/ told' = "nothing" /\ UNCHANGED state
  /\ stream' = "none" /\ args' = TRUE
  /\ UNCHANGED <<version, lost, misuse>>

(* The pointer is reset before an init function sets it; what it pointed   *)
(* to is lost.  The client frees a model it has, but may have been refused *)
(* another since.                                                          *)
CreateBackend(t) ==
  /\ told \in {"nothing", "destroyed"}
  /\ type' = t
  /\ \/ state' = t /\ t \in CanMake /\ told' = "created"
     \/ state' = "null" /\ told' = "nothing"
  /\ lost' = IF state = "null" THEN lost ELSE lost \union {"model"}
  /\ stream' = "none" /\ args' = TRUE
  /\ UNCHANGED <<version, misuse>>

(* Only a client of the library lets its arguments go.                     *)
DropArguments ==
  /\ version = "library" /\ args
  /\ args' = FALSE
  /\ UNCHANGED <<version, type, state, stream, told, lost, misuse>>

(* The free functions of m_type are given the state; a stream stays.       *)
DestroyBackend ==
  /\ told # "transcribed"
  /\ misuse' = misuse \union When(state \notin {"null", type}, "destroy", "state")
  /\ lost' = IF stream = "open" THEN lost \union {"stream"} ELSE lost
  /\ state' = "null" /\ stream' = "none" /\ told' = "destroyed"
  /\ UNCHANGED <<version, type, args>>

(* A recogniser may make no stream: the call is then made with the null    *)
(* stream, and answers false after it, as the two others may.              *)
Transcribe(ok) ==
  /\ told = "created"
  /\ IF Has[type].streams
     THEN /\ stream' = IF ok THEN "open" ELSE "none"
          /\ lost' = IF stream = "open" THEN lost \union {"stream"} ELSE lost
     ELSE UNCHANGED <<stream, lost>>
  /\ misuse' = misuse \union When(state # type, "transcribe", "state")
       \union When(Has[type].language = "args" /\ ~args, "transcribe", "language")
       \union When(Has[type].streams /\ ~ok, "transcribe", "noStream")
  /\ told' = IF ok \/ version = "unified" THEN "transcribed" ELSE "created"
  /\ UNCHANGED <<version, type, state, args>>

(* The stream is destroyed and its pointer kept.                           *)
Result ==
  /\ told = "transcribed"
  /\ misuse' = misuse \union When(state # type, "result", "state")
       \union When(Has[type].streams /\ stream = "none", "result", "noStream")
       \union When(Has[type].streams /\ stream = "stale", "result", "staleStream")
  /\ stream' = IF Has[type].streams /\ stream = "open" THEN "stale" ELSE stream
  /\ told' = "created"
  /\ UNCHANGED <<version, type, state, args, lost>>

BackendNext == \/ CreateRefused \/ \E t \in Impl : CreateBackend(t)
               \/ DropArguments \/ DestroyBackend \/ Result
               \/ \E ok \in BOOLEAN : Transcribe(ok)

BackendSpec == BackendInit /\ [][BackendNext]_backendVars

(***************************************************************************)
(* Properties                                                              *)
(***************************************************************************)
(* However often create() is called, also when it fails for another type,  *)
(* m_type names the implementation whose state is pointed to: no state is  *)
(* handed to another's functions.                                          *)
DispatchesToOwner == state # "null" => state = type

(* The one thing used that is not there is a stream that sherpa-onnx could *)
(* not make: by transcribe(), which uses it before it looks, and only then *)
(* by the inference thread of unified, which asks it for a result.  No     *)
(* call is made with another's state, a destroyed stream or a language     *)
(* that is gone, for the library copied it and a program keeps its         *)
(* arguments; and no stream is lost, however many slices are transcribed.  *)
UsesWhatIsThere ==
  /\ misuse \subseteq {<<"transcribe", "noStream">>}
                     \union (IF version = "unified" THEN {<<"result", "noStream">>} ELSE {})
  /\ <<"result", "noStream">> \in misuse => <<"transcribe", "noStream">> \in misuse
  /\ "stream" \notin lost
=============================================================================
