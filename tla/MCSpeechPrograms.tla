-------------------------- MODULE MCSpeechPrograms --------------------------
(***************************************************************************)
(* SpeechPrograms for TLC: which programs run, and the sizes, are given by *)
(* the configurations.                                                     *)
(***************************************************************************)
EXTENDS SpeechPrograms
=============================================================================
