---------------------------- MODULE MCScriptOrder ----------------------------
(***************************************************************************)
(* SpeechPrograms for TLC, which also evaluates what ScriptOrder says of   *)
(* the scripts of all programs, whichever of them the configuration runs.  *)
(***************************************************************************)
EXTENDS ScriptOrder
=============================================================================
