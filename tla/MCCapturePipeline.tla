-------------------------- MODULE MCCapturePipeline --------------------------
(***************************************************************************)
(* CapturePipeline for TLC: the constants are bound by the configurations. *)
(***************************************************************************)
EXTENDS CapturePipeline
=============================================================================
