--------------------------- MODULE MCAudioManager2 ---------------------------
(***************************************************************************)
(* AudioManager2 for TLC: the machine and the client are given by the      *)
(* configurations.                                                         *)
(***************************************************************************)
EXTENDS AudioManager2
=============================================================================
