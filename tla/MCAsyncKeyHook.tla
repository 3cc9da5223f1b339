--------------------------- MODULE MCAsyncKeyHook ---------------------------
(***************************************************************************)
(* AsyncKeyHook for TLC: the keyboards, the numbers of presses, restarts   *)
(* and bindings are given by the .cfg files.                               *)
(***************************************************************************)
EXTENDS AsyncKeyHook
=============================================================================
