--------------------------- MODULE MCWindowsKeyHook ---------------------------
(***************************************************************************)
(* WindowsKeyHook for TLC: the .cfg files bound presses and restarts.      *)
(***************************************************************************)
EXTENDS WindowsKeyHook
=============================================================================
