------------------------------ MODULE SliceBox ------------------------------
(***************************************************************************)
(* What the hand-over of slices promises: a box of one place that the      *)
(* reader fills and the worker takes from.  turn changes with every slice  *)
(* put in, so a replaced slice is told from a kept one.                    *)
(***************************************************************************)
EXTENDS Naturals

VARIABLES place, turn, mayReplace

view == <<place, turn>>

Put      == place = "empty" /\ place' = "full" /\ turn' = 1 - turn
Replace  == mayReplace /\ place = "full" /\ place' = "full" /\ turn' = 1 - turn
Withdraw == mayReplace /\ place = "full" /\ place' = "empty" /\ turn' = turn
Take     == place = "full" /\ place' = "taken" /\ turn' = turn
Return   == place = "taken" /\ place' = "empty" /\ turn' = turn

Next == Put \/ Replace \/ Withdraw \/ Take \/ Return
=============================================================================
