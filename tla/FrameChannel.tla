---------------------------- MODULE FrameChannel ----------------------------
(***************************************************************************)
(* What the ring between the audio callback and the read thread promises:  *)
(* a bounded channel.  Frames are offered in batches, the next one when    *)
(* the last one is settled; each frame is accepted or refused, refused     *)
(* only when the channel is full, and accepted frames are delivered in the *)
(* order they were accepted (the k-th delivered is the k-th accepted).     *)
(***************************************************************************)
EXTENDS Naturals

CONSTANT Capacity    (* frames the channel holds, a positive natural *)

VARIABLES offered, accepted, refused, delivered   (* frames so far *)

vars == <<offered, accepted, refused, delivered>>

Init == offered = 0 /\ accepted = 0 /\ refused = 0 /\ delivered = 0

Offer ==
  /\ offered = accepted + refused
  /\ offered' \in Nat /\ offered' > offered
  /\ UNCHANGED <<accepted, refused, delivered>>

Accept ==
  /\ accepted' \in Nat /\ accepted' > accepted
  /\ accepted' + refused <= offered
  /\ accepted' <= delivered + Capacity
  /\ UNCHANGED <<offered, refused, delivered>>

Refuse ==
  /\ accepted = delivered + Capacity
  /\ refused' \in Nat /\ refused' > refused
  /\ accepted + refused' = offered
  /\ UNCHANGED <<offered, accepted, delivered>>

Deliver ==
  /\ delivered' \in Nat /\ delivered' > delivered
  /\ delivered' <= accepted
  /\ UNCHANGED <<offered, accepted, refused>>

Next == Offer \/ Accept \/ Refuse \/ Deliver

Spec == Init /\ [][Next]_vars
=============================================================================
