-------------------------- MODULE ResourceLifecycle --------------------------
(***************************************************************************)
(* What the owner of several resources promises: a resource is acquired    *)
(* once, when everything it needs is there, and released once, when        *)
(* nothing that needs it is left.                                          *)
(***************************************************************************)

CONSTANTS Resources,    (* what can be acquired                            *)
          Needs         (* Needs[r]: the resources that r works on         *)

VARIABLE held           (* the resources acquired and not yet released     *)

Init == held = {}

Acquire(r) ==
  /\ r \notin held
  /\ Needs[r] \subseteq held
  /\ held' = held \union {r}

Release(r) ==
  /\ r \in held
  /\ \A q \in held : r \notin Needs[q]
  /\ held' = held \ {r}

Next == \E r \in Resources : Acquire(r) \/ Release(r)

Spec == Init /\ [][Next]_held
=============================================================================
