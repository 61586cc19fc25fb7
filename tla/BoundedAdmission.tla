-------------------------- MODULE BoundedAdmission --------------------------
(***************************************************************************)
(* What the native pool promises to the requests that use it               *)
(* (native_pool.py, "bounded set of clients", max_active, max_waiters):    *)
(* at most Capacity requests are inside, at most Slots of them are working *)
(* at once, a request outside is either let in or turned away, and leaving *)
(* gives everything back in one step.                                      *)
(***************************************************************************)
EXTENDS Naturals, FiniteSets

CONSTANTS Lease, Slots, Capacity

VARIABLES inside, working

Init == inside = {} /\ working = {}

Enter(l) ==
  /\ l \notin inside
  /\ Cardinality(inside) < Capacity
  /\ inside' = inside \cup {l}
  /\ UNCHANGED working

Work(l) ==
  /\ l \in inside \ working
  /\ Cardinality(working) < Slots
  /\ working' = working \cup {l}
  /\ UNCHANGED inside

Leave(l) ==
  /\ l \in inside
  /\ inside' = inside \ {l}
  /\ working' = working \ {l}

Next == \E l \in Lease : Enter(l) \/ Work(l) \/ Leave(l)

Spec == Init /\ [][Next]_<<inside, working>>
=============================================================================
