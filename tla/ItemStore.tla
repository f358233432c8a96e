------------------------------ MODULE ItemStore ------------------------------
(***************************************************************************)
(* What the NV driver promises its callers (app_relay.c, factory_reset.c): *)
(* a store of items, written one at a time and all at once.                *)
(***************************************************************************)
CONSTANTS Items, Values, None

VARIABLE store

Init == store = [i \in Items |-> None]

Write(i, v) == store' = [store EXCEPT ![i] = v]

Next == \E i \in Items, v \in Values : Write(i, v)

Spec == Init /\ [][Next]_store

=============================================================================
