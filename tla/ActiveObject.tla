---------------------------- MODULE ActiveObject ----------------------------
(***************************************************************************)
(* What an active object promises (src/Generics/ActiveObject.hpp): its     *)
(* three states in their order, and that the things that run on its behalf *)
(* (its threads, its children) start while it is active and have all ended *)
(* when it is not active again.                                            *)
(***************************************************************************)
EXTENDS FiniteSets

CONSTANT Things

VARIABLES
    state,      \* AS_ACTIVE, AS_DEACTIVATING or AS_NOT_ACTIVE
    live        \* the things that run

avars == <<state, live>>

Init == state = "AS_NOT_ACTIVE" /\ live = {}

Activate ==
    /\ state = "AS_NOT_ACTIVE"
    /\ state' = "AS_ACTIVE"
    /\ UNCHANGED live

Launch ==
    /\ state = "AS_ACTIVE"
    /\ \E x \in Things \ live : live' = live \cup {x}
    /\ UNCHANGED state

(* Things end one by one. *)
End ==
    /\ \E x \in live : live' = live \ {x}
    /\ UNCHANGED state

(* An activation that fails takes back all that it has launched. *)
FailToActivate ==
    /\ state = "AS_ACTIVE"
    /\ state' = "AS_NOT_ACTIVE"
    /\ live' = {}

Deactivate ==
    /\ state = "AS_ACTIVE"
    /\ state' = "AS_DEACTIVATING"
    /\ UNCHANGED live

Complete ==
    /\ state = "AS_DEACTIVATING"
    /\ live = {}
    /\ state' = "AS_NOT_ACTIVE"
    /\ UNCHANGED live

Next == Activate \/ Launch \/ End \/ FailToActivate \/ Deactivate \/ Complete

Spec == Init /\ [][Next]_avars
=============================================================================
