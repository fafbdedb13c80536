------------------------ MODULE CompositeActiveObject ------------------------
(***************************************************************************)
(* Generics::SimpleActiveObject (src/Generics/ActiveObject.cpp) and the    *)
(* CompositeActiveObjectBase that overrides its hooks                      *)
(* (src/Generics/CompositeActiveObject.hpp): one object that activates,    *)
(* deactivates and waits for its children, used by several threads.  With  *)
(* no child it is SimpleActiveObject itself.                               *)
(*                                                                         *)
(* The mutex of cond_ is held while children are activated, deactivated    *)
(* and, with SYNCHRONOUS_, waited for; wait_object() waits for them on a   *)
(* copy of the list, without it.  A child is an active object that keeps   *)
(* the promise of ActiveObject.                                            *)
(***************************************************************************)
EXTENDS Integers, Sequences, FiniteSets

CONSTANTS
    Callers,                \* threads that use the composite
    Children,
    ActivationMayFail,      \* may a child throw in activate_object()?
    DeactivationMayFail,    \* may a child throw in deactivate_object()?
    ClearWhileWaited,       \* is clear_children() called while others are in wait_object()?
    Overlap                 \* may wait_object() overlap activate_object()?

VARIABLES
    SYNCHRONOUS_,   \* set by the constructor
    state_, child_objects_,
    lock,       \* who holds the mutex of cond_
    child,      \* child[x]: the state of active object x
    busy,       \* the children that have not finished their work yet
    pc,         \* where a caller is
    list,       \* list[c]: the children that c loops over
    it,         \* it[c]: the one that it is at
    error,      \* error[c]: a child has thrown
    thrown      \* the children whose last deactivate_object() has thrown

vars == <<SYNCHRONOUS_, state_, child_objects_, lock, child, busy, pc, list, it, error, thrown>>

States == {"AS_ACTIVE", "AS_DEACTIVATING", "AS_NOT_ACTIVE"}

(* What a caller does with the mutex held: in activate_object(), in its    *)
(* error path, in deactivate_object(), add_child_object() and              *)
(* clear_children().                                                       *)
Locked == {"activating", "undo", "undo_sync", "undo_wait", "deactivating", "sync",
           "adding", "clearing", "clearing_sync", "clearing_wait"}
(* In wait_object(): on cond_, out of it, before and in wait_object_().    *)
InWait == {"waiting", "woken", "copying", "joining"}

TypeOK ==
    /\ SYNCHRONOUS_ \in BOOLEAN
    /\ state_ \in States
    /\ child_objects_ \in Seq(Children)
    /\ \A i, j \in 1 .. Len(child_objects_) : child_objects_[i] = child_objects_[j] => i = j
    /\ lock \in Callers \cup {"nobody"}
    /\ child \in [Children -> States]
    /\ busy \subseteq Children
    /\ pc \in [Callers -> {"idle"} \cup Locked \cup InWait]
    /\ \A c \in Callers : pc[c] \in Locked <=> lock = c
    /\ it \in [Callers -> 0 .. Cardinality(Children) + 1]
    /\ error \in [Callers -> BOOLEAN]
    /\ list \in [Callers -> Seq(Children)]
    /\ thrown \subseteq Children

Init ==
    /\ SYNCHRONOUS_ \in BOOLEAN
    /\ state_ = "AS_NOT_ACTIVE"
    /\ child_objects_ = <<>>
    /\ lock = "nobody"
    /\ child \in [Children -> {"AS_NOT_ACTIVE", "AS_ACTIVE"}]
    /\ busy = {x \in Children : child[x] = "AS_ACTIVE"}
    /\ pc = [c \in Callers |-> "idle"]
    /\ it = [c \in Callers |-> 0]
    /\ error = [c \in Callers |-> FALSE]
    /\ list = [c \in Callers |-> <<>>]
    /\ thrown = {}

At(c) == list[c][it[c]]
To(c, where) == pc' = [pc EXCEPT ![c] = where]
Loop(c, children, first) == list' = [list EXCEPT ![c] = children] /\ it' = [it EXCEPT ![c] = first]
Return(c) == To(c, "idle") /\ Loop(c, <<>>, 0) /\ error' = [error EXCEPT ![c] = FALSE]
Step(c, n) == it' = [it EXCEPT ![c] = n] /\ UNCHANGED list

-----------------------------------------------------------------------------
(* A child: activate_object(), deactivate_object() and wait_object().      *)
ActivateChild(x) ==
    /\ child[x] = "AS_NOT_ACTIVE"
    /\ child' = [child EXCEPT ![x] = "AS_ACTIVE"]
    /\ busy' = busy \cup {x}
    /\ thrown' = thrown \ {x}

DeactivateChild(x) ==
    /\ child' = [child EXCEPT ![x] = IF @ = "AS_ACTIVE" THEN "AS_DEACTIVATING" ELSE @]
    /\ thrown' = thrown \ {x}
    /\ UNCHANGED busy

WaitChild(x) ==
    /\ child[x] # "AS_ACTIVE"
    /\ x \notin busy
    /\ child' = [child EXCEPT ![x] = "AS_NOT_ACTIVE"]
    /\ UNCHANGED <<busy, thrown>>

(* A child that has been told to stop finishes its work. *)
ChildFinishes(x) ==
    /\ child[x] = "AS_DEACTIVATING"
    /\ x \in busy
    /\ busy' = busy \ {x}
    /\ UNCHANGED <<SYNCHRONOUS_, state_, child_objects_, lock, child, pc, list, it, error, thrown>>

-----------------------------------------------------------------------------
(* activate_object() and activate_object_() *)
activate_object(c) ==
    /\ pc[c] = "idle" /\ lock = "nobody"
    /\ ~Overlap => \A d \in Callers : pc[d] \notin InWait
    /\ state_ = "AS_NOT_ACTIVE"
    /\ lock' = c
    /\ To(c, "activating")
    /\ Loop(c, child_objects_, 1)
    /\ UNCHANGED <<SYNCHRONOUS_, state_, child_objects_, child, busy, error, thrown>>

ActivateNext(c) ==
    /\ pc[c] = "activating"
    /\ it[c] <= Len(list[c])
    /\ ActivateChild(At(c))
    /\ Step(c, it[c] + 1)
    /\ UNCHANGED <<SYNCHRONOUS_, state_, child_objects_, lock, pc, error>>

(* An error path that leaves the last activated child alone. *)
ActivateFailsForgetful(c) ==
    /\ pc[c] = "activating"
    /\ it[c] <= Len(list[c])
    /\ ActivationMayFail \/ child[At(c)] # "AS_NOT_ACTIVE"
    /\ state_' = "AS_DEACTIVATING"
    /\ To(c, "undo")
    /\ LET last == IF it[c] > 1 THEN it[c] - 2 ELSE 0
       IN  Loop(c, SubSeq(list[c], 1, last), last)
    /\ error' = [error EXCEPT ![c] = FALSE]
    /\ UNCHANGED <<SYNCHRONOUS_, child_objects_, lock, child, busy, thrown>>

(* A child throws: those before it are deactivated and waited for. *)
ActivateFails(c) ==
    /\ pc[c] = "activating"
    /\ it[c] <= Len(list[c])
    /\ ActivationMayFail \/ child[At(c)] # "AS_NOT_ACTIVE"
    /\ state_' = "AS_DEACTIVATING"
    /\ To(c, "undo")
    /\ Loop(c, SubSeq(list[c], 1, it[c] - 1), it[c] - 1)
    /\ error' = [error EXCEPT ![c] = FALSE]
    /\ UNCHANGED <<SYNCHRONOUS_, child_objects_, lock, child, busy, thrown>>

Activated(c) ==
    /\ pc[c] = "activating"
    /\ it[c] > Len(list[c])
    /\ state_' = "AS_ACTIVE"
    /\ lock' = "nobody"
    /\ Return(c)
    /\ UNCHANGED <<SYNCHRONOUS_, child_objects_, child, busy, thrown>>

-----------------------------------------------------------------------------
(* deactivate_object_(rit): from the last child to the first, called from  *)
(* the error path, from deactivate_object() and from clear_children().  A  *)
(* child that throws is remembered and passed over.                        *)
Loops == [undo |-> "undo_sync", deactivating |-> "sync", clearing |-> "clearing_sync"]

DeactivateNext(c) ==
    /\ pc[c] \in DOMAIN Loops
    /\ it[c] > 0
    /\ DeactivateChild(At(c))
    /\ IF SYNCHRONOUS_ THEN To(c, Loops[pc[c]]) /\ UNCHANGED <<list, it>>
                       ELSE Step(c, it[c] - 1) /\ UNCHANGED pc
    /\ UNCHANGED <<SYNCHRONOUS_, state_, child_objects_, lock, error>>

DeactivateFails(c) ==
    /\ DeactivationMayFail
    /\ pc[c] \in DOMAIN Loops
    /\ it[c] > 0
    /\ error' = [error EXCEPT ![c] = TRUE]
    /\ thrown' = thrown \cup {At(c)}
    /\ Step(c, it[c] - 1)
    /\ UNCHANGED <<SYNCHRONOUS_, state_, child_objects_, lock, child, busy, pc>>

SyncWait(c) ==
    /\ \E loop \in DOMAIN Loops : pc[c] = Loops[loop] /\ To(c, loop)
    /\ WaitChild(At(c))
    /\ Step(c, it[c] - 1)
    /\ UNCHANGED <<SYNCHRONOUS_, state_, child_objects_, lock, error>>

(* wait_for_some_objects_(): from the last to the first. *)
WaitNext(c) ==
    /\ pc[c] \in {"undo_wait", "clearing_wait", "joining"}
    /\ it[c] > 0
    /\ WaitChild(At(c))
    /\ Step(c, it[c] - 1)
    /\ UNCHANGED <<SYNCHRONOUS_, state_, child_objects_, lock, pc, error>>

(* The error path of activate_object_(): the children are not waited for   *)
(* if the deactivation of one has thrown.                                  *)
UndoDeactivated(c) ==
    /\ pc[c] = "undo" /\ it[c] = 0
    /\ To(c, "undo_wait")
    /\ Step(c, IF error[c] THEN 0 ELSE Len(list[c]))
    /\ UNCHANGED <<SYNCHRONOUS_, state_, child_objects_, lock, child, busy, error, thrown>>

Undone(c) ==
    /\ pc[c] = "undo_wait" /\ it[c] = 0
    /\ state_' = "AS_NOT_ACTIVE"
    /\ lock' = "nobody"
    /\ Return(c)
    /\ UNCHANGED <<SYNCHRONOUS_, child_objects_, child, busy, thrown>>

(* cond_.broadcast() of deactivate_object(). *)
Broadcast == [d \in Callers |-> IF pc[d] = "waiting" THEN "woken" ELSE pc[d]]

(* A deactivation that goes from the first child to the last. *)
DeactivateReversed(c) ==
    /\ pc[c] = "idle" /\ lock = "nobody"
    /\ state_ = "AS_ACTIVE"
    /\ state_' = "AS_DEACTIVATING"
    /\ lock' = c
    /\ pc' = [Broadcast EXCEPT ![c] = "deactivating"]
    /\ LET n == Len(child_objects_)
       IN  Loop(c, [i \in 1 .. n |-> child_objects_[n + 1 - i]], n)
    /\ error' = [error EXCEPT ![c] = FALSE]
    /\ UNCHANGED <<SYNCHRONOUS_, child_objects_, child, busy, thrown>>

(* A deactivation without cond_.broadcast(). *)
DeactivateSilently(c) ==
    /\ pc[c] = "idle" /\ lock = "nobody"
    /\ state_ = "AS_ACTIVE"
    /\ state_' = "AS_DEACTIVATING"
    /\ lock' = c
    /\ To(c, "deactivating")
    /\ Loop(c, child_objects_, Len(child_objects_))
    /\ error' = [error EXCEPT ![c] = FALSE]
    /\ UNCHANGED <<SYNCHRONOUS_, child_objects_, child, busy, thrown>>

(* deactivate_object() and deactivate_object_() *)
deactivate_object(c) ==
    /\ pc[c] = "idle" /\ lock = "nobody"
    /\ state_ = "AS_ACTIVE"
    /\ state_' = "AS_DEACTIVATING"
    /\ lock' = c
    /\ pc' = [Broadcast EXCEPT ![c] = "deactivating"]
    /\ Loop(c, child_objects_, Len(child_objects_))
    /\ error' = [error EXCEPT ![c] = FALSE]
    /\ UNCHANGED <<SYNCHRONOUS_, child_objects_, child, busy, thrown>>

(* An end that does not mind a child that has thrown. *)
DeactivatedAnyway(c) ==
    /\ pc[c] = "deactivating" /\ it[c] = 0
    /\ lock' = "nobody"
    /\ Return(c)
    /\ UNCHANGED <<SYNCHRONOUS_, state_, child_objects_, child, busy, thrown>>

(* If a child has thrown, the state is AS_ACTIVE again. *)
Deactivated(c) ==
    /\ pc[c] = "deactivating" /\ it[c] = 0
    /\ state_' = IF error[c] THEN "AS_ACTIVE" ELSE state_
    /\ lock' = "nobody"
    /\ Return(c)
    /\ UNCHANGED <<SYNCHRONOUS_, child_objects_, child, busy, thrown>>

-----------------------------------------------------------------------------
(* A wait that is not repeated after a wake-up. *)
TestStateOnce(c) ==
    /\ lock = "nobody"
    /\ To(c, IF state_ = "AS_ACTIVE" /\ pc[c] = "idle" THEN "waiting" ELSE "copying")
    /\ UNCHANGED <<SYNCHRONOUS_, state_, child_objects_, lock, child, busy, list, it, error, thrown>>

(* while (state_ == AS_ACTIVE || wait_more_()) guard.wait() *)
TestState(c) ==
    /\ lock = "nobody"
    /\ To(c, IF state_ = "AS_ACTIVE" THEN "waiting" ELSE "copying")
    /\ UNCHANGED <<SYNCHRONOUS_, state_, child_objects_, lock, child, busy, list, it, error, thrown>>

wait_object(c) ==
    /\ pc[c] = "idle"
    /\ TestState(c)

WaitResumes(c) ==
    /\ pc[c] = "woken"
    /\ TestState(c)

SpuriousWakeup(c) ==
    /\ pc[c] = "waiting"
    /\ To(c, "woken")
    /\ UNCHANGED <<SYNCHRONOUS_, state_, child_objects_, lock, child, busy, list, it, error, thrown>>

(* wait_object_(): the list is copied under the lock. *)
CopyChildren(c) ==
    /\ pc[c] = "copying"
    /\ lock = "nobody"
    /\ To(c, "joining")
    /\ Loop(c, child_objects_, Len(child_objects_))
    /\ UNCHANGED <<SYNCHRONOUS_, state_, child_objects_, lock, child, busy, error, thrown>>

WaitDone(c) ==
    /\ pc[c] = "joining" /\ it[c] = 0
    /\ lock = "nobody"
    /\ state_' = IF state_ = "AS_DEACTIVATING" THEN "AS_NOT_ACTIVE" ELSE state_
    /\ Return(c)
    /\ UNCHANGED <<SYNCHRONOUS_, child_objects_, lock, child, busy, thrown>>

-----------------------------------------------------------------------------
Outside(x) == \A i \in 1 .. Len(child_objects_) : child_objects_[i] # x

WithChild(x, add_to_head) ==
    IF add_to_head THEN <<x>> \o child_objects_ ELSE Append(child_objects_, x)

(* add_child_object(): a child of an active composite is activated if it   *)
(* is not active (when it throws, nothing is added); a child of another    *)
(* one that is active is first deactivated and waited for under the lock.  *)
add_child_object(c, x, add_to_head) ==
    /\ pc[c] = "idle" /\ lock = "nobody"
    /\ Outside(x)
    /\ \/ /\ child[x] = "AS_ACTIVE" <=> state_ = "AS_ACTIVE"
          /\ child_objects_' = WithChild(x, add_to_head)
          /\ UNCHANGED <<lock, child, busy, pc, list, it, thrown>>
       \/ /\ child[x] # "AS_ACTIVE" /\ state_ = "AS_ACTIVE"
          /\ ActivateChild(x)
          /\ child_objects_' = WithChild(x, add_to_head)
          /\ UNCHANGED <<lock, pc, list, it>>
       \/ /\ child[x] = "AS_ACTIVE" /\ state_ # "AS_ACTIVE"
          /\ DeactivateChild(x)
          /\ lock' = c
          /\ To(c, "adding")
          /\ Loop(c, WithChild(x, add_to_head), IF add_to_head THEN 1 ELSE Len(child_objects_) + 1)
          /\ UNCHANGED child_objects_
    /\ UNCHANGED <<SYNCHRONOUS_, state_, error>>

Added(c) ==
    /\ pc[c] = "adding"
    /\ WaitChild(At(c))
    /\ child_objects_' = list[c]
    /\ lock' = "nobody"
    /\ Return(c)
    /\ UNCHANGED <<SYNCHRONOUS_, state_>>

(* clear_children() *)
clear_children(c) ==
    /\ pc[c] = "idle" /\ lock = "nobody"
    /\ ~ClearWhileWaited => \A d \in Callers : pc[d] \notin InWait
    /\ IF state_ = "AS_NOT_ACTIVE"
         THEN /\ child_objects_' = <<>>
              /\ UNCHANGED <<lock, pc, list, it, error>>
         ELSE /\ lock' = c
              /\ To(c, "clearing")
              /\ Loop(c, child_objects_, Len(child_objects_))
              /\ error' = [error EXCEPT ![c] = FALSE]
              /\ UNCHANGED child_objects_
    /\ UNCHANGED <<SYNCHRONOUS_, state_, child, busy, thrown>>

(* The deactivation has thrown: all is left as it is; else wait. *)
ClearDeactivated(c) ==
    /\ pc[c] = "clearing" /\ it[c] = 0
    /\ IF error[c] THEN Return(c) /\ lock' = "nobody"
                   ELSE To(c, "clearing_wait") /\ Step(c, Len(list[c])) /\ UNCHANGED <<error, lock>>
    /\ UNCHANGED <<SYNCHRONOUS_, state_, child_objects_, child, busy, thrown>>

(* Nobody who waits on cond_ is told of the new state. *)
Cleared(c) ==
    /\ pc[c] = "clearing_wait" /\ it[c] = 0
    /\ state_' = "AS_NOT_ACTIVE"
    /\ child_objects_' = <<>>
    /\ lock' = "nobody"
    /\ Return(c)
    /\ UNCHANGED <<SYNCHRONOUS_, child, busy, thrown>>

-----------------------------------------------------------------------------
(* A caller goes on with what it has begun. *)
Continue(c) ==
    \/ ActivateNext(c) \/ ActivateFails(c) \/ Activated(c)
    \/ DeactivateNext(c) \/ DeactivateFails(c) \/ SyncWait(c) \/ WaitNext(c)
    \/ UndoDeactivated(c) \/ Undone(c) \/ Deactivated(c)
    \/ WaitResumes(c) \/ CopyChildren(c) \/ WaitDone(c)
    \/ Added(c) \/ ClearDeactivated(c) \/ Cleared(c)

Next ==
    \/ \E c \in Callers :
        \/ activate_object(c) \/ deactivate_object(c) \/ wait_object(c) \/ clear_children(c)
        \/ \E x \in Children, add_to_head \in BOOLEAN : add_child_object(c, x, add_to_head)
        \/ ActivateNext(c) \/ ActivateFails(c) \/ Activated(c)
        \/ DeactivateNext(c) \/ DeactivateFails(c) \/ SyncWait(c) \/ WaitNext(c)
        \/ UndoDeactivated(c) \/ Undone(c) \/ Deactivated(c)
        \/ WaitResumes(c) \/ SpuriousWakeup(c) \/ CopyChildren(c) \/ WaitDone(c)
        \/ Added(c) \/ ClearDeactivated(c) \/ Cleared(c)
    \/ \E x \in Children : ChildFinishes(x)

Spec == Init /\ [][Next]_vars

-----------------------------------------------------------------------------
Owned == {child_objects_[i] : i \in 1 .. Len(child_objects_)}

(* CompositeActiveObject.hpp says "Control for consistent state, any time  *)
(* all object that it own must be active or not active".  What the code    *)
(* keeps of it, whenever nobody is in the middle of a change, however      *)
(* activations and waits overlap: an active composite has only active      *)
(* children, unless one of them has thrown in deactivate_object() and the  *)
(* state has been set back; one that is not active has no active child but *)
(* such as have thrown; and one that is being deactivated has none at all, *)
(* whoever has thrown.  The variables have their types.                    *)
ConsistentChildren ==
    /\ TypeOK
    /\ lock = "nobody" =>
         /\ state_ = "AS_ACTIVE" =>
              thrown # {} \/ \A x \in Owned : child[x] = "AS_ACTIVE"
         /\ state_ = "AS_NOT_ACTIVE" =>
              \A x \in Owned : child[x] = "AS_ACTIVE" => x \in thrown
         /\ state_ = "AS_DEACTIVATING" => \A x \in Owned : child[x] # "AS_ACTIVE"

(* "straight activation order, first added - first activated, and ... last *)
(* added, deactivate and join first": with SYNCHRONOUS_ a child starts     *)
(* after all those before it in the list and has stopped before any of     *)
(* them is told to stop.                                                   *)
StopOrder ==
    SYNCHRONOUS_ =>
        \A i, j \in 1 .. Len(child_objects_) :
            i < j /\ child[child_objects_[j]] # "AS_NOT_ACTIVE"
                => child[child_objects_[i]] = "AS_ACTIVE"

(* Composite and children keep the promise of ActiveObject as long as no   *)
(* wait overlaps an activation (~Overlap) and no child throws when it is   *)
(* told to stop; in the midst of an activation the composite counts as     *)
(* active.                                                                 *)
Promise == INSTANCE ActiveObject WITH
    Things <- Children,
    state  <- IF lock # "nobody" /\ pc[lock] = "activating" THEN "AS_ACTIVE" ELSE state_,
    live   <- {x \in Owned : child[x] # "AS_NOT_ACTIVE"}
ImplementsActiveObject == Promise!Spec

(* "Waits for deactivation all owned completion": whoever is in            *)
(* wait_object() returns once the composite has left AS_ACTIVE for good.   *)
WaitersReturn ==
    \A c \in Callers : <>[](state_ # "AS_ACTIVE") => []<>(pc[c] \notin InWait)
=============================================================================
