-------------------------- MODULE CountingSemaphore --------------------------
(***************************************************************************)
(* What Sync::Semaphore promises its callers: a counter, a set of callers  *)
(* that want a unit of it, and nothing about mutexes, condition variables  *)
(* or wake-ups.  Semaphore.tla is shown to implement this.                 *)
(***************************************************************************)
EXTENDS Integers

CONSTANTS Threads, InitCount

VARIABLES
    value,      \* units available (an int, any initial value is accepted)
    pending,    \* callers inside acquire() or timed_acquire()
    timed,      \* the pending callers that may give up
    result      \* what the last call of a thread returned

vars == <<value, pending, timed, result>>

Init ==
    /\ value = InitCount
    /\ pending = {}
    /\ timed = {}
    /\ result = [t \in Threads |-> "none"]

(* A caller starts to wait; only when there is nothing to take. *)
Queue(t, isTimed) ==
    /\ t \notin pending
    /\ value <= 0
    /\ pending' = pending \cup {t}
    /\ timed' = IF isTimed THEN timed \cup {t} ELSE timed
    /\ result' = [result EXCEPT ![t] = "none"]
    /\ UNCHANGED value

(* One unit goes to one caller, that waited or that has just arrived. *)
Take(t) ==
    /\ value > 0
    /\ value' = value - 1
    /\ pending' = pending \ {t}
    /\ timed' = timed \ {t}
    /\ result' = [result EXCEPT ![t] = "true"]

(* A caller leaves with nothing: a timed one at its deadline, or one that  *)
(* never waits and finds nothing to take.                                  *)
GiveUp(t) ==
    /\ t \in timed \/ (t \notin pending /\ value <= 0)
    /\ pending' = pending \ {t}
    /\ timed' = timed \ {t}
    /\ result' = [result EXCEPT ![t] = "false"]
    /\ UNCHANGED value

Release ==
    /\ value' = value + 1
    /\ UNCHANGED <<pending, timed, result>>

Next ==
    \/ \E t \in Threads : Take(t) \/ GiveUp(t)
    \/ \E t \in Threads, b \in BOOLEAN : Queue(t, b)
    \/ Release

Spec == Init /\ [][Next]_vars
=============================================================================
