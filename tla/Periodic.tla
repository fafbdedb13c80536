------------------------------ MODULE Periodic ------------------------------
(***************************************************************************)
(* Generics::PeriodicTask and PeriodicRunner (src/Generics/Periodic.cpp):  *)
(* every task has a thread that sleeps for the rest of the period and runs *)
(* it; the sleep can be cut short by enforce_start() or stop().            *)
(*                                                                         *)
(* quit_ and start_ are set under mutex_ but read and reset by the thread  *)
(* without it, and the thread does not look at them before it sleeps.      *)
(* Time is abstract: a sleep may end by its timeout at any moment.         *)
(***************************************************************************)
EXTENDS FiniteSets

CONSTANTS
    Tasks,
    AddWhileActive,     \* is add_task() called on an active runner?
    ClearWhileActive    \* is clear() called on an active runner?

VARIABLES
    active_state_, jobs_,   \* of PeriodicRunner
    quit_, start_,          \* the tasks whose flag is set
    pc,                     \* pc[t]: where the thread of t is in run()
    forced                  \* the tasks whose next action is a forced one

vars == <<active_state_, jobs_, quit_, start_, pc, forced>>

(* period: computes the wait.  waiting: in timed_wait().  woken: out of   *)
(* it.  quitting, starting: has seen the flag, not reset it yet.            *)
(* task: in run_once().                                                     *)
TypeOK ==
    /\ active_state_ \in {"AS_ACTIVE", "AS_DEACTIVATING", "AS_NOT_ACTIVE"}
    /\ jobs_ \subseteq Tasks
    /\ quit_ \subseteq Tasks /\ start_ \subseteq Tasks /\ forced \subseteq Tasks
    /\ pc \in [Tasks -> {"none", "period", "waiting", "woken", "quitting", "test_start",
                         "starting", "task", "exited"}]
    /\ \A t \in Tasks : active_state_ = "AS_NOT_ACTIVE" => pc[t] = "none"

Init ==
    /\ active_state_ = "AS_NOT_ACTIVE"
    /\ jobs_ = {} /\ quit_ = {} /\ start_ = {} /\ forced = {}
    /\ pc = [t \in Tasks |-> "none"]

To(t, where) == pc' = [pc EXCEPT ![t] = where]

-----------------------------------------------------------------------------
(* PeriodicTask::run() *)

BeginWait(t) ==
    /\ pc[t] = "period"
    /\ To(t, "waiting")
    /\ UNCHANGED <<active_state_, jobs_, quit_, start_, forced>>

(* The timeout is reached, or the wait is over without a reason. *)
EndWait(t) ==
    /\ pc[t] = "waiting"
    /\ To(t, "woken")
    /\ UNCHANGED <<active_state_, jobs_, quit_, start_, forced>>

TestQuit(t) ==
    /\ pc[t] = "woken"
    /\ To(t, IF t \in quit_ THEN "quitting" ELSE "test_start")
    /\ UNCHANGED <<active_state_, jobs_, quit_, start_, forced>>

(* Without start_ the action runs when the period is over, else the thread *)
(* sleeps again: wait > Time::ZERO.                                        *)
TestStart(t) ==
    /\ pc[t] = "test_start"
    /\ \/ t \in start_ /\ To(t, "starting")
       \/ t \notin start_ /\ To(t, "task")
       \/ t \notin start_ /\ To(t, "waiting")
    /\ UNCHANGED <<active_state_, jobs_, quit_, start_, forced>>

(* An exit that does not reset quit_. *)
QuitFlagged(t) ==
    /\ pc[t] = "quitting"
    /\ To(t, "exited")
    /\ UNCHANGED <<active_state_, jobs_, quit_, start_, forced>>

Quit(t) ==
    /\ pc[t] = "quitting"
    /\ quit_' = quit_ \ {t}
    /\ To(t, "exited")
    /\ UNCHANGED <<active_state_, jobs_, start_, forced>>

Break(t) ==
    /\ pc[t] = "starting"
    /\ start_' = start_ \ {t}
    /\ forced' = forced \cup {t}
    /\ To(t, "task")
    /\ UNCHANGED <<active_state_, jobs_, quit_>>

(* A return from the action that resets start_, too. *)
RunOnceResets(t) ==
    /\ pc[t] = "task"
    /\ forced' = forced \ {t}
    /\ start_' = start_ \ {t}
    /\ To(t, "period")
    /\ UNCHANGED <<active_state_, jobs_, quit_>>

(* task() returns or throws. *)
run_once(t) ==
    /\ pc[t] = "task"
    /\ forced' = forced \ {t}
    /\ To(t, "period")
    /\ UNCHANGED <<active_state_, jobs_, quit_, start_>>

run(t) == BeginWait(t) \/ EndWait(t) \/ TestQuit(t) \/ TestStart(t) \/ Quit(t)
          \/ Break(t) \/ run_once(t)

-----------------------------------------------------------------------------
(* PeriodicRunner *)

(* cond_.signal() for every job. *)
WakeAll == [t \in Tasks |-> IF t \in jobs_ /\ pc[t] = "waiting" THEN "woken" ELSE pc[t]]

add_task(t) ==
    /\ active_state_ = "AS_NOT_ACTIVE" \/ AddWhileActive
    /\ t \notin jobs_
    /\ jobs_' = jobs_ \cup {t}
    /\ UNCHANGED <<active_state_, quit_, start_, pc, forced>>

clear ==
    /\ active_state_ = "AS_NOT_ACTIVE" \/ ClearWhileActive
    /\ jobs_' = {}
    /\ UNCHANGED <<active_state_, quit_, start_, pc, forced>>

(* A start that fails runs no job and leaves the runner as it was. *)
activate_object ==
    /\ active_state_ = "AS_NOT_ACTIVE"
    /\ active_state_' = "AS_ACTIVE"
    /\ pc' = [t \in Tasks |-> IF t \in jobs_ THEN "period" ELSE "none"]
    /\ UNCHANGED <<jobs_, quit_, start_, forced>>

(* signal_all_(&PeriodicTask::enforce_start), whatever the state *)
enforce_start_all ==
    /\ start_' = start_ \cup jobs_
    /\ pc' = WakeAll
    /\ UNCHANGED <<active_state_, jobs_, quit_, forced>>

(* A stop that wakes the threads and sets no flag. *)
DeactivateUnflagged ==
    /\ active_state_ = "AS_ACTIVE"
    /\ active_state_' = "AS_DEACTIVATING"
    /\ pc' = WakeAll
    /\ UNCHANGED <<jobs_, quit_, start_, forced>>

(* signal_all_(&PeriodicTask::stop) *)
deactivate_object ==
    /\ active_state_ = "AS_ACTIVE"
    /\ active_state_' = "AS_DEACTIVATING"
    /\ quit_' = quit_ \cup jobs_
    /\ pc' = WakeAll
    /\ UNCHANGED <<jobs_, start_, forced>>

(* All threads are joined.  A wait on a runner that is not active returns  *)
(* at once, one that begins on an active runner ends as this one does.     *)
wait_object ==
    /\ active_state_ = "AS_DEACTIVATING"
    /\ \A t \in Tasks : pc[t] \in {"none", "exited"}
    /\ active_state_' = "AS_NOT_ACTIVE"
    /\ pc' = [t \in Tasks |-> "none"]
    /\ UNCHANGED <<jobs_, quit_, start_, forced>>

-----------------------------------------------------------------------------
Next ==
    \/ \E t \in Tasks : \/ BeginWait(t) \/ EndWait(t) \/ TestQuit(t) \/ TestStart(t)
                        \/ Quit(t) \/ Break(t) \/ run_once(t) \/ add_task(t)
    \/ clear \/ activate_object \/ enforce_start_all \/ deactivate_object \/ wait_object

Spec == Init /\ [][Next]_vars

-----------------------------------------------------------------------------
(* "Each task has a separate thread assigned": no thread ends while the    *)
(* runner is active; a quit_ left over from the last stop would do that.   *)
(* The variables have their types.                                         *)
ThreadsStayWhileActive ==
    /\ TypeOK
    /\ active_state_ = "AS_ACTIVE" => \A t \in Tasks : pc[t] # "exited"

(* Has t been told to start?  Has it, or was the runner deactivated? *)
Told(t) == t \in start_ /\ t \in jobs_ /\ active_state_ = "AS_ACTIVE"
Started(t) == (pc[t] = "task" /\ t \in forced) \/ active_state_ # "AS_ACTIVE"
=============================================================================
