------------------------------ MODULE TaskPool ------------------------------
(***************************************************************************)
(* Generics::TaskPool (src/Generics/TaskPool.cpp): one queue and one       *)
(* thread per processor; tasks are dealt to the queues in turn by an       *)
(* atomic counter.  The pool is a CompositeActiveObject of its processors. *)
(*                                                                         *)
(* A push and its signal are two steps: new_task_ is signalled after the   *)
(* lock is released, and only if a thread was waiting at the push.         *)
(***************************************************************************)
EXTENDS Naturals, Sequences, FiniteSets

CONSTANTS
    Producers,      \* callers of enqueue_task(), one call at a time each
    Tasks,          \* the tasks, each enqueued at most once
    threads_number, \* of the constructor
    PositionRange   \* task_queue_pos_ wraps here (2^32 in the build)

Queues == 0 .. threads_number - 1

VARIABLES
    task_queue_pos_,
    tasks_,             \* tasks_[q]: a sequence of tasks
    waiting_threads_,   \* waiting_threads_[q]
    is_terminating,     \* is_terminating[q], of the job of processor q
    worker,             \* worker[q]: where the thread of q is in work()
    run_task,           \* run_task[q]: the tasks (one or none) it executes
    producer,           \* producer[p]: idle, or the step of enqueue_task() and its queue
    given,              \* the tasks given to enqueue_task() so far
    active_state_,
    stopping            \* the queues deactivate_object() still has to broadcast

vars == <<task_queue_pos_, tasks_, waiting_threads_, is_terminating, worker, run_task,
          producer, given, active_state_, stopping>>

Idle == [at |-> "idle", q |-> 0, t |-> {}]

TypeOK ==
    /\ task_queue_pos_ \in 0 .. PositionRange - 1
    /\ tasks_ \in [Queues -> Seq(Tasks)]
    /\ waiting_threads_ \in [Queues -> {0, 1}]
    /\ is_terminating \in [Queues -> BOOLEAN]
    /\ worker \in [Queues -> {"off", "top", "waiting", "woken", "execute", "done"}]
    /\ run_task \in [Queues -> SUBSET Tasks]
    /\ producer \in [Producers -> [at : {"idle", "push", "signal"}, q : Queues, t : SUBSET Tasks]]
    /\ given \subseteq Tasks
    /\ active_state_ \in {"AS_ACTIVE", "AS_DEACTIVATING", "AS_NOT_ACTIVE"}
    /\ stopping \subseteq Queues

Init ==
    /\ task_queue_pos_ = 0
    /\ tasks_ = [q \in Queues |-> <<>>]
    /\ waiting_threads_ = [q \in Queues |-> 0]
    /\ is_terminating = [q \in Queues |-> FALSE]
    /\ worker = [q \in Queues |-> "off"]
    /\ run_task = [q \in Queues |-> {}]
    /\ producer = [p \in Producers |-> Idle]
    /\ given = {}
    /\ active_state_ = "AS_NOT_ACTIVE"
    /\ stopping = {}

control == <<active_state_, stopping, is_terminating>>

-----------------------------------------------------------------------------
(* enqueue_task() *)

(* The atomic increment chooses the queue. *)
enqueue_task(p, t) ==
    /\ producer[p].at = "idle"
    /\ t \notin given
    /\ given' = given \cup {t}
    /\ task_queue_pos_' = (task_queue_pos_ + 1) % PositionRange
    /\ producer' = [producer EXCEPT
           ![p] = [at |-> "push", q |-> task_queue_pos_' % threads_number, t |-> {t}]]
    /\ UNCHANGED <<tasks_, waiting_threads_, worker, run_task, control>>

(* A push that asks for a signal only when there are tasks in the queue. *)
PushEdge(p) ==
    LET q == producer[p].q IN
    /\ producer[p].at = "push"
    /\ \E t \in producer[p].t : tasks_' = [tasks_ EXCEPT ![q] = Append(@, t)]
    /\ producer' = [producer EXCEPT
           ![p] = IF waiting_threads_[q] > 0 /\ tasks_[q] # <<>>
                  THEN [at |-> "signal", q |-> q, t |-> {}] ELSE Idle]
    /\ UNCHANGED <<task_queue_pos_, waiting_threads_, worker, run_task, given, control>>

(* TaskQueue::enqueue_task(), under tasks_lock_ *)
Push(p) ==
    LET q == producer[p].q IN
    /\ producer[p].at = "push"
    /\ \E t \in producer[p].t : tasks_' = [tasks_ EXCEPT ![q] = Append(@, t)]
    /\ producer' = [producer EXCEPT
           ![p] = IF waiting_threads_[q] > 0
                  THEN [at |-> "signal", q |-> q, t |-> {}] ELSE Idle]
    /\ UNCHANGED <<task_queue_pos_, waiting_threads_, worker, run_task, given, control>>

Wake(q) == IF worker[q] = "waiting" THEN "woken" ELSE worker[q]

SignalNewTask(p) ==
    LET q == producer[p].q IN
    /\ producer[p].at = "signal"
    /\ worker' = [worker EXCEPT ![q] = Wake(q)]
    /\ producer' = [producer EXCEPT ![p] = Idle]
    /\ UNCHANGED <<task_queue_pos_, tasks_, waiting_threads_, run_task, given, control>>

-----------------------------------------------------------------------------
(* Job::work() *)

(* The part both passes of the loop share: take a task, or wait for one. *)
TakeOrWait(q, waiting) ==
    IF tasks_[q] = <<>>
    THEN /\ worker' = [worker EXCEPT ![q] = "waiting"]
         /\ waiting_threads_' = [waiting_threads_ EXCEPT ![q] = waiting + 1]
         /\ UNCHANGED <<tasks_, run_task>>
    ELSE /\ worker' = [worker EXCEPT ![q] = "execute"]
         /\ waiting_threads_' = [waiting_threads_ EXCEPT ![q] = waiting]
         /\ run_task' = [run_task EXCEPT ![q] = {Head(tasks_[q])}]
         /\ tasks_' = [tasks_ EXCEPT ![q] = Tail(@)]

WorkTop(q) ==
    /\ worker[q] = "top"
    /\ IF is_terminating[q]
       THEN worker' = [worker EXCEPT ![q] = "done"] /\ UNCHANGED <<tasks_, waiting_threads_, run_task>>
       ELSE TakeOrWait(q, waiting_threads_[q])
    /\ UNCHANGED <<task_queue_pos_, producer, given, control>>

(* Out of wait(), with the lock: the loop condition is tested again. *)
WorkWoken(q) ==
    /\ worker[q] = "woken"
    /\ IF is_terminating[q]
       THEN /\ worker' = [worker EXCEPT ![q] = "done"]
            /\ waiting_threads_' = [waiting_threads_ EXCEPT ![q] = @ - 1]
            /\ UNCHANGED <<tasks_, run_task>>
       ELSE TakeOrWait(q, waiting_threads_[q] - 1)
    /\ UNCHANGED <<task_queue_pos_, producer, given, control>>

SpuriousWakeup(q) ==
    /\ worker[q] = "waiting"
    /\ worker' = [worker EXCEPT ![q] = "woken"]
    /\ UNCHANGED <<task_queue_pos_, tasks_, waiting_threads_, run_task, producer, given, control>>

(* execute() returns or throws. *)
Execute(q) ==
    /\ worker[q] = "execute"
    /\ worker' = [worker EXCEPT ![q] = "top"]
    /\ run_task' = [run_task EXCEPT ![q] = {}]
    /\ UNCHANGED <<task_queue_pos_, tasks_, waiting_threads_, producer, given, control>>

-----------------------------------------------------------------------------
(* The life of the pool and of its processors. *)

activate_object ==
    /\ active_state_ = "AS_NOT_ACTIVE"
    /\ active_state_' = "AS_ACTIVE"
    /\ worker' = [q \in Queues |-> "top"]
    /\ UNCHANGED <<task_queue_pos_, tasks_, waiting_threads_, is_terminating, run_task, producer,
                   given, stopping>>

deactivate_object ==
    /\ active_state_ = "AS_ACTIVE"
    /\ active_state_' = "AS_DEACTIVATING"
    /\ stopping' = Queues
    /\ UNCHANGED <<task_queue_pos_, tasks_, waiting_threads_, is_terminating, worker, run_task,
                   producer, given>>

(* The composite deactivates its processors from the last to the first. *)
DeactivatedNow(q) == q \in stopping /\ \A r \in stopping : r <= q

(* make_terminate() of a processor's job: the flag, under the job's mutex. *)
MakeTerminate(q) ==
    /\ DeactivatedNow(q) /\ ~is_terminating[q]
    /\ is_terminating' = [is_terminating EXCEPT ![q] = TRUE]
    /\ UNCHANGED <<task_queue_pos_, tasks_, waiting_threads_, worker, run_task, producer, given,
                   active_state_, stopping>>

(* A terminate() without the broadcast. *)
TerminateSilently(q) ==
    /\ DeactivatedNow(q) /\ is_terminating[q]
    /\ stopping' = stopping \ {q}
    /\ UNCHANGED <<task_queue_pos_, tasks_, waiting_threads_, is_terminating, worker, run_task,
                   producer, given, active_state_>>

(* TaskQueue::terminate(): the broadcast, under tasks_lock_.  The pool      *)
(* broadcasts every queue once more at the end, which wakes nobody new.     *)
terminate(q) ==
    /\ DeactivatedNow(q) /\ is_terminating[q]
    /\ worker' = [worker EXCEPT ![q] = Wake(q)]
    /\ stopping' = stopping \ {q}
    /\ UNCHANGED <<task_queue_pos_, tasks_, waiting_threads_, is_terminating, run_task, producer,
                   given, active_state_>>

(* The threads are joined and terminated() resets the jobs' flags. *)
wait_object ==
    /\ active_state_ = "AS_DEACTIVATING" /\ stopping = {}
    /\ \A q \in Queues : worker[q] = "done"
    /\ active_state_' = "AS_NOT_ACTIVE"
    /\ worker' = [q \in Queues |-> "off"]
    /\ is_terminating' = [q \in Queues |-> FALSE]
    /\ UNCHANGED <<task_queue_pos_, tasks_, waiting_threads_, run_task, producer, given, stopping>>

(* The queues are emptied one after the other. *)
clear(q) ==
    /\ tasks_[q] # <<>>
    /\ tasks_' = [tasks_ EXCEPT ![q] = <<>>]
    /\ UNCHANGED <<task_queue_pos_, waiting_threads_, worker, run_task, producer, given, control>>

-----------------------------------------------------------------------------
enqueue_steps(p) == Push(p) \/ SignalNewTask(p)

work(q) == WorkTop(q) \/ WorkWoken(q) \/ Execute(q)

Next ==
    \/ \E p \in Producers : \/ \E t \in Tasks : enqueue_task(p, t)
                            \/ Push(p) \/ SignalNewTask(p)
    \/ \E q \in Queues : \/ WorkTop(q) \/ WorkWoken(q) \/ SpuriousWakeup(q) \/ Execute(q)
                         \/ MakeTerminate(q) \/ terminate(q) \/ clear(q)
    \/ activate_object \/ deactivate_object \/ wait_object

Spec == Init /\ [][Next]_vars

-----------------------------------------------------------------------------
(* A thread does not sleep over a task in its queue, unless the signal for  *)
(* it is on its way: the push saw waiting_threads_ and will signal.  The    *)
(* variables have their types.                                              *)
NoTaskWithoutWakeup ==
    /\ TypeOK
    /\ \A q \in Queues : worker[q] = "waiting" /\ tasks_[q] # <<>> =>
         \E p \in Producers : producer[p].at = "signal" /\ producer[p].q = q

(* Is there a task in queue q of an active pool whose thread executes none? *)
Unserved(q) == active_state_ = "AS_ACTIVE" /\ tasks_[q] # <<>> /\ worker[q] # "execute"
=============================================================================
