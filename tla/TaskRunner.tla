------------------------------ MODULE TaskRunner ------------------------------
(***************************************************************************)
(* Generics::TaskRunner (src/Generics/TaskRunner.cpp): producers put tasks *)
(* into a queue, possibly bounded, that a growing pool of threads empties. *)
(* A controller activates and deactivates the pool, waits for it and       *)
(* clears the queue (src/Generics/ActiveObject.cpp, one calling thread).   *)
(*                                                                         *)
(* A critical section of tasks_lock_ is one step.  What the code does      *)
(* after it has left the section is a step of its own: the signal of       *)
(* new_task_ in enqueue_task, the signal of not_full_ in work, the growth  *)
(* of the pool in add_thread_i_, the broadcast of terminate().             *)
(*                                                                         *)
(* add_thread_i_ calls running() and start_one() of ThreadRunner without a *)
(* lock, so that they interleave with the joining loop of                  *)
(* wait_for_completion(): a thread created behind that loop is not joined. *)
(* Either it stands before the closed gate, or it has passed the gate      *)
(* before and goes on working.  Bound: a slot that holds such a thread is  *)
(* not given to another thread.                                            *)
(***************************************************************************)
EXTENDS Integers, Sequences, FiniteSets

CONSTANTS
    Producers,          \* threads that call enqueue_task()
    TimedProducers,     \* those that pass a timeout; the others pass NULL
    Tasks,              \* task objects; each can be enqueued any number of times
    NumberOfThreads,    \* threads_number
    start_threads,      \* threads to start with, as given to the constructor
    MaxPending,         \* MAX_PENDING_TASKS_, 0 for no limit
    Reactivation,       \* is the runner activated again after a wait_object()?
    ClearWhileWaiting   \* is clear() called while producers wait for room?

ASSUME ThreadsAssumption ==
    /\ NumberOfThreads \in Nat \ {0}
    /\ start_threads \in Nat
ASSUME PendingAssumption == MaxPending \in Nat
ASSUME SetsAssumption ==
    IsFiniteSet(Producers) /\ TimedProducers \subseteq Producers /\ IsFiniteSet(Tasks)
ASSUME FlagsAssumption == Reactivation \in BOOLEAN /\ ClearWhileWaiting \in BOOLEAN

Workers == 1 .. NumberOfThreads
Larger(a, b) == IF a > b THEN a ELSE b

(* std::max(start_threads, 1u), and what ThreadRunner::start makes of it.  *)
StartThreads == Larger(start_threads, 1)
FirstThreads == IF StartThreads > NumberOfThreads THEN NumberOfThreads ELSE StartThreads

NoTask == "no task"

VARIABLES
    active_state_, terminating_,    \* of ActiveObjectCommonImpl and SingleJob
    number_running_,                \* of ThreadRunner
    tasks_, number_of_unused_threads_, waiting_threads_, adding_thread_,
    worker,         \* worker[w]: where the thread of slot w is in work()
    run_task,       \* run_task[w]: the task that it has taken
    producer,       \* producer[p]: where p is in enqueue_task()
    flags,          \* flags[p]: its new_task_signal and try_add_thread
    slot,           \* the slot that start_one() is about to count, or 0
    ctl,            \* where the controller is
    joined          \* how many threads wait_for_completion() has joined

vars == <<active_state_, terminating_, number_running_, tasks_,
          number_of_unused_threads_, waiting_threads_, adding_thread_,
          worker, run_task, producer, flags, slot, ctl, joined>>

jobVars == <<active_state_, terminating_, number_running_, slot, ctl, joined>>
workerVars == <<worker, run_task, waiting_threads_>>
producerVars == <<producer, flags, adding_thread_>>

(* gate: created by start_one(), before the gate of ThreadRunner.  start:  *)
(* entered work().  top: back at the top of the loop after a task.         *)
(* waiting/woken: in new_task_.wait(), out of it but without tasks_lock_.  *)
(* took: has a task, not_full_ not signalled yet.                          *)
WorkerStates == {"none", "gate", "start", "top", "waiting", "woken", "took", "exec", "exited"}

(* waiting/woken: on not_full_.  pushed: the task is in the queue and      *)
(* tasks_lock_ is released.  adding: before ++adding_thread_.  growing: in *)
(* add_thread_i_.  creating: has reserved a thread in                      *)
(* number_of_unused_threads_.  checking: running() was not 0.  starting:   *)
(* before start_one().  created: before its ++number_running_.  undo:      *)
(* start_one() threw.  leaving: before --adding_thread_.                   *)
ProducerStates == {"idle", "waiting", "woken", "pushed", "adding", "growing",
                   "creating", "checking", "starting", "created", "undo", "leaving"}

In(state) == {w \in Workers : worker[w] = state}
Prod(state) == {p \in Producers : producer[p] = state}

(* Threads counted in number_of_unused_threads_: they run work(), or will, *)
(* and have no task.  (One at the top of the loop adds itself back first.) *)
Unused == {w \in Workers : worker[w] \in {"gate", "start", "waiting", "woken"}}

(* Types of the variables; the unsigned counters never go below zero, and  *)
(* waiting_threads_ counts the threads inside new_task_.wait().            *)
TypeOK ==
    /\ active_state_ \in {"AS_ACTIVE", "AS_DEACTIVATING", "AS_NOT_ACTIVE"}
    /\ terminating_ \in BOOLEAN
    /\ number_running_ \in 0 .. NumberOfThreads
    /\ tasks_ \in Seq(Tasks)
    /\ number_of_unused_threads_ \in Nat
    /\ waiting_threads_ = Cardinality(In("waiting") \cup In("woken"))
    /\ adding_thread_ \in Nat
    /\ worker \in [Workers -> WorkerStates]
    /\ run_task \in [Workers -> Tasks \cup {NoTask}]
    /\ producer \in [Producers -> ProducerStates]
    /\ flags \in [Producers -> [signal : BOOLEAN, add : BOOLEAN]]
    /\ slot \in 0 .. NumberOfThreads
    /\ ctl \in {"idle", "terminating", "joining", "drained", "completed", "stopped"}
    /\ joined \in 0 .. NumberOfThreads

Init ==
    /\ active_state_ = "AS_NOT_ACTIVE"
    /\ terminating_ = FALSE
    /\ number_running_ = 0
    /\ tasks_ = <<>>
    /\ number_of_unused_threads_ = StartThreads
    /\ waiting_threads_ = 0
    /\ adding_thread_ = 0
    /\ worker = [w \in Workers |-> "none"]
    /\ run_task = [w \in Workers |-> NoTask]
    /\ producer = [p \in Producers |-> "idle"]
    /\ flags = [p \in Producers |-> [signal |-> FALSE, add |-> FALSE]]
    /\ slot = 0
    /\ ctl = "idle"
    /\ joined = 0

-----------------------------------------------------------------------------
(* enqueue_task() *)

(* A section that signals for the first task of an empty queue only. *)
PushEdge(p) ==
    IF MaxPending = 0 \/ Len(tasks_) < MaxPending
      THEN /\ \E task \in Tasks : tasks_' = Append(tasks_, task)
           /\ flags' = [flags EXCEPT ![p] =
                          [signal |-> waiting_threads_ > 0 /\ tasks_ = <<>>,
                           add    |-> Len(tasks_) > number_of_unused_threads_]]
           /\ producer' = [producer EXCEPT ![p] = "pushed"]
      ELSE /\ producer' = [producer EXCEPT ![p] = "waiting"]
           /\ UNCHANGED <<tasks_, flags>>

(* The critical section of enqueue_task(), entered for the first time or   *)
(* after a wait on not_full_.                                              *)
Push(p) ==
    IF MaxPending = 0 \/ Len(tasks_) < MaxPending
      THEN /\ \E task \in Tasks : tasks_' = Append(tasks_, task)
           /\ flags' = [flags EXCEPT ![p] =
                          [signal |-> waiting_threads_ > 0,
                           add    |-> Len(tasks_) > number_of_unused_threads_]]
           /\ producer' = [producer EXCEPT ![p] = "pushed"]
      ELSE /\ producer' = [producer EXCEPT ![p] = "waiting"]
           /\ UNCHANGED <<tasks_, flags>>

enqueue_task(p) ==
    /\ producer[p] \in {"idle", "woken"}
    /\ Push(p)
    /\ UNCHANGED <<jobVars, workerVars, number_of_unused_threads_, adding_thread_>>

(* timed_wait() on not_full_ reaches the timeout: Overflow is thrown. *)
Overflow(p) ==
    /\ p \in TimedProducers
    /\ producer[p] = "waiting"
    /\ producer' = [producer EXCEPT ![p] = "idle"]
    /\ UNCHANGED <<jobVars, workerVars, tasks_, number_of_unused_threads_, flags, adding_thread_>>

SpuriousNotFull(p) ==
    /\ producer[p] = "waiting"
    /\ producer' = [producer EXCEPT ![p] = "woken"]
    /\ UNCHANGED <<jobVars, workerVars, tasks_, number_of_unused_threads_, flags, adding_thread_>>

(* new_task_.signal() if somebody was waiting, after the unlock. *)
SignalNewTask(p) ==
    /\ producer[p] = "pushed"
    /\ IF flags[p].signal /\ In("waiting") # {}
         THEN \E w \in In("waiting") : worker' = [worker EXCEPT ![w] = "woken"]
         ELSE UNCHANGED worker
    /\ producer' = [producer EXCEPT ![p] = IF flags[p].add THEN "adding" ELSE "idle"]
    /\ UNCHANGED <<jobVars, tasks_, number_of_unused_threads_, waiting_threads_,
                   run_task, flags, adding_thread_>>

(* A test of adding_thread_ that lets a second thread in. *)
EnterAddingTwice(p) ==
    /\ producer[p] = "adding"
    /\ adding_thread_' = adding_thread_ + 1
    /\ producer' = [producer EXCEPT ![p] = IF adding_thread_ <= 1 THEN "growing" ELSE "leaving"]
    /\ UNCHANGED <<jobVars, workerVars, tasks_, number_of_unused_threads_, flags>>

(* if (++adding_thread_ == 1) *)
EnterAdding(p) ==
    /\ producer[p] = "adding"
    /\ adding_thread_' = adding_thread_ + 1
    /\ producer' = [producer EXCEPT ![p] = IF adding_thread_ = 0 THEN "growing" ELSE "leaving"]
    /\ UNCHANGED <<jobVars, workerVars, tasks_, number_of_unused_threads_, flags>>

(* The critical section of add_thread_i_(). *)
Reserve(p) ==
    /\ producer[p] = "growing"
    /\ IF Len(tasks_) <= number_of_unused_threads_
         THEN /\ producer' = [producer EXCEPT ![p] = "leaving"]
              /\ UNCHANGED number_of_unused_threads_
         ELSE /\ producer' = [producer EXCEPT ![p] = "creating"]
              /\ number_of_unused_threads_' = number_of_unused_threads_ + 1
    /\ UNCHANGED <<jobVars, workerVars, tasks_, flags, adding_thread_>>

(* if (!running()): nothing is done before the activation; the reservation *)
(* stays.                                                                  *)
CheckRunning(p) ==
    /\ producer[p] = "creating"
    /\ producer' = [producer EXCEPT ![p] = IF number_running_ = 0 THEN "leaving" ELSE "checking"]
    /\ UNCHANGED <<jobVars, workerVars, tasks_, number_of_unused_threads_, flags, adding_thread_>>

(* running() == number_of_jobs(), called anew: the reservation stays. *)
CheckFull(p) ==
    /\ producer[p] = "checking"
    /\ producer' = [producer EXCEPT ![p] = IF number_running_ = NumberOfThreads THEN "leaving"
                                                                               ELSE "starting"]
    /\ UNCHANGED <<jobVars, workerVars, tasks_, number_of_unused_threads_, flags, adding_thread_>>

(* start_one() up to pthread_create: it throws when all threads run or the *)
(* creation fails.                                                         *)
start_one(p) ==
    /\ producer[p] = "starting"
    /\ \/ /\ number_running_ < NumberOfThreads
          /\ worker[number_running_ + 1] = "none"
          /\ worker' = [worker EXCEPT ![number_running_ + 1] = "gate"]
          /\ slot' = number_running_ + 1
          /\ producer' = [producer EXCEPT ![p] = "created"]
       \/ /\ producer' = [producer EXCEPT ![p] = "undo"]
          /\ UNCHANGED <<worker, slot>>
    /\ UNCHANGED <<active_state_, terminating_, number_running_, ctl, joined, tasks_,
                   number_of_unused_threads_, waiting_threads_, run_task, flags, adding_thread_>>

(* ++number_running_: a plain int, so that a reset of it by                *)
(* wait_for_completion() meanwhile may be seen or overwritten.             *)
CountOne(p) ==
    /\ producer[p] = "created"
    /\ number_running_' \in {number_running_ + 1, slot}
    /\ slot' = 0
    /\ producer' = [producer EXCEPT ![p] = "leaving"]
    /\ UNCHANGED <<active_state_, terminating_, ctl, joined, workerVars, tasks_,
                   number_of_unused_threads_, flags, adding_thread_>>

(* A handler of the failed start_one() that runs for the test, too. *)
UndoTwice(p) ==
    /\ producer[p] = "undo"
    /\ number_of_unused_threads_' = number_of_unused_threads_ - 2
    /\ producer' = [producer EXCEPT ![p] = "leaving"]
    /\ UNCHANGED <<jobVars, workerVars, tasks_, flags, adding_thread_>>

(* The catch block of add_thread_i_(). *)
UndoReserve(p) ==
    /\ producer[p] = "undo"
    /\ number_of_unused_threads_' = number_of_unused_threads_ - 1
    /\ producer' = [producer EXCEPT ![p] = "leaving"]
    /\ UNCHANGED <<jobVars, workerVars, tasks_, flags, adding_thread_>>

LeaveAdding(p) ==
    /\ producer[p] = "leaving"
    /\ adding_thread_' = adding_thread_ - 1
    /\ producer' = [producer EXCEPT ![p] = "idle"]
    /\ UNCHANGED <<jobVars, workerVars, tasks_, number_of_unused_threads_, flags>>

-----------------------------------------------------------------------------
(* work() *)

(* Has start() opened the gate, and wait_for_completion() not closed it?   *)
GateOpen == active_state_ # "AS_NOT_ACTIVE" /\ ctl \notin {"drained", "completed"}

(* thread_func_() of a thread that start_one() has created: acquire() and  *)
(* release() of start_semaphore_.                                          *)
PassGate(w) ==
    /\ worker[w] = "gate"
    /\ GateOpen
    /\ worker' = [worker EXCEPT ![w] = "start"]
    /\ UNCHANGED <<jobVars, producerVars, tasks_, number_of_unused_threads_,
                   waiting_threads_, run_task>>

(* The rest of the critical section of work() from the test of             *)
(* is_terminating() on; unused is the counter at that point.               *)
TakeOrWait(w, unused) ==
    \/ /\ terminating_
       /\ worker' = [worker EXCEPT ![w] = "exited"]
       /\ number_of_unused_threads_' = unused - 1
       /\ UNCHANGED <<tasks_, run_task>>
    \/ /\ ~terminating_
       /\ tasks_ = <<>>
       /\ worker' = [worker EXCEPT ![w] = "waiting"]
       /\ number_of_unused_threads_' = unused
       /\ UNCHANGED <<tasks_, run_task>>
    \/ /\ ~terminating_
       /\ tasks_ # <<>>
       /\ run_task' = [run_task EXCEPT ![w] = Head(tasks_)]
       /\ tasks_' = Tail(tasks_)
       /\ worker' = [worker EXCEPT ![w] = "took"]
       /\ number_of_unused_threads_' = unused - 1

(* The top of the loop: a thread that comes back from a task adds itself   *)
(* to number_of_unused_threads_ first.                                     *)
WorkTop(w) ==
    /\ worker[w] \in {"start", "top"}
    /\ TakeOrWait(w, number_of_unused_threads_ + (IF worker[w] = "top" THEN 1 ELSE 0))
    /\ waiting_threads_' = IF worker'[w] = "waiting" THEN waiting_threads_ + 1
                                                     ELSE waiting_threads_
    /\ UNCHANGED <<jobVars, producerVars>>

(* new_task_.wait() returned and tasks_lock_ is held again. *)
WorkWoken(w) ==
    /\ worker[w] = "woken"
    /\ TakeOrWait(w, number_of_unused_threads_)
    /\ waiting_threads_' = IF worker'[w] = "waiting" THEN waiting_threads_
                                                     ELSE waiting_threads_ - 1
    /\ UNCHANGED <<jobVars, producerVars>>

SpuriousWakeup(w) ==
    /\ worker[w] = "waiting"
    /\ worker' = [worker EXCEPT ![w] = "woken"]
    /\ UNCHANGED <<jobVars, producerVars, tasks_, number_of_unused_threads_,
                   waiting_threads_, run_task>>

(* A thread that signals when the queue was full before it took its task. *)
SignalNotFullEdge(w) ==
    /\ worker[w] = "took"
    /\ worker' = [worker EXCEPT ![w] = "exec"]
    /\ IF MaxPending > 0 /\ Len(tasks_) = MaxPending - 1 /\ Prod("waiting") # {}
         THEN \E p \in Prod("waiting") : producer' = [producer EXCEPT ![p] = "woken"]
         ELSE UNCHANGED producer
    /\ UNCHANGED <<jobVars, tasks_, number_of_unused_threads_, waiting_threads_,
                   run_task, flags, adding_thread_>>

(* A thread that does not signal when it has emptied the queue. *)
SignalNotFullUnlessEmpty(w) ==
    /\ worker[w] = "took"
    /\ worker' = [worker EXCEPT ![w] = "exec"]
    /\ IF MaxPending > 0 /\ tasks_ # <<>> /\ Prod("waiting") # {}
         THEN \E p \in Prod("waiting") : producer' = [producer EXCEPT ![p] = "woken"]
         ELSE UNCHANGED producer
    /\ UNCHANGED <<jobVars, tasks_, number_of_unused_threads_, waiting_threads_,
                   run_task, flags, adding_thread_>>

(* not_full_.signal() if the queue is bounded, after the unlock. *)
SignalNotFull(w) ==
    /\ worker[w] = "took"
    /\ worker' = [worker EXCEPT ![w] = "exec"]
    /\ IF MaxPending > 0 /\ Prod("waiting") # {}
         THEN \E p \in Prod("waiting") : producer' = [producer EXCEPT ![p] = "woken"]
         ELSE UNCHANGED producer
    /\ UNCHANGED <<jobVars, tasks_, number_of_unused_threads_, waiting_threads_,
                   run_task, flags, adding_thread_>>

(* execute() returns, or throws and the callback reports the error. *)
Execute(w) ==
    /\ worker[w] = "exec"
    /\ worker' = [worker EXCEPT ![w] = "top"]
    /\ run_task' = [run_task EXCEPT ![w] = NoTask]
    /\ UNCHANGED <<jobVars, producerVars, tasks_, number_of_unused_threads_, waiting_threads_>>

-----------------------------------------------------------------------------
(* The controller *)

(* clear(): the queue is emptied and nobody is told. *)
clear ==
    /\ ClearWhileWaiting \/ Prod("waiting") = {}
    /\ tasks_' = <<>>
    /\ UNCHANGED <<jobVars, producerVars, workerVars, number_of_unused_threads_>>

(* activate_object(): ThreadRunner::start(start_threads_), which throws    *)
(* AlreadyStarted if number_running_ is not 0.  Bound: not while a         *)
(* producer is in start_one(), nor with a thread left from before.         *)
activate_object ==
    /\ ctl = "idle"
    /\ active_state_ = "AS_NOT_ACTIVE"
    /\ number_running_ = 0
    /\ \A p \in Producers : producer[p] \notin {"checking", "starting", "created"}
    /\ \A w \in Workers : worker[w] = "none"
    /\ active_state_' = "AS_ACTIVE"
    /\ worker' = [w \in Workers |-> IF w <= FirstThreads THEN "start" ELSE "none"]
    /\ number_running_' = FirstThreads
    /\ UNCHANGED <<terminating_, slot, ctl, joined, producerVars, tasks_,
                   number_of_unused_threads_, waiting_threads_, run_task>>

(* deactivate_object() up to terminating_ = true in make_terminate(). *)
deactivate_object ==
    /\ ctl = "idle"
    /\ active_state_ = "AS_ACTIVE"
    /\ active_state_' = "AS_DEACTIVATING"
    /\ terminating_' = TRUE
    /\ ctl' = "terminating"
    /\ UNCHANGED <<number_running_, slot, joined, producerVars, workerVars, tasks_,
                   number_of_unused_threads_>>

(* A terminate() that wakes one thread only. *)
TerminateSignal ==
    /\ ctl = "terminating"
    /\ IF In("waiting") = {} THEN UNCHANGED worker
         ELSE \E w \in In("waiting") : worker' = [worker EXCEPT ![w] = "woken"]
    /\ ctl' = "joining"
    /\ joined' = 0
    /\ UNCHANGED <<active_state_, terminating_, number_running_, slot, producerVars, tasks_,
                   number_of_unused_threads_, waiting_threads_, run_task>>

(* terminate(): new_task_.broadcast(); then wait_object() is called, and   *)
(* with it wait_for_completion().                                          *)
terminate ==
    /\ ctl = "terminating"
    /\ worker' = [w \in Workers |-> IF worker[w] = "waiting" THEN "woken" ELSE worker[w]]
    /\ ctl' = "joining"
    /\ joined' = 0
    /\ UNCHANGED <<active_state_, terminating_, number_running_, slot, producerVars, tasks_,
                   number_of_unused_threads_, waiting_threads_, run_task>>

(* pthread_join in the loop of wait_for_completion(), which reads          *)
(* number_running_ anew each time.                                         *)
Join ==
    /\ ctl = "joining"
    /\ joined < number_running_
    /\ worker[joined + 1] = "exited"
    /\ worker' = [worker EXCEPT ![joined + 1] = "none"]
    /\ joined' = joined + 1
    /\ UNCHANGED <<active_state_, terminating_, number_running_, slot, ctl, producerVars, tasks_,
                   number_of_unused_threads_, waiting_threads_, run_task>>

(* Behind the loop start_semaphore_.acquire() closes the gate. *)
CloseGate ==
    /\ ctl = "joining"
    /\ joined >= number_running_
    /\ ctl' = "drained"
    /\ UNCHANGED <<active_state_, terminating_, number_running_, slot, joined, producerVars,
                   workerVars, tasks_, number_of_unused_threads_>>

(* number_running_ = 0, and wait_for_completion() returns. *)
Complete ==
    /\ ctl = "drained"
    /\ number_running_' = 0
    /\ ctl' = "completed"
    /\ UNCHANGED <<active_state_, terminating_, slot, joined, producerVars, workerVars, tasks_,
                   number_of_unused_threads_>>

(* The rest of wait_object(): terminated() is called and the state becomes *)
(* AS_NOT_ACTIVE.                                                          *)
wait_object ==
    /\ ctl = "completed"
    /\ terminating_' = FALSE
    /\ active_state_' = "AS_NOT_ACTIVE"
    /\ ctl' = IF Reactivation THEN "idle" ELSE "stopped"
    /\ UNCHANGED <<number_running_, slot, joined, producerVars, workerVars, tasks_,
                   number_of_unused_threads_>>

-----------------------------------------------------------------------------
enqueue_steps(p) ==
    \/ SignalNewTask(p) \/ EnterAdding(p) \/ Reserve(p) \/ CheckRunning(p) \/ CheckFull(p)
    \/ start_one(p) \/ CountOne(p) \/ UndoReserve(p) \/ LeaveAdding(p)
    \/ producer[p] = "woken" /\ enqueue_task(p)

work(w) == PassGate(w) \/ WorkTop(w) \/ WorkWoken(w) \/ SignalNotFull(w) \/ Execute(w)

Next ==
    \/ \E p \in Producers : \/ enqueue_task(p) \/ Overflow(p) \/ SpuriousNotFull(p)
                            \/ SignalNewTask(p) \/ EnterAdding(p) \/ Reserve(p)
                            \/ CheckRunning(p) \/ CheckFull(p) \/ start_one(p) \/ CountOne(p)
                            \/ UndoReserve(p) \/ LeaveAdding(p)
    \/ \E w \in Workers : \/ PassGate(w) \/ WorkTop(w) \/ WorkWoken(w) \/ SpuriousWakeup(w)
                          \/ SignalNotFull(w) \/ Execute(w)
    \/ activate_object \/ deactivate_object \/ terminate
    \/ Join \/ CloseGate \/ Complete \/ wait_object \/ clear

Spec == Init /\ [][Next]_vars

(* The scheduler runs every thread that can run, tasks return, and a       *)
(* controller that has deactivated the runner goes on to wait for it.      *)
(* Nobody has to enqueue, deactivate or clear.                             *)
FairSpec ==
    /\ Spec
    /\ \A p \in Producers : WF_vars(enqueue_steps(p))
    /\ \A w \in Workers : WF_vars(work(w))
    /\ WF_vars(terminate \/ Join \/ CloseGate \/ Complete \/ wait_object)

-----------------------------------------------------------------------------
(* Producers that have reserved a thread and not created it. *)
Reserved == {"creating", "checking", "starting", "undo"}

(* The counter of unused threads is never below the number of threads that *)
(* are idle, or about to be created by a producer that has reserved one:   *)
(* assert(number_of_unused_threads_ > 0) of work() cannot fail and the     *)
(* unsigned counter cannot wrap.  (For a runner activated once.)           *)
UnusedCoversIdle ==
    number_of_unused_threads_ >=
        Cardinality(Unused) + Cardinality({p \in Producers : producer[p] \in Reserved})

(* No task is left to a thread that sleeps: while some thread waits on     *)
(* new_task_, each task in the queue has a thread that is waking up for it *)
(* or a producer that is about to signal.                                  *)
NoTaskWithoutWakeup ==
    ~terminating_ /\ In("waiting") # {} =>
        Len(tasks_) <= Cardinality(In("woken"))
                        + Cardinality({p \in Prod("pushed") : flags[p].signal})

(* No producer sleeps beside a free place: while one waits on not_full_,   *)
(* each free place has a producer that is waking up for it or a thread     *)
(* about to signal.  (If clear() is not called while producers wait.)      *)
NoProducerForgotten ==
    MaxPending > 0 /\ Prod("waiting") # {} =>
        MaxPending - Len(tasks_) <= Cardinality(Prod("woken")) + Cardinality(In("took"))

(* ThreadRunner::start_one() is not thread safe: the atomic adding_thread_ *)
(* lets one producer at a time into add_thread_i_().                       *)
GrowersExcluded ==
    \A p, q \in Producers :
        {producer[p], producer[q]} \subseteq Reserved \cup {"growing", "created"} => p = q

(* work() asserts that the counter is positive when a thread takes a task. *)
AssertUnusedPositive ==
    [][\A w \in Workers : worker[w] \in {"start", "woken"} /\ worker'[w] = "took"
            => number_of_unused_threads_ > 0]_vars

(* Once the runner is deactivated, wait_object() returns: every thread     *)
(* that it joins sees the end, wherever it is, and producers that create   *)
(* threads meanwhile do not hold it up for ever.                           *)
WaitReturns ==
    (ctl = "terminating") ~> (ctl \notin {"terminating", "joining", "drained", "completed"})

(* While tasks are in the queue of an active runner, threads keep taking   *)
(* them, first in, first out, so that each has its turn, unless the runner *)
(* is deactivated.                                                         *)
TasksRun ==
    tasks_ # <<>> /\ active_state_ = "AS_ACTIVE"
        ~> tasks_ = <<>> \/ In("took") # {} \/ active_state_ # "AS_ACTIVE"

(* While producers wait for places, tasks keep entering the queue, unless  *)
(* the runner is deactivated.  (Which producer gets a place is not         *)
(* promised: one that has just come may overtake those that wait.)         *)
ProducersProceed ==
    Prod("waiting") # {} /\ active_state_ = "AS_ACTIVE"
        ~> Prod("waiting") = {} \/ Prod("pushed") # {} \/ active_state_ # "AS_ACTIVE"

(* Neither the threads nor the producers of an active runner are stuck     *)
(* beside a queue that has tasks, or places, for them.                     *)
WorkProceeds == TasksRun /\ ProducersProceed
=============================================================================
