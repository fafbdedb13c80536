----------------------------- MODULE MCGenerics -----------------------------
(***************************************************************************)
(* Components of src/Generics that share no state: a behaviour is one of   *)
(* the component chosen at its start, the others rest in their initial     *)
(* state.  Where fairness is assumed of the planner, its messages are for  *)
(* one goal.                                                               *)
(***************************************************************************)
EXTENDS Integers, Sequences, FiniteSets

CONSTANTS
    PeriodicTasks, AddWhileActive, ClearWhileActive,            \* Periodic
    Schedulers, Goals, MaxTime, MaxMessages,                    \* Planner
    Producers, PoolTasks, threads_number, PositionRange,        \* TaskPool
    Clients, Names, Nested, UpdateMayFail,                      \* FileCache, also MaxTime
    t1, t2, g1, c1, c2, c3              \* those RequestsServed follows

(* Without a thread the pool's choice of a queue is a division by zero.  A *)
(* file that is there has been written once, at time 1.                    *)
ASSUME GenericsAssumption ==
    /\ MaxTime \in Nat \ {0}
    /\ threads_number \in Nat \ {0} /\ PositionRange \in Nat \ {0}
    /\ Names # {}

VARIABLES
    component,
    pe_state, pe_jobs, quit_, start_, pe_pc, forced,
    delivery_time_adjustment_, now, messages_, have_new_events_, delivery_time_shift_,
    pl_terminating, pl_pc, cur_time, abs_time, pending, scheduler,
    task_queue_pos_, tasks_, waiting_threads_, is_terminating, worker, run_task, producer, given,
    tp_state, stopping,
    managed, st_mtime, last_modification_time_, content_, refs, fc_pc, name, mutex_

PE == INSTANCE Periodic WITH
        Tasks <- PeriodicTasks, active_state_ <- pe_state, jobs_ <- pe_jobs, pc <- pe_pc

PL == INSTANCE Planner WITH terminating_ <- pl_terminating, pc <- pl_pc

TP == INSTANCE TaskPool WITH
        Tasks <- PoolTasks, active_state_ <- tp_state

FC == INSTANCE FileCache WITH pc <- fc_pc

peVars == <<pe_state, pe_jobs, quit_, start_, pe_pc, forced>>
plVars == <<delivery_time_adjustment_, now, messages_, have_new_events_, delivery_time_shift_,
            pl_terminating, pl_pc, cur_time, abs_time, pending, scheduler>>
tpVars == <<task_queue_pos_, tasks_, waiting_threads_, is_terminating, worker, run_task, producer,
            given, tp_state, stopping>>
fcVars == <<managed, st_mtime, last_modification_time_, content_, refs, fc_pc, name, mutex_>>

all == <<component, peVars, plVars, tpVars, fcVars>>

On(name_) == component = name_

Planning == On("Planner") \/ On("PlannerFair")

Init ==
    /\ component \in {"Periodic", "Planner", "PlannerFair", "TaskPool", "FileCache"}
    /\ PE!Init /\ PL!Init /\ TP!Init /\ FC!Init
    /\ ~Planning => ~delivery_time_adjustment_
    /\ component # "FileCache" => ~managed

Next ==
    /\ UNCHANGED component
    /\ \/ /\ On("Periodic") /\ PE!Next
          /\ UNCHANGED <<plVars, tpVars, fcVars>>
       \/ /\ Planning /\ PL!Next
          /\ On("PlannerFair") => \A i \in DOMAIN messages_' : messages_'[i].goal = g1
          /\ UNCHANGED <<peVars, tpVars, fcVars>>
       \/ /\ On("TaskPool") /\ TP!Next
          /\ UNCHANGED <<peVars, plVars, fcVars>>
       \/ /\ On("FileCache") /\ FC!Next
          /\ UNCHANGED <<peVars, plVars, tpVars>>

Spec == Init /\ [][Next]_all

Managing == On("FileCache") /\ managed

(* Whoever has begun a call goes on with it and threads run, timeouts come *)
(* and actions and goals return; a controller that has deactivated a       *)
(* runner waits for it.  The clock goes on.  The mutex of the cache        *)
(* manager is handed out fairly and clients let their buffers go; without  *)
(* a manager nothing is assumed.                                           *)
FairSpec ==
    /\ Spec
    /\ \A t \in PeriodicTasks : WF_peVars(On("Periodic") /\ PE!run(t))
    /\ WF_peVars(On("Periodic") /\ PE!wait_object)
    /\ WF_plVars(On("PlannerFair") /\ PL!Tick) /\ WF_plVars(On("PlannerFair") /\ PL!work)
    /\ \A s \in Schedulers : WF_plVars(On("PlannerFair") /\ PL!SignalNewEvent(s))
    /\ \A p \in Producers : WF_tpVars(On("TaskPool") /\ TP!enqueue_steps(p))
    /\ \A q \in TP!Queues : /\ WF_tpVars(On("TaskPool") /\ TP!work(q))
                            /\ WF_tpVars(On("TaskPool") /\ TP!MakeTerminate(q))
                            /\ WF_tpVars(On("TaskPool") /\ TP!terminate(q))
    /\ WF_tpVars(On("TaskPool") /\ TP!wait_object)
    /\ \A c \in Clients :
         /\ WF_fcVars(Managing /\ (FC!GetUnchanged(c) \/ FC!GetNoFile(c) \/ FC!GetChanged(c) \/ FC!GetWoken(c)))
         /\ SF_fcVars(Managing /\ FC!LockManager(c))
         /\ \A n \in Names : WF_fcVars(Managing /\ FC!remove_ref_no_delete_(c, n))

-----------------------------------------------------------------------------
(* A sleeper is never left without the signal or the timeout that will     *)
(* wake it although there is work for it: the planner's thread with a goal *)
(* to deliver, a pool thread with a task, a client of a file's cache.  And *)
(* the thread of a periodic task does not end while the runner is active,  *)
(* by a quit_ left over from the last stop.                                *)
SleepersWillWake ==
    /\ PL!NoOversleeping /\ TP!NoTaskWithoutWakeup /\ FC!SomebodyWillWake
    /\ PE!ThreadsStayWhileActive

(* No goal is delivered before its time, less the shift that the working   *)
(* thread applies (none without the adjustment).                           *)
NeverEarly == PL!NeverEarly

(* What a client holds does not change under it: the cache of a file is    *)
(* updated only when nobody holds its content.                             *)
ContentStable == FC!ContentStable

Stopping ==
    \/ pe_state = "AS_DEACTIVATING"
    \/ tp_state = "AS_DEACTIVATING"
    \/ On("PlannerFair") /\ PL!Terminating

(* "Initiate stopping of threads": after deactivate_object() every thread  *)
(* of the component ends, wherever it is, and wait_object() returns.       *)
ThreadsStop == Stopping ~> ~Stopping

(* What is asked for happens: a goal of an active planner leaves the       *)
(* schedule, a task in the queue of an active pool is executed or cleared  *)
(* (even one left by an earlier activation), a task that is told to start  *)
(* does so as a forced one, and a get() of a managed cache returns.  As    *)
(* one component is at work, one formula stands for all; the goals of a    *)
(* planner are interchangeable.                                            *)
Asked(i) ==
    CASE On("PlannerFair") -> PL!Undelivered([time |-> i - 1, goal |-> g1])
      [] On("TaskPool") -> i <= threads_number /\ TP!Unserved(i - 1)
      [] On("Periodic") -> i <= 2 /\ PE!Told(<<t1, t2>>[i])
      [] On("FileCache") -> FC!InGet(<<c1, c2, c3>>[i])
      [] OTHER -> FALSE

Served(i) ==
    IF On("Periodic") THEN i <= 2 /\ PE!Started(<<t1, t2>>[i]) ELSE ~Asked(i)

RequestsServed == \A i \in 1 .. 3 : Asked(i) ~> Served(i)
=============================================================================
