----------------------- MODULE ActiveObjectCommonImpl -----------------------
(***************************************************************************)
(* Generics::ActiveObjectCommonImpl (src/Generics/ActiveObject.cpp) with   *)
(* the parts of ThreadRunner it drives: several threads activate,          *)
(* deactivate and wait for one object, and TaskRunner's producers may add  *)
(* threads to it meanwhile (ThreadRunner::start_one).                      *)
(*                                                                         *)
(* work_mutex_ and termination_mutex_ are held across several steps;       *)
(* wait_object() reads active_state_ and number_running_ without           *)
(* work_mutex_.  The first pthread_create of a start() is assumed to       *)
(* succeed: ThreadRunner.tla is about the other case.                      *)
(*                                                                         *)
(* The code leaves it to the callers that the calls which ThreadRunner.hpp *)
(* names "Thread unsafe" do not meet.  Without Overlap the callers keep    *)
(* three rules: nobody is in wait_object() when activate_object() is       *)
(* called, or the other way round, and nobody is in add_thread_i_() while  *)
(* the object is not active.  With Overlap neither property below holds: a *)
(* wait_object() that has read AS_NOT_ACTIVE before an activation and a    *)
(* deactivation ends the latter without a join.                            *)
(***************************************************************************)
EXTENDS Integers, FiniteSets

CONSTANTS
    Callers,            \* threads that use the active object
    Growers,            \* threads in TaskRunner's add_thread_i_()
    NumberOfJobs,       \* number_of_jobs_
    StartThreads,       \* start_threads_ as ThreadRunner::start() takes it
    NumberOfThreads,    \* bound on the threads that exist at a time
    Overlap             \* do callers overlap calls of ThreadRunner (all thread unsafe)?

Slots == 1 .. NumberOfJobs
Threads == 1 .. NumberOfThreads

VARIABLES
    active_state_, terminating_,
    work_mutex_, termination_mutex_,    \* who holds them
    number_running_, jobs_, start_semaphore_, \* of ThreadRunner
    thread,     \* thread[t]: where thread t is; "none" when there is no such thread
    pc,         \* where a caller or a grower is
    i_          \* i_[c]: the join loop's counter

vars == <<active_state_, terminating_, work_mutex_, termination_mutex_,
          number_running_, jobs_, start_semaphore_, thread, pc, i_>>

objectVars == <<active_state_, terminating_, work_mutex_, termination_mutex_>>

Live == {t \in Threads : thread[t] # "none"}

InWait == {"completion", "joining", "drained", "terminated", "finishing"}

TypeOK ==
    /\ active_state_ \in {"AS_ACTIVE", "AS_DEACTIVATING", "AS_NOT_ACTIVE"}
    /\ terminating_ \in BOOLEAN
    /\ work_mutex_ \in Callers \cup {"nobody"}
    /\ termination_mutex_ \in Callers \cup {"nobody"}
    /\ number_running_ \in 0 .. NumberOfJobs
    /\ jobs_ \in [Slots -> Threads \cup {0}]
    /\ start_semaphore_ \in 0 .. 1
    /\ thread \in [Threads -> {"none", "gate", "working", "done"}]
    /\ pc \in [Callers \cup Growers -> {"idle", "creating", "created"} \cup InWait]
    /\ i_ \in [Callers -> 1 .. NumberOfJobs + 1]

Init ==
    /\ active_state_ = "AS_NOT_ACTIVE"
    /\ terminating_ = FALSE
    /\ work_mutex_ = "nobody"
    /\ termination_mutex_ = "nobody"
    /\ number_running_ = 0
    /\ jobs_ = [s \in Slots |-> 0]
    /\ start_semaphore_ = 0
    /\ thread = [t \in Threads |-> "none"]
    /\ pc = [c \in Callers \cup Growers |-> "idle"]
    /\ i_ = [c \in Callers |-> 1]

Activates == {c \in Callers : pc[c] \in {"creating", "created"}}
Waits == {c \in Callers : pc[c] \in InWait}

Go(c, from, to) == pc[c] = from /\ pc' = [pc EXCEPT ![c] = to]

-----------------------------------------------------------------------------
(* ThreadRunner::start_one_thread_(): pthread_create writes the handle into *)
(* the slot that number_running_ gives, which is incremented later.         *)
CreateThread ==
    /\ number_running_ < NumberOfJobs
    /\ \E t \in Threads \ Live :
        /\ jobs_' = [jobs_ EXCEPT ![number_running_ + 1] = t]
        /\ thread' = [thread EXCEPT ![t] = "gate"]

(* activate_object() under work_mutex_.  AlreadyActive and the             *)
(* AlreadyStarted of start() change nothing.                               *)
activate_object(c) ==
    /\ work_mutex_ = "nobody"
    /\ ~Overlap => Waits = {}
    /\ active_state_ = "AS_NOT_ACTIVE"
    /\ number_running_ = 0
    /\ Go(c, "idle", "creating")
    /\ active_state_' = "AS_ACTIVE"
    /\ work_mutex_' = c
    /\ UNCHANGED <<terminating_, termination_mutex_, number_running_, jobs_,
                   start_semaphore_, thread, i_>>

(* The loop of ThreadRunner::start(). *)
StartThread(c) ==
    /\ number_running_ < StartThreads
    /\ Go(c, "creating", "created")
    /\ CreateThread
    /\ UNCHANGED <<objectVars, number_running_, start_semaphore_, i_>>

CountThread(c) ==
    /\ Go(c, "created", "creating")
    /\ number_running_' = number_running_ + 1
    /\ UNCHANGED <<objectVars, jobs_, start_semaphore_, thread, i_>>

(* Thread creation fails: the threads that wait at the gate are let go     *)
(* without work and joined; activate_object() undoes the state.            *)
StartFails(c) ==
    /\ number_running_ \in 1 .. StartThreads - 1
    /\ Go(c, "creating", "idle")
    /\ thread' = [t \in Threads |-> "none"]
    /\ number_running_' = 0
    /\ active_state_' = "AS_NOT_ACTIVE"
    /\ work_mutex_' = "nobody"
    /\ UNCHANGED <<terminating_, termination_mutex_, jobs_, start_semaphore_, i_>>

(* All are created: the gate opens, the object is active. *)
Activated(c) ==
    /\ number_running_ >= StartThreads
    /\ Go(c, "creating", "idle")
    /\ start_semaphore_' = start_semaphore_ + 1
    /\ work_mutex_' = "nobody"
    /\ UNCHANGED <<active_state_, terminating_, termination_mutex_, number_running_,
                   jobs_, thread, i_>>

(* deactivate_object() under work_mutex_, make_terminate() included. *)
deactivate_object(c) ==
    /\ pc[c] = "idle"
    /\ ~Overlap => \A g \in Growers : pc[g] = "idle"
    /\ work_mutex_ = "nobody"
    /\ active_state_ = "AS_ACTIVE"
    /\ active_state_' = "AS_DEACTIVATING"
    /\ terminating_' = TRUE
    /\ UNCHANGED <<work_mutex_, termination_mutex_, number_running_, jobs_,
                   start_semaphore_, thread, pc, i_>>

-----------------------------------------------------------------------------
(* A wait_object() without termination_mutex_. *)
WaitUnguarded(c) ==
    /\ ~Overlap => Activates = {}
    /\ Go(c, "idle", IF active_state_ = "AS_NOT_ACTIVE" THEN "finishing" ELSE "completion")
    /\ UNCHANGED <<objectVars, number_running_, jobs_, start_semaphore_, thread, i_>>

(* wait_object(): termination_mutex_ is held to the end; active_state_ is  *)
(* read without work_mutex_.                                               *)
wait_object(c) ==
    /\ ~Overlap => Activates = {}
    /\ termination_mutex_ = "nobody"
    /\ termination_mutex_' = c
    /\ Go(c, "idle", IF active_state_ = "AS_NOT_ACTIVE" THEN "finishing" ELSE "completion")
    /\ UNCHANGED <<active_state_, terminating_, work_mutex_, number_running_, jobs_,
                   start_semaphore_, thread, i_>>

(* wait_for_completion(): if (number_running_) *)
wait_for_completion(c) ==
    /\ Go(c, "completion", IF number_running_ = 0 THEN "terminated" ELSE "joining")
    /\ i_' = [i_ EXCEPT ![c] = 1]
    /\ UNCHANGED <<objectVars, number_running_, jobs_, start_semaphore_, thread>>

Join(c) ==
    /\ pc[c] = "joining"
    /\ i_[c] <= number_running_
    /\ jobs_[i_[c]] # 0
    /\ thread[jobs_[i_[c]]] = "done"
    /\ thread' = [thread EXCEPT ![jobs_[i_[c]]] = "none"]
    /\ i_' = [i_ EXCEPT ![c] = @ + 1]
    /\ UNCHANGED <<objectVars, number_running_, jobs_, start_semaphore_, pc>>

(* A drain that leaves the last thread alone. *)
DrainEarly(c) ==
    /\ i_[c] >= number_running_
    /\ start_semaphore_ > 0
    /\ start_semaphore_' = start_semaphore_ - 1
    /\ Go(c, "joining", "drained")
    /\ UNCHANGED <<objectVars, number_running_, jobs_, thread, i_>>

Drain(c) ==
    /\ i_[c] > number_running_
    /\ start_semaphore_ > 0
    /\ start_semaphore_' = start_semaphore_ - 1
    /\ Go(c, "joining", "drained")
    /\ UNCHANGED <<objectVars, number_running_, jobs_, thread, i_>>

Reset(c) ==
    /\ Go(c, "drained", "terminated")
    /\ number_running_' = 0
    /\ i_' = [i_ EXCEPT ![c] = 1]
    /\ UNCHANGED <<objectVars, jobs_, start_semaphore_, thread>>

terminated(c) ==
    /\ Go(c, "terminated", "finishing")
    /\ terminating_' = FALSE
    /\ UNCHANGED <<active_state_, work_mutex_, termination_mutex_, number_running_,
                   jobs_, start_semaphore_, thread, i_>>

(* An end that starts over while the object is being deactivated. *)
WaitAgain(c) ==
    /\ work_mutex_ = "nobody"
    /\ Go(c, "finishing", IF active_state_ = "AS_DEACTIVATING" THEN "completion" ELSE "idle")
    /\ termination_mutex_' = IF active_state_ = "AS_DEACTIVATING" THEN c ELSE "nobody"
    /\ UNCHANGED <<active_state_, terminating_, work_mutex_, number_running_, jobs_,
                   start_semaphore_, thread, i_>>

(* The end of wait_object(), under work_mutex_. *)
WaitDone(c) ==
    /\ work_mutex_ = "nobody"
    /\ Go(c, "finishing", "idle")
    /\ active_state_' = IF active_state_ = "AS_DEACTIVATING" THEN "AS_NOT_ACTIVE"
                                                             ELSE active_state_
    /\ termination_mutex_' = "nobody"
    /\ UNCHANGED <<terminating_, work_mutex_, number_running_, jobs_, start_semaphore_,
                   thread, i_>>

-----------------------------------------------------------------------------
(* thread_func_: the thread passes the gate, the job works until it sees   *)
(* is_terminating().                                                       *)
PassGate(t) ==
    /\ thread[t] = "gate"
    /\ start_semaphore_ > 0
    /\ thread' = [thread EXCEPT ![t] = "working"]
    /\ UNCHANGED <<objectVars, number_running_, jobs_, start_semaphore_, pc, i_>>

FinishWork(t) ==
    /\ thread[t] = "working"
    /\ terminating_
    /\ thread' = [thread EXCEPT ![t] = "done"]
    /\ UNCHANGED <<objectVars, number_running_, jobs_, start_semaphore_, pc, i_>>

(* TaskRunner's add_thread_i_(): running() is tested, then start_one().    *)
Grow(g) ==
    /\ ~Overlap => active_state_ = "AS_ACTIVE" /\ Activates = {}
    /\ number_running_ \notin {0, NumberOfJobs}
    /\ Go(g, "idle", "creating")
    /\ UNCHANGED <<objectVars, number_running_, jobs_, start_semaphore_, thread, i_>>

start_one(g) ==
    /\ IF number_running_ = NumberOfJobs
         THEN Go(g, "creating", "idle") /\ UNCHANGED <<jobs_, thread>>
         ELSE Go(g, "creating", "created") /\ CreateThread
    /\ UNCHANGED <<objectVars, number_running_, start_semaphore_, i_>>

CountOne(g) ==
    /\ Go(g, "created", "idle")
    /\ number_running_' = number_running_ + 1
    /\ UNCHANGED <<objectVars, jobs_, start_semaphore_, thread, i_>>

-----------------------------------------------------------------------------
Activating(c) == StartThread(c) \/ CountThread(c) \/ Activated(c)

Waiting(c) ==
    \/ wait_for_completion(c) \/ Join(c) \/ Drain(c) \/ Reset(c) \/ terminated(c)
    \/ WaitDone(c)

Running(t) == PassGate(t) \/ FinishWork(t)

Next ==
    \/ \E c \in Callers :
        \/ activate_object(c) \/ StartThread(c) \/ CountThread(c) \/ StartFails(c)
        \/ Activated(c) \/ deactivate_object(c) \/ wait_object(c)
        \/ wait_for_completion(c) \/ Join(c) \/ Drain(c) \/ Reset(c) \/ terminated(c)
        \/ WaitDone(c)
    \/ \E t \in Threads : PassGate(t) \/ FinishWork(t)
    \/ \E g \in Growers : Grow(g) \/ start_one(g) \/ CountOne(g)

Spec == Init /\ [][Next]_vars

-----------------------------------------------------------------------------
(* As long as no wait overlaps an activation and nobody adds a thread to   *)
(* an object that is not active (~Overlap), the object keeps the promise   *)
(* of ActiveObject: its states come in order, and it is AS_NOT_ACTIVE      *)
(* again only when no thread of it is left.                                *)
Promise == INSTANCE ActiveObject WITH Things <- Threads, state <- active_state_, live <- Live
ImplementsActiveObject == Promise!Spec

(* The variables have their types, and under the same three rules every    *)
(* handle that wait_for_completion() has still to join is that of an       *)
(* existing thread, none of them there twice: nothing is joined twice.     *)
HandlesValid ==
    /\ TypeOK
    /\ \A c \in Callers : pc[c] = "joining" =>
         /\ \A s \in i_[c] .. number_running_ : jobs_[s] \in Live
         /\ \A s, u \in i_[c] .. number_running_ : jobs_[s] = jobs_[u] => s = u
=============================================================================
