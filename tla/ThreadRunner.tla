----------------------------- MODULE ThreadRunner -----------------------------
(***************************************************************************)
(* Generics::ThreadRunner (src/Generics/ThreadRunner.cpp): a client thread *)
(* creates the threads of a group, opens a gate (start_semaphore_) for all *)
(* of them at once, and joins them.  start(), start_one() and              *)
(* wait_for_completion() are documented as thread unsafe: one client calls *)
(* them one after another, the created threads run concurrently with it.   *)
(* The semaphore is the atomic one of CountingSemaphore.tla.               *)
(***************************************************************************)
EXTENDS Integers, FiniteSets

CONSTANTS
    NumberOfJobs,   \* number_of_jobs_
    MaxLeaks        \* bound: how many start() may fail at their first thread

ASSUME JobsAssumption == NumberOfJobs \in Nat \ {0}
ASSUME LeaksAssumption == MaxLeaks \in Nat

Jobs == 1 .. NumberOfJobs

VARIABLES
    thread,             \* thread[i]: where the thread of jobs_[i - 1] is
    start_semaphore_,
    number_running_,
    interrupt_start_,
    pc,                 \* where the client is
    to_start,           \* parameter of the start() in progress
    i_,                 \* index of the joining loop of wait_for_completion()
    failed,             \* the last start() had a failing pthread_create
    ran,                \* the jobs whose work() was entered since that start()
    leaked              \* how many start() have failed at their first thread

vars == <<thread, start_semaphore_, number_running_, interrupt_start_, pc,
          to_start, i_, failed, ran, leaked>>

(* none: not created, or joined.  created: before start_semaphore_.acquire *)
(* in thread_func_.  gate: between acquire and release.  past: before the  *)
(* test of interrupt_start_.                                               *)
ThreadStates == {"none", "created", "gate", "past", "working", "done"}

(* Types of the variables. *)
TypeOK ==
    /\ thread \in [Jobs -> ThreadStates]
    /\ start_semaphore_ \in Nat
    /\ number_running_ \in 0 .. NumberOfJobs
    /\ interrupt_start_ \in BOOLEAN
    /\ pc \in {"idle", "creating", "joining"}
    /\ to_start \in 0 .. NumberOfJobs
    /\ i_ \in 1 .. NumberOfJobs + 1
    /\ failed \in BOOLEAN
    /\ ran \in SUBSET Jobs
    /\ leaked \in Nat

Init ==
    /\ thread = [i \in Jobs |-> "none"]
    /\ start_semaphore_ = 0
    /\ number_running_ = 0
    /\ interrupt_start_ = FALSE
    /\ pc = "idle"
    /\ to_start = 0
    /\ i_ = 1
    /\ failed = FALSE
    /\ ran = {}
    /\ leaked = 0

-----------------------------------------------------------------------------
(* start(n): n = 0 and n > number_of_jobs_ stand for all jobs.  A call on  *)
(* a started runner throws AlreadyStarted and changes nothing.             *)
start(n) ==
    /\ pc = "idle"
    /\ number_running_ = 0
    /\ to_start' = IF n = 0 \/ n > NumberOfJobs THEN NumberOfJobs ELSE n
    /\ interrupt_start_' = FALSE
    /\ pc' = "creating"
    /\ failed' = FALSE
    /\ ran' = {}
    /\ UNCHANGED <<thread, start_semaphore_, number_running_, i_, leaked>>

(* start_one_thread_() with a successful pthread_create. *)
Create ==
    /\ thread' = [thread EXCEPT ![number_running_ + 1] = "created"]
    /\ number_running_' = number_running_ + 1

(* One turn of the loop of start(). *)
start_one_thread_ ==
    /\ pc = "creating"
    /\ number_running_ < to_start
    /\ Create
    /\ UNCHANGED <<start_semaphore_, interrupt_start_, pc, to_start, i_, failed, ran, leaked>>

(* A handler of the failed creation that forgets interrupt_start_. *)
InterruptStartNoFlag ==
    /\ pc = "creating"
    /\ number_running_ < to_start
    /\ number_running_ > 0 \/ leaked < MaxLeaks
    /\ start_semaphore_' = start_semaphore_ + 1
    /\ leaked' = IF number_running_ = 0 THEN leaked + 1 ELSE leaked
    /\ failed' = TRUE
    /\ pc' = IF number_running_ = 0 THEN "idle" ELSE "joining"
    /\ i_' = 1
    /\ UNCHANGED <<thread, interrupt_start_, number_running_, to_start, ran>>

(* pthread_create fails in start(): the threads created so far are let     *)
(* through the gate with interrupt_start_ set, wait_for_completion() is    *)
(* called and the exception is thrown again.  When it was the first thread *)
(* of the group, wait_for_completion() finds number_running_ = 0, returns  *)
(* at once and leaves the unit just released in the semaphore.             *)
InterruptStart ==
    /\ pc = "creating"
    /\ number_running_ < to_start
    /\ number_running_ > 0 \/ leaked < MaxLeaks
    /\ interrupt_start_' = TRUE
    /\ start_semaphore_' = start_semaphore_ + 1
    /\ leaked' = IF number_running_ = 0 THEN leaked + 1 ELSE leaked
    /\ failed' = TRUE
    /\ pc' = IF number_running_ = 0 THEN "idle" ELSE "joining"
    /\ i_' = 1
    /\ UNCHANGED <<thread, number_running_, to_start, ran>>

(* All threads are created: the gate is opened and start() returns. *)
Started ==
    /\ pc = "creating"
    /\ number_running_ = to_start
    /\ start_semaphore_' = start_semaphore_ + 1
    /\ pc' = "idle"
    /\ UNCHANGED <<thread, number_running_, interrupt_start_, to_start, i_, failed, ran, leaked>>

(* start_one() on a started runner, as its callers use it; it throws when  *)
(* all jobs run or pthread_create fails, and changes nothing then.         *)
start_one ==
    /\ pc = "idle"
    /\ number_running_ \in 1 .. NumberOfJobs - 1
    /\ Create
    /\ UNCHANGED <<start_semaphore_, interrupt_start_, pc, to_start, i_, failed, ran, leaked>>

(* wait_for_completion() on a started runner begins its loop. *)
wait_for_completion ==
    /\ pc = "idle"
    /\ number_running_ > 0
    /\ pc' = "joining"
    /\ i_' = 1
    /\ UNCHANGED <<thread, start_semaphore_, number_running_, interrupt_start_,
                   to_start, failed, ran, leaked>>

(* pthread_join(jobs_[i].thread_id). *)
Join ==
    /\ pc = "joining"
    /\ i_ <= number_running_
    /\ thread[i_] = "done"
    /\ thread' = [thread EXCEPT ![i_] = "none"]
    /\ i_' = i_ + 1
    /\ UNCHANGED <<start_semaphore_, number_running_, interrupt_start_, pc,
                   to_start, failed, ran, leaked>>

(* The loop ends one thread too early. *)
CompletedEarly ==
    /\ pc = "joining"
    /\ i_ >= number_running_
    /\ start_semaphore_ > 0
    /\ start_semaphore_' = start_semaphore_ - 1
    /\ number_running_' = 0
    /\ pc' = "idle"
    /\ UNCHANGED <<thread, interrupt_start_, to_start, i_, failed, ran, leaked>>

(* The gate is left open behind the last thread. *)
CompletedGateOpen ==
    /\ pc = "joining"
    /\ i_ > number_running_
    /\ number_running_' = 0
    /\ pc' = "idle"
    /\ UNCHANGED <<thread, start_semaphore_, interrupt_start_, to_start, i_, failed, ran, leaked>>

(* After the loop: start_semaphore_.acquire() closes the gate. *)
Completed ==
    /\ pc = "joining"
    /\ i_ > number_running_
    /\ start_semaphore_ > 0
    /\ start_semaphore_' = start_semaphore_ - 1
    /\ number_running_' = 0
    /\ pc' = "idle"
    /\ UNCHANGED <<thread, interrupt_start_, to_start, i_, failed, ran, leaked>>

-----------------------------------------------------------------------------
(* thread_func_ of a created thread, step by step. *)
Step(i, from, to) ==
    /\ thread[i] = from
    /\ thread' = [thread EXCEPT ![i] = to]
    /\ UNCHANGED <<number_running_, interrupt_start_, pc, to_start, i_, failed, leaked>>

AcquireGate(i) ==
    /\ start_semaphore_ > 0
    /\ start_semaphore_' = start_semaphore_ - 1
    /\ Step(i, "created", "gate")
    /\ UNCHANGED ran

ReleaseGate(i) ==
    /\ start_semaphore_' = start_semaphore_ + 1
    /\ Step(i, "gate", "past")
    /\ UNCHANGED ran

(* if (!interrupt_start_): on_start() and work(), or nothing at all. *)
EnterWork(i) ==
    /\ \/ /\ ~interrupt_start_
          /\ Step(i, "past", "working")
          /\ ran' = ran \cup {i}
       \/ /\ interrupt_start_
          /\ Step(i, "past", "done")
          /\ UNCHANGED ran
    /\ UNCHANGED start_semaphore_

(* while (!interrupt_start_) instead of if (!interrupt_start_). *)
WorkAgain(i) ==
    /\ Step(i, "working", "past")
    /\ UNCHANGED <<start_semaphore_, ran>>

(* work() and on_stop() return. *)
LeaveWork(i) ==
    /\ Step(i, "working", "done")
    /\ UNCHANGED <<start_semaphore_, ran>>

thread_func_(i) ==
    AcquireGate(i) \/ ReleaseGate(i) \/ EnterWork(i) \/ LeaveWork(i)

Client ==
    \/ start_one_thread_ \/ InterruptStart \/ Started
    \/ Join \/ Completed

Next ==
    \/ \E n \in 0 .. NumberOfJobs + 1 : start(n)
    \/ start_one \/ wait_for_completion
    \/ Client
    \/ \E i \in Jobs : thread_func_(i)

Spec == Init /\ [][Next]_vars

-----------------------------------------------------------------------------
GateHolders == {i \in Jobs : thread[i] = "gate"}

(* Has the gate been opened for the present group of threads? *)
Opened == number_running_ > 0 /\ pc # "creating"

(* The units of the gate are accounted for.  start() puts one into         *)
(* start_semaphore_ for its group; it is in the semaphore or with one      *)
(* thread until wait_for_completion() takes it, or the last acquire()      *)
(* would block for ever.  Besides it there is a unit for every start() so  *)
(* far whose very first pthread_create failed, and for nothing else: these *)
(* are never taken back (ThreadRunner.cpp:213), and each of them lets a    *)
(* thread of a later group pass before the group is complete.              *)
GateInv ==
    start_semaphore_ + Cardinality(GateHolders) = leaked + (IF Opened THEN 1 ELSE 0)

(* A runner that is not started has no thread left: none is forgotten by   *)
(* the joins, so that its thread_id could be overwritten by the next       *)
(* start() and the thread never joined.                                    *)
NoThreadForgotten ==
    \A i \in Jobs : i > number_running_ => thread[i] = "none"

(* No job of a group whose creation failed is entered, as long as no       *)
(* start() of this runner has failed at its very first thread: a unit left *)
(* in the gate by such a start() is the only way in.                       *)
NoJobAfterFailure == failed /\ leaked = 0 => ran = {}

(* ThreadRunner.hpp:152: "If creation of a thread fails, no jobs will run" *)
(* - whatever happened to an earlier start() of the runner.                *)
FailedStartRunsNoJob == failed => ran = {}
=============================================================================
