------------------------------ MODULE Semaphore ------------------------------
(***************************************************************************)
(* Sync::Semaphore (src/Sync/Semaphore.hpp), a counting semaphore built on *)
(* one mutex and one condition variable (src/Sync/Condition.cpp).          *)
(*                                                                         *)
(* Every method is one critical section, so a call that does not block is  *)
(* one atomic step.  A call that blocks leaves the critical section inside *)
(* pthread_cond_wait: the thread is in `waiting' until it is signalled, is *)
(* woken spuriously or reaches its deadline, then in `woken' until it has  *)
(* the mutex again and repeats the test of its loop.                       *)
(***************************************************************************)
EXTENDS Integers, FiniteSets

CONSTANTS
    Threads,     \* the threads that use the semaphore
    InitCount,   \* the constructor's argument
    MaxCount     \* bound of the model: release() is not called above it

ASSUME ThreadsFinite == IsFiniteSet(Threads)
ASSUME CountAssumption == InitCount \in Int /\ MaxCount \in Int

VARIABLES
    count_,      \* Semaphore::count_
    waiting,     \* threads blocked in pthread_cond_[timed]wait
    woken,       \* threads that left the wait and re-acquire the mutex
    timed,       \* the blocked threads that came through timed_acquire(&time)
    result       \* what the last call of each thread returned

semaphoreVars == <<count_, waiting, woken, timed, result>>

Results == {"none", "true", "false"}

(* Types of the variables: waiting and woken threads are disjoint, only a  *)
(* thread inside a call can be timed, and a call in progress has returned  *)
(* nothing.                                                                *)
SemaphoreTypeOK ==
    /\ count_ \in Int
    /\ waiting \in SUBSET Threads
    /\ woken \in SUBSET Threads
    /\ waiting \cap woken = {}
    /\ timed \in SUBSET (waiting \cup woken)
    /\ result \in [Threads -> Results]
    /\ \A t \in waiting \cup woken : result[t] = "none"

Blocked == waiting \cup woken

SemaphoreInit ==
    /\ count_ = InitCount
    /\ waiting = {}
    /\ woken = {}
    /\ timed = {}
    /\ result = [t \in Threads |-> "none"]

Return(t, r) == result' = [result EXCEPT ![t] = r]

(* pthread_cond_signal: one waiting thread leaves the wait, if there is    *)
(* one (more than one may leave: see SpuriousWakeup).                      *)
Signal ==
    IF waiting = {}
      THEN UNCHANGED <<waiting, woken>>
      ELSE \E t \in waiting :
             /\ waiting' = waiting \ {t}
             /\ woken' = woken \cup {t}

(* A thread that was woken once takes a unit without repeating the test.   *)
TryDecrementOnce(t) ==
    IF count_ <= 0 /\ t \notin woken
      THEN /\ waiting' = waiting \cup {t}
           /\ woken' = woken \ {t}
           /\ UNCHANGED count_
           /\ Return(t, "none")
      ELSE /\ count_' = count_ - 1
           /\ woken' = woken \ {t}
           /\ UNCHANGED waiting
           /\ Return(t, "true")

(* The loop test of acquire() and timed_acquire() and the decrement that   *)
(* follows it, for a thread that has the mutex.                            *)
TryDecrement(t) ==
    IF count_ <= 0
      THEN /\ waiting' = waiting \cup {t}
           /\ woken' = woken \ {t}
           /\ UNCHANGED count_
           /\ Return(t, "none")
      ELSE /\ count_' = count_ - 1
           /\ woken' = woken \ {t}
           /\ UNCHANGED waiting
           /\ Return(t, "true")

(* acquire(), and timed_acquire(nullptr), which calls it. *)
acquire(t) ==
    /\ t \notin Blocked
    /\ TryDecrement(t)
    /\ UNCHANGED timed

timed_acquire(t) ==
    /\ t \notin Blocked
    /\ TryDecrement(t)
    /\ timed' = IF count_ <= 0 THEN timed \cup {t} ELSE timed

try_acquire(t) ==
    /\ t \notin Blocked
    /\ IF count_ > 0
         THEN count_' = count_ - 1 /\ Return(t, "true")
         ELSE UNCHANGED count_ /\ Return(t, "false")
    /\ UNCHANGED <<waiting, woken, timed>>

(* A release() that signals only when the counter leaves zero. *)
ReleaseOnEdge ==
    /\ count_ < MaxCount
    /\ count_' = count_ + 1
    /\ IF count_ + 1 = 1 THEN Signal ELSE UNCHANGED <<waiting, woken>>
    /\ UNCHANGED <<timed, result>>

release ==
    /\ count_ < MaxCount
    /\ count_' = count_ + 1
    /\ IF count_ + 1 > 0 THEN Signal ELSE UNCHANGED <<waiting, woken>>
    /\ UNCHANGED <<timed, result>>

(* The thread has the mutex back after its wait and repeats the loop. *)
Resume(t) ==
    /\ t \in woken
    /\ TryDecrement(t)
    /\ timed' = IF count_ > 0 THEN timed \ {t} ELSE timed

(* pthread_cond_wait may return although nobody signalled. *)
SpuriousWakeup(t) ==
    /\ t \in waiting
    /\ waiting' = waiting \ {t}
    /\ woken' = woken \cup {t}
    /\ UNCHANGED <<count_, timed, result>>

(* pthread_cond_timedwait returns ETIMEDOUT: no signal was consumed, and   *)
(* timed_acquire() returns false without testing count_ again.             *)
Timeout(t) ==
    /\ t \in waiting \cap timed
    /\ waiting' = waiting \ {t}
    /\ timed' = timed \ {t}
    /\ Return(t, "false")
    /\ UNCHANGED <<count_, woken>>

SemaphoreNext ==
    \/ release
    \/ \E t \in Threads :
         \/ acquire(t) \/ timed_acquire(t) \/ try_acquire(t)
         \/ Resume(t) \/ SpuriousWakeup(t) \/ Timeout(t)

SemaphoreSpec == SemaphoreInit /\ [][SemaphoreNext]_semaphoreVars

(* A thread that left the wait gets the mutex in the end: nobody keeps it, *)
(* every critical section is finite.                                       *)
WokenResume == \A t \in Threads : WF_semaphoreVars(Resume(t))

(* No lost wake-up: while somebody is still blocked in the wait, every     *)
(* available unit has a woken thread on its way to it, whatever mix of     *)
(* barging acquirers, time-outs and spurious wake-ups came before.  It is  *)
(* why release() may signal one thread only, and must signal on every      *)
(* increment above zero, not only on the first.                            *)
NoLostWakeup == waiting # {} => count_ <= Cardinality(woken)

(* The calls of the semaphore, whatever the wake-ups behind them, are      *)
(* calls of an atomic counting semaphore: a unit is taken only from a      *)
(* positive counter, by one caller, and each call returns once.            *)
Counting == INSTANCE CountingSemaphore
              WITH value <- count_, pending <- Blocked
ImplementsCounting == Counting!Spec
=============================================================================
