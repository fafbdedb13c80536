--------------------------- MODULE ThreadingProofs ---------------------------
(***************************************************************************)
(* Theorems about Sync::Semaphore, for any finite set of threads, any      *)
(* initial count and any bound on it, and about Generics::ThreadRunner,    *)
(* for any number of jobs, whichever of its pthread_create calls fail.     *)
(***************************************************************************)
EXTENDS Semaphore, ThreadRunner, FiniteSetTheorems, TLAPS

-----------------------------------------------------------------------------
(* Semaphore *)

(* The number of woken threads is a number, and it changes by one when one *)
(* thread joins or leaves them.                                            *)
LEMMA WokenCount ==
    ASSUME SemaphoreTypeOK
    PROVE  /\ IsFiniteSet(woken)
           /\ Cardinality(woken) \in Nat
           /\ \A t \in Threads \ woken : Cardinality(woken \cup {t}) = Cardinality(woken) + 1
           /\ \A t \in woken : Cardinality(woken \ {t}) = Cardinality(woken) - 1
           /\ \A t : Cardinality(woken \ {t}) \in Nat
<1>1. IsFiniteSet(woken)
  BY ThreadsFinite, FS_Subset DEF SemaphoreTypeOK
<1>2. Cardinality(woken) \in Nat
  BY <1>1, FS_CardinalityType
<1>3. \A t \in Threads \ woken : Cardinality(woken \cup {t}) = Cardinality(woken) + 1
  BY <1>1, FS_AddElement
<1>4. \A t \in woken : Cardinality(woken \ {t}) = Cardinality(woken) - 1
  BY <1>1, FS_RemoveElement
<1>5. \A t : Cardinality(woken \ {t}) \in Nat
  <2> TAKE t
  <2>1. IsFiniteSet(woken \ {t})
    BY <1>1, FS_Subset
  <2> QED
    BY <2>1, FS_CardinalityType
<1> QED
  BY <1>1, <1>2, <1>3, <1>4, <1>5

(* The variables keep their types: in particular no thread is ever both    *)
(* blocked in the wait and on its way out of it.                           *)
THEOREM SemaphoreTypes == SemaphoreSpec => []SemaphoreTypeOK
<1>1. SemaphoreInit => SemaphoreTypeOK
  BY CountAssumption DEF SemaphoreInit, SemaphoreTypeOK, Results
<1>2. SemaphoreTypeOK /\ [SemaphoreNext]_semaphoreVars => SemaphoreTypeOK'
  <2> SUFFICES ASSUME SemaphoreTypeOK, [SemaphoreNext]_semaphoreVars PROVE SemaphoreTypeOK'
    OBVIOUS
  <2> USE DEF SemaphoreTypeOK, Results, Blocked, Return
  <2>1. CASE release
    BY <2>1 DEF release, Signal
  <2>2. ASSUME NEW t \in Threads, acquire(t) PROVE SemaphoreTypeOK'
    BY <2>2 DEF acquire, TryDecrement
  <2>3. ASSUME NEW t \in Threads, timed_acquire(t) PROVE SemaphoreTypeOK'
    BY <2>3 DEF timed_acquire, TryDecrement
  <2>4. ASSUME NEW t \in Threads, try_acquire(t) PROVE SemaphoreTypeOK'
    BY <2>4 DEF try_acquire
  <2>5. ASSUME NEW t \in Threads, Resume(t) PROVE SemaphoreTypeOK'
    BY <2>5 DEF Resume, TryDecrement
  <2>6. ASSUME NEW t \in Threads, SpuriousWakeup(t) PROVE SemaphoreTypeOK'
    BY <2>6 DEF SpuriousWakeup
  <2>7. ASSUME NEW t \in Threads, Timeout(t) PROVE SemaphoreTypeOK'
    BY <2>7 DEF Timeout
  <2>8. CASE UNCHANGED semaphoreVars
    BY <2>8 DEF semaphoreVars
  <2> QED
    BY <2>1, <2>2, <2>3, <2>4, <2>5, <2>6, <2>7, <2>8 DEF SemaphoreNext
<1> QED
  BY <1>1, <1>2, PTL DEF SemaphoreSpec

(* While a thread is blocked in the wait, there is a woken thread for      *)
(* every available unit.  The invariant is inductive relative to the types:*)
(* a thread starts to wait only at count_ <= 0, every increment above zero *)
(* wakes one more thread, and a woken thread leaves with a unit or waits   *)
(* again at count_ <= 0.                                                   *)
THEOREM NoWakeupIsLost == SemaphoreSpec => []NoLostWakeup
<1>1. SemaphoreInit => NoLostWakeup
  BY DEF SemaphoreInit, NoLostWakeup
<1>2. SemaphoreTypeOK /\ NoLostWakeup /\ [SemaphoreNext]_semaphoreVars => NoLostWakeup'
  <2> SUFFICES ASSUME SemaphoreTypeOK, NoLostWakeup, [SemaphoreNext]_semaphoreVars PROVE NoLostWakeup'
    OBVIOUS
  <2>0. /\ Cardinality(woken) \in Nat
        /\ \A t \in Threads \ woken : Cardinality(woken \cup {t}) = Cardinality(woken) + 1
        /\ \A t \in woken : Cardinality(woken \ {t}) = Cardinality(woken) - 1
        /\ \A t : Cardinality(woken \ {t}) \in Nat
    BY Zenon, WokenCount
  <2> USE DEF SemaphoreTypeOK, NoLostWakeup, Blocked
  <2>1. CASE release
    BY <2>0, <2>1 DEF release, Signal
  <2>2. ASSUME NEW t \in Threads, TryDecrement(t), t \notin Blocked PROVE NoLostWakeup'
    <3>1. woken' = woken
      BY <2>2 DEF TryDecrement
    <3>2. count_' <= 0 \/ (count_' = count_ - 1 /\ waiting' = waiting)
      BY <2>2 DEF TryDecrement
    <3> QED
      BY <2>0, <3>1, <3>2, <2>2 DEF TryDecrement
  <2>3. ASSUME NEW t \in Threads, Resume(t) PROVE NoLostWakeup'
    <3>1. woken' = woken \ {t} /\ Cardinality(woken \ {t}) = Cardinality(woken) - 1
      BY <2>0, <2>3 DEF Resume, TryDecrement
    <3>2. Cardinality(woken \ {t}) \in Nat
      BY Zenon, <2>0
    <3>3. CASE count_ <= 0
      BY <3>1, <3>2, <2>3, <3>3 DEF Resume, TryDecrement
    <3>4. CASE count_ > 0
      BY <2>0, <3>1, <2>3, <3>4 DEF Resume, TryDecrement
    <3> QED
      BY <3>3, <3>4
  <2>4. ASSUME NEW t \in Threads, try_acquire(t) PROVE NoLostWakeup'
    BY <2>0, <2>4 DEF try_acquire
  <2>5. ASSUME NEW t \in Threads, SpuriousWakeup(t) PROVE NoLostWakeup'
    BY <2>0, <2>5 DEF SpuriousWakeup
  <2>6. ASSUME NEW t \in Threads, Timeout(t) PROVE NoLostWakeup'
    BY <2>0, <2>6 DEF Timeout
  <2>7. CASE UNCHANGED semaphoreVars
    BY <2>7 DEF semaphoreVars
  <2> QED
    BY <2>1, <2>2, <2>3, <2>4, <2>5, <2>6, <2>7 DEF SemaphoreNext, acquire, timed_acquire
<1> QED
  BY <1>1, <1>2, SemaphoreTypes, PTL DEF SemaphoreSpec

(* The semaphore implements an atomic counting semaphore: every step of    *)
(* the mutex-and-condition code is a step of it or changes nothing in it.  *)
THEOREM CountsAtomically == SemaphoreSpec => ImplementsCounting
<1> USE DEF Counting!vars, Blocked
<1>1. SemaphoreInit => Counting!Init
  BY DEF SemaphoreInit, Counting!Init
<1>2. SemaphoreTypeOK /\ [SemaphoreNext]_semaphoreVars => [Counting!Next]_(Counting!vars)
  <2> SUFFICES ASSUME SemaphoreTypeOK, [SemaphoreNext]_semaphoreVars PROVE [Counting!Next]_(Counting!vars)
    OBVIOUS
  <2> USE DEF SemaphoreTypeOK, Return
  <2>1. CASE release
    <3>1. Counting!Release
      BY <2>1 DEF release, Signal, Counting!Release
    <3> QED
      BY <3>1 DEF Counting!Next
  <2>2. ASSUME NEW t \in Threads, acquire(t) PROVE Counting!Next
    <3>1. CASE count_ <= 0
      <4>1. Counting!Queue(t, FALSE)
        BY <2>2, <3>1 DEF acquire, TryDecrement, Counting!Queue
      <4> QED
        BY Zenon, <4>1 DEF Counting!Next
    <3>2. CASE count_ > 0
      <4>1. Counting!Take(t)
        BY <2>2, <3>2 DEF acquire, TryDecrement, Counting!Take
      <4> QED
        BY <4>1 DEF Counting!Next
    <3> QED
      BY <3>1, <3>2
  <2>3. ASSUME NEW t \in Threads, timed_acquire(t) PROVE Counting!Next
    <3>1. CASE count_ <= 0
      <4>1. Counting!Queue(t, TRUE)
        BY <2>3, <3>1 DEF timed_acquire, TryDecrement, Counting!Queue
      <4> QED
        BY Zenon, <4>1 DEF Counting!Next
    <3>2. CASE count_ > 0
      <4>1. Counting!Take(t)
        BY <2>3, <3>2 DEF timed_acquire, TryDecrement, Counting!Take
      <4> QED
        BY <4>1 DEF Counting!Next
    <3> QED
      BY <3>1, <3>2
  <2>4. ASSUME NEW t \in Threads, try_acquire(t) PROVE Counting!Next
    <3>1. Counting!Take(t) \/ Counting!GiveUp(t)
      BY <2>4 DEF try_acquire, Counting!Take, Counting!GiveUp
    <3> QED
      BY <3>1 DEF Counting!Next
  <2>5. ASSUME NEW t \in Threads, Resume(t)
        PROVE  Counting!Next \/ UNCHANGED Counting!vars
    <3>1. CASE count_ <= 0
      \* The woken thread only goes back to the wait.
      <4>1. waiting' \cup woken' = waiting \cup woken
        BY <2>5, <3>1 DEF Resume, TryDecrement
      <4>2. result' = result
        BY <2>5, <3>1 DEF Resume, TryDecrement
      <4> QED
        BY <4>1, <4>2, <2>5, <3>1 DEF Resume, TryDecrement
    <3>2. CASE count_ > 0
      <4>1. Counting!Take(t)
        BY <2>5, <3>2 DEF Resume, TryDecrement, Counting!Take
      <4> QED
        BY <4>1 DEF Counting!Next
    <3> QED
      BY <3>1, <3>2
  <2>6. ASSUME NEW t \in Threads, SpuriousWakeup(t) PROVE UNCHANGED Counting!vars
    BY <2>6 DEF SpuriousWakeup
  <2>7. ASSUME NEW t \in Threads, Timeout(t) PROVE Counting!Next
    <3>1. Counting!GiveUp(t)
      BY <2>7 DEF Timeout, Counting!GiveUp
    <3> QED
      BY <3>1 DEF Counting!Next
  <2>8. CASE UNCHANGED semaphoreVars
    BY <2>8 DEF semaphoreVars
  <2> QED
    BY <2>1, <2>2, <2>3, <2>4, <2>5, <2>6, <2>7, <2>8 DEF SemaphoreNext
<1> QED
  BY <1>1, <1>2, SemaphoreTypes, PTL DEF SemaphoreSpec, ImplementsCounting, Counting!Spec

-----------------------------------------------------------------------------
(* ThreadRunner *)

(* While start() creates, the created threads stand before the closed      *)
(* gate, if no earlier start() has left a unit in it.                      *)
CreatingInv ==
    pc = "creating" =>
      /\ number_running_ <= to_start
      /\ to_start > 0
      /\ ~failed
      /\ leaked = 0 =>
           /\ \A i \in Jobs : i <= number_running_ => thread[i] = "created"
           /\ ran = {}

(* Exactly the slots below number_running_ that are not joined yet hold a  *)
(* thread.                                                                 *)
SlotsInv ==
    /\ pc # "joining" => \A i \in Jobs : i <= number_running_ => thread[i] # "none"
    /\ pc = "joining" =>
         /\ number_running_ > 0
         /\ i_ <= number_running_ + 1
         /\ \A i \in Jobs : i < i_ => thread[i] = "none"
         /\ \A i \in Jobs : i_ <= i /\ i <= number_running_ => thread[i] # "none"

(* After a failure the flag stays up until every thread has been joined. *)
FailureInv ==
    /\ failed => interrupt_start_ /\ (pc = "idle" => number_running_ = 0)
    /\ NoJobAfterFailure

Inv ==
    TypeOK /\ GateInv /\ NoThreadForgotten /\ CreatingInv /\ SlotsInv /\ FailureInv

(* The invariant holds when the runner is constructed. *)
LEMMA InitInv == Init => Inv
<1> SUFFICES ASSUME Init PROVE Inv
  OBVIOUS
<1> USE JobsAssumption DEF Init, Jobs
<1>1. TypeOK
  <2>1. thread \in [Jobs -> ThreadStates]
    BY DEF ThreadStates
  <2>2. /\ start_semaphore_ \in Nat /\ leaked \in Nat /\ number_running_ \in 0 .. NumberOfJobs
        /\ to_start \in 0 .. NumberOfJobs /\ i_ \in 1 .. NumberOfJobs + 1
    OBVIOUS
  <2>3. interrupt_start_ \in BOOLEAN /\ failed \in BOOLEAN /\ ran \in SUBSET Jobs
    BY Zenon
  <2> QED
    BY <2>1, <2>2, <2>3 DEF TypeOK
<1>2. GateInv
  <2>1. GateHolders = {}
    BY DEF GateHolders
  <2> QED
    BY <2>1, FS_EmptySet DEF GateInv, Opened
<1>3. NoThreadForgotten /\ CreatingInv /\ SlotsInv /\ FailureInv
  BY DEF NoThreadForgotten, CreatingInv, SlotsInv, FailureInv, NoJobAfterFailure
<1> QED
  BY <1>1, <1>2, <1>3 DEF Inv

(* Every step keeps the types. *)
LEMMA TypeStep == Inv /\ [Next]_vars => TypeOK'
<1> SUFFICES ASSUME Inv, [Next]_vars PROVE TypeOK'
  OBVIOUS
<1> USE JobsAssumption DEF Inv, TypeOK, ThreadStates, Jobs
<1>1. ASSUME NEW n \in 0 .. NumberOfJobs + 1, start(n) PROVE TypeOK'
  <2>1. to_start' \in 0 .. NumberOfJobs
    BY <1>1 DEF start
  <2> QED
    BY Zenon, <2>1, <1>1 DEF start
<1>2. CASE start_one
  BY <1>2 DEF start_one, Create
<1>3. CASE wait_for_completion
  BY <1>3 DEF wait_for_completion
<1>4. CASE start_one_thread_
  BY <1>4 DEF start_one_thread_, Create
<1>5. CASE InterruptStart
  BY <1>5 DEF InterruptStart
<1>6. CASE Started
  BY <1>6 DEF Started
<1>7. CASE Join
  BY <1>7 DEF Join
<1>8. CASE Completed
  BY <1>8 DEF Completed
<1>9. ASSUME NEW i \in Jobs, thread_func_(i) PROVE TypeOK'
  <2>1. CASE AcquireGate(i)
    BY <2>1 DEF AcquireGate, Step
  <2>2. CASE ReleaseGate(i)
    BY <2>2 DEF ReleaseGate, Step
  <2>3. CASE EnterWork(i)
    BY Zenon, <2>3 DEF EnterWork, Step
  <2>4. CASE LeaveWork(i)
    BY <2>4 DEF LeaveWork, Step
  <2> QED
    BY <1>9, <2>1, <2>2, <2>3, <2>4 DEF thread_func_
<1>10. CASE UNCHANGED vars
  BY <1>10 DEF vars
<1> QED
  BY <1>1, <1>2, <1>3, <1>4, <1>5, <1>6, <1>7, <1>8, <1>9, <1>10 DEF Next, Client

(* The threads between acquire and release of the gate are finitely many.  *)
LEMMA GateHoldersFinite ==
    IsFiniteSet(GateHolders) /\ Cardinality(GateHolders) \in Nat
<1>1. IsFiniteSet(Jobs)
  BY JobsAssumption, FS_Interval DEF Jobs
<1>2. IsFiniteSet(GateHolders)
  BY <1>1, FS_Subset DEF GateHolders
<1> QED
  BY <1>2, FS_CardinalityType

(* Every step of the client keeps the invariant. *)
LEMMA ClientStep ==
    ASSUME Inv, TypeOK',
           \/ \E n \in 0 .. NumberOfJobs + 1 : start(n)
           \/ start_one \/ wait_for_completion \/ Client
    PROVE  Inv'
<1> USE JobsAssumption DEF Inv, TypeOK, Jobs, Opened
<1>0. Cardinality(GateHolders) \in Nat
  BY GateHoldersFinite
<1>1. ASSUME NEW n \in 0 .. NumberOfJobs + 1, start(n) PROVE Inv'
  <2>1. to_start' > 0
    BY <1>1 DEF start
  <2>2. GateInv' /\ NoThreadForgotten'
    BY <1>1 DEF start, GateInv, GateHolders, NoThreadForgotten
  <2>3. CreatingInv' /\ SlotsInv' /\ FailureInv'
    BY <1>1, <2>1 DEF start, CreatingInv, SlotsInv, FailureInv, NoJobAfterFailure
  <2> QED
    BY <2>2, <2>3
<1>2. CASE start_one
  <2> USE DEF start_one, Create
  <2>1. \A i \in Jobs : i # number_running_ + 1 => thread'[i] = thread[i]
    BY <1>2
  <2>2. thread'[number_running_ + 1] = "created" /\ thread[number_running_ + 1] = "none"
    BY <1>2 DEF NoThreadForgotten
  <2>3. GateHolders' = GateHolders
    BY <2>1, <2>2, <1>2 DEF GateHolders
  <2>4. GateInv'
    BY <2>3, <1>2 DEF GateInv
  <2>5. NoThreadForgotten' /\ CreatingInv' /\ SlotsInv' /\ FailureInv'
    BY <2>1, <2>2, <1>2 DEF NoThreadForgotten, CreatingInv, SlotsInv, FailureInv, NoJobAfterFailure
  <2> QED
    BY <2>4, <2>5
<1>3. CASE wait_for_completion
  <2>1. GateInv'
    BY <1>3 DEF wait_for_completion, GateInv, GateHolders
  <2> QED
    BY <1>3, <2>1 DEF wait_for_completion, NoThreadForgotten, CreatingInv, SlotsInv, FailureInv,
                      NoJobAfterFailure
<1>4. CASE start_one_thread_
  <2> USE DEF start_one_thread_, Create
  <2>1. \A i \in Jobs : i # number_running_ + 1 => thread'[i] = thread[i]
    BY <1>4
  <2>2. thread'[number_running_ + 1] = "created" /\ thread[number_running_ + 1] = "none"
    BY <1>4 DEF NoThreadForgotten
  <2>3. GateHolders' = GateHolders
    BY <2>1, <2>2, <1>4 DEF GateHolders
  <2>4. GateInv'
    BY <2>3, <1>4 DEF GateInv
  <2>5. NoThreadForgotten' /\ CreatingInv' /\ SlotsInv' /\ FailureInv'
    BY <2>1, <2>2, <1>4 DEF NoThreadForgotten, CreatingInv, SlotsInv, FailureInv, NoJobAfterFailure
  <2> QED
    BY <2>4, <2>5
<1>5. CASE InterruptStart
  <2> USE DEF InterruptStart
  <2>1. GateHolders' = GateHolders
    BY <1>5 DEF GateHolders
  <2>2. GateInv'
    BY <2>1, <1>5, <1>0 DEF GateInv
  <2>3. NoThreadForgotten' /\ CreatingInv'
    BY <1>5 DEF NoThreadForgotten, CreatingInv
  <2>4. SlotsInv'
    \* The threads created so far are there for the joining loop.
    BY <1>5 DEF SlotsInv
  <2>5. FailureInv'
    BY <1>5 DEF CreatingInv, FailureInv, NoJobAfterFailure
  <2> QED
    BY <2>2, <2>3, <2>4, <2>5
<1>6. CASE Started
  <2>1. GateHolders' = GateHolders
    BY <1>6 DEF Started, GateHolders
  <2>2. number_running_ > 0
    BY <1>6 DEF Started, CreatingInv
  <2>3. GateInv'
    BY <2>1, <2>2, <1>6, <1>0 DEF Started, GateInv
  <2> QED
    BY <1>6, <2>2, <2>3 DEF Started, NoThreadForgotten, CreatingInv, SlotsInv, FailureInv,
                            NoJobAfterFailure
<1>7. CASE Join
  <2> USE DEF Join
  <2>1. /\ thread'[i_] = "none" /\ thread[i_] = "done"
        /\ \A i \in Jobs : i # i_ => thread'[i] = thread[i]
    BY <1>7
  <2>2. GateHolders' = GateHolders
    BY <2>1, <1>7 DEF GateHolders
  <2>3. GateInv'
    BY <2>2, <1>7 DEF GateInv
  <2>4. NoThreadForgotten' /\ CreatingInv' /\ SlotsInv' /\ FailureInv'
    BY <2>1, <1>7 DEF NoThreadForgotten, CreatingInv, SlotsInv, FailureInv, NoJobAfterFailure
  <2> QED
    BY <2>3, <2>4
<1>8. CASE Completed
  <2> USE DEF Completed
  <2>1. \A i \in Jobs : thread[i] = "none"
    BY <1>8 DEF SlotsInv, NoThreadForgotten
  <2>2. GateHolders' = GateHolders
    BY <1>8 DEF GateHolders
  <2>3. GateInv'
    BY <2>2, <1>8, <1>0 DEF GateInv, SlotsInv
  <2> QED
    BY <2>1, <2>3, <1>8 DEF NoThreadForgotten, CreatingInv, SlotsInv, FailureInv, NoJobAfterFailure
<1> QED
  BY SMTT(30), <1>1, <1>2, <1>3, <1>4, <1>5, <1>6, <1>7, <1>8 DEF Client

(* Every step of a created thread keeps the invariant. *)
LEMMA ThreadStep ==
    ASSUME Inv, TypeOK', NEW i \in Jobs, thread_func_(i)
    PROVE  Inv'
<1> USE DEF Inv, TypeOK, Jobs, Step
<1>0. /\ \A j \in Jobs : j # i => thread'[j] = thread[j]
      /\ thread[i] \in {"created", "gate", "past", "working"}
      /\ thread'[i] # "none"
      /\ pc' = pc /\ number_running_' = number_running_ /\ i_' = i_ /\ failed' = failed
      /\ to_start' = to_start /\ interrupt_start_' = interrupt_start_ /\ leaked' = leaked
  BY DEF thread_func_, AcquireGate, ReleaseGate, EnterWork, LeaveWork
<1>1. NoThreadForgotten' /\ SlotsInv'
  BY <1>0 DEF NoThreadForgotten, SlotsInv
<1>2. i <= number_running_
  BY <1>0 DEF NoThreadForgotten
<1>3. pc = "creating" => leaked > 0
  \* Before the gate is opened, no created thread can move.
  <2> SUFFICES ASSUME pc = "creating", leaked = 0 PROVE FALSE
    OBVIOUS
  <2>1. thread[i] = "created"
    BY <1>2 DEF CreatingInv
  <2>2. start_semaphore_ = 0
    BY GateHoldersFinite DEF GateInv, Opened
  <2> QED
    BY <2>1, <2>2 DEF thread_func_, AcquireGate, ReleaseGate, EnterWork, LeaveWork
<1>4. CreatingInv'
  BY <1>0, <1>3 DEF CreatingInv
<1>5. FailureInv'
  BY <1>0 DEF FailureInv, NoJobAfterFailure, thread_func_, AcquireGate, ReleaseGate,
              EnterWork, LeaveWork
<1>6. Opened' = Opened
  BY <1>0 DEF Opened
<1>7. GateInv'
  <2>1. CASE AcquireGate(i)
    <3>1. i \notin GateHolders /\ GateHolders' = GateHolders \cup {i}
      BY <2>1, <1>0 DEF AcquireGate, GateHolders
    <3>2. Cardinality(GateHolders') = Cardinality(GateHolders) + 1
      BY <3>1, GateHoldersFinite, FS_AddElement
    <3> QED
      BY <3>2, <2>1, <1>0, <1>6, GateHoldersFinite DEF AcquireGate, GateInv
  <2>2. CASE ReleaseGate(i)
    <3>1. i \in GateHolders /\ GateHolders' = GateHolders \ {i}
      BY <2>2, <1>0 DEF ReleaseGate, GateHolders
    <3>2. Cardinality(GateHolders') = Cardinality(GateHolders) - 1
      BY <3>1, GateHoldersFinite, FS_RemoveElement
    <3> QED
      BY <3>2, <2>2, <1>0, <1>6, GateHoldersFinite DEF ReleaseGate, GateInv
  <2>3. CASE EnterWork(i) \/ LeaveWork(i)
    <3>1. GateHolders' = GateHolders /\ start_semaphore_' = start_semaphore_
      BY <2>3, <1>0 DEF EnterWork, LeaveWork, GateHolders
    <3> QED
      BY <3>1, <1>0, <1>6 DEF GateInv
  <2> QED
    BY <2>1, <2>2, <2>3 DEF thread_func_
<1> QED
  BY <1>1, <1>4, <1>5, <1>7

(* The invariant is inductive. *)
LEMMA Inductive == Spec => []Inv
<1>1. Init => Inv
  BY InitInv
<1>2. Inv /\ [Next]_vars => Inv'
  <2> SUFFICES ASSUME Inv, [Next]_vars PROVE Inv'
    OBVIOUS
  <2>1. TypeOK'
    BY TypeStep
  <2>2. CASE Next
    BY <2>1, <2>2, ClientStep, ThreadStep DEF Next
  <2>3. CASE UNCHANGED vars
    BY <2>3, <2>1 DEF vars, Inv, GateInv, Opened, GateHolders, NoThreadForgotten, CreatingInv,
       SlotsInv, FailureInv, NoJobAfterFailure, Jobs
  <2> QED
    BY <2>2, <2>3
<1> QED
  BY <1>1, <1>2, PTL DEF Spec

(* The runner's variables have their types: counters and semaphore never   *)
(* leave their ranges.                                                     *)
THEOREM TypeCorrect == Spec => []TypeOK
<1>1. Inv => TypeOK
  BY DEF Inv
<1> QED
  BY <1>1, Inductive, PTL

(* The gate holds one unit per started group, in the semaphore or with one *)
(* thread, and one for every start() that failed at its first thread.      *)
THEOREM GateIsBalanced == Spec => []GateInv
<1>1. Inv => GateInv
  BY DEF Inv
<1> QED
  BY <1>1, Inductive, PTL

(* A job of a group whose creation failed is never entered, as long as no  *)
(* start() has failed at its first thread.                                 *)
THEOREM FailedStartRunsNothing == Spec => []NoJobAfterFailure
<1>1. Inv => NoJobAfterFailure
  BY DEF Inv, FailureInv
<1> QED
  BY <1>1, Inductive, PTL

(* Slots above number_running_ hold no thread: all are joined, whichever   *)
(* creations failed.                                                       *)
THEOREM AllThreadsAreJoined == Spec => []NoThreadForgotten
<1>1. Inv => NoThreadForgotten
  BY DEF Inv
<1> QED
  BY <1>1, Inductive, PTL
=============================================================================
