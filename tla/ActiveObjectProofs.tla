------------------------- MODULE ActiveObjectProofs -------------------------
(***************************************************************************)
(* Two results about ActiveObjectCommonImpl, for every number of callers,  *)
(* jobs and threads: wait_for_completion() joins only handles of existing  *)
(* threads and none twice, and the object with its threads implements      *)
(* ActiveObject: it is AS_NOT_ACTIVE again only when no thread is left.    *)
(*                                                                         *)
(* Neither is inductive.  That jobs_ holds the handles of the living       *)
(* threads, each once, depends on where everybody is: number_running_ is   *)
(* incremented after pthread_create has written the slot, and the join     *)
(* loop leaves handles of ended threads behind it.  So Handles ties the    *)
(* slots between the join counter and the slot last written to the living  *)
(* threads, one to one; Phases says what each value of active_state_       *)
(* implies for the semaphore, the counter and whoever is in wait_object(); *)
(* Locks says who can be where, from the two mutexes.                      *)
(***************************************************************************)
EXTENDS ActiveObjectCommonImpl, TLAPS

(* How the object is used and configured: nobody waits during an           *)
(* activation and nobody adds a thread to an object that is not active     *)
(* (~Overlap; without this both theorems are false), a producer adds a     *)
(* thread under TaskRunner's lock, one at a time, and start() has at least *)
(* one thread to start and room for all of them.                           *)
Discipline ==
    /\ ~Overlap
    /\ NumberOfJobs \in Nat /\ NumberOfThreads \in Nat
    /\ StartThreads \in 1 .. NumberOfJobs
    /\ Callers \cap Growers = {}
    /\ "nobody" \notin Callers
    /\ \A g, h \in Growers : g = h

(* Who is in activate_object() holds work_mutex_, who is in wait_object()  *)
(* holds termination_mutex_; never both at a time, and growers are at work *)
(* only on an active object.                                               *)
Locks ==
    /\ \A c \in Callers : (pc[c] \in {"creating", "created"}) <=> (work_mutex_ = c)
    /\ \A c \in Callers : (pc[c] \in InWait) <=> (termination_mutex_ = c)
    /\ work_mutex_ = "nobody" \/ termination_mutex_ = "nobody"
    /\ \A g \in Growers :
         /\ pc[g] \in {"idle", "creating", "created"}
         /\ pc[g] # "idle" => active_state_ = "AS_ACTIVE" /\ work_mutex_ = "nobody"

(* A runner with no thread, and one that has been started. *)
Idle == number_running_ = 0 /\ start_semaphore_ = 0 /\ Live = {}
Busy == number_running_ >= 1 /\ start_semaphore_ = 1

(* What active_state_ implies for ThreadRunner and the waiter. *)
Phases ==
    /\ terminating_ => active_state_ = "AS_DEACTIVATING"
    /\ work_mutex_ # "nobody" => active_state_ = "AS_ACTIVE" /\ start_semaphore_ = 0
    /\ active_state_ = "AS_NOT_ACTIVE" =>
         /\ Idle
         /\ \A c \in Callers : pc[c] \in InWait => pc[c] = "finishing"
    /\ active_state_ = "AS_ACTIVE" =>
         /\ work_mutex_ = "nobody" => Busy
         /\ \A c \in Callers : pc[c] \in InWait =>
                pc[c] = "completion" \/ (pc[c] = "joining" /\ i_[c] = 1)
    /\ active_state_ = "AS_DEACTIVATING" =>
         /\ termination_mutex_ = "nobody" => Busy /\ terminating_
         /\ \A c \in Callers :
              /\ pc[c] \in {"completion", "joining"} => Busy /\ terminating_
              /\ pc[c] = "drained" => start_semaphore_ = 0 /\ terminating_ /\ Live = {}
              /\ pc[c] = "terminated" => Idle /\ terminating_
              /\ pc[c] = "finishing" => Idle /\ ~terminating_
    /\ \A t \in Threads : thread[t] = "done" => terminating_

(* Has somebody created a thread and not counted it yet? *)
Created == \E p \in Callers \cup Growers : pc[p] = "created"

(* The last slot that holds a handle, and the first not joined yet. *)
Top == IF Created THEN number_running_ + 1 ELSE number_running_

Bottom == IF \E c \in Callers : pc[c] \in {"joining", "drained"}
          THEN i_[termination_mutex_] ELSE 1

(* The slots low .. high hold the living threads, each once. *)
Hold(jobs, low, high, live) ==
    /\ \A s \in low .. high : jobs[s] \in live
    /\ \A t \in live : \E s \in low .. high : jobs[s] = t
    /\ \A s, u \in low .. high : jobs[s] = jobs[u] => s = u

(* The slots between the join counter and the last one written. *)
Handles ==
    /\ Created => number_running_ < NumberOfJobs
    /\ \A c \in Callers : pc[c] = "joining" => i_[c] <= number_running_ + 1
    /\ \A c \in Callers : pc[c] = "drained" => i_[c] = number_running_ + 1
    /\ Hold(jobs_, Bottom, Top, Live)

(* The inductive invariant. *)
IInv == TypeOK /\ Locks /\ Phases /\ Handles

-----------------------------------------------------------------------------
(* A new handle in the slot after the last. *)
LEMMA HoldMore ==
    ASSUME NumberOfJobs \in Nat, NEW high \in Nat, high < NumberOfJobs,
           NEW jobs, DOMAIN jobs = 1 .. NumberOfJobs, NEW live, NEW t, t \notin live,
           Hold(jobs, 1, high, live)
    PROVE  Hold([jobs EXCEPT ![high + 1] = t], 1, high + 1, live \cup {t})
<1> DEFINE more == [jobs EXCEPT ![high + 1] = t]
<1>1. /\ more[high + 1] = t
      /\ \A s \in 1 .. high : more[s] = jobs[s]
  OBVIOUS
<1>2. \A s \in 1 .. high + 1 : s \in 1 .. high \/ s = high + 1
  OBVIOUS
<1>3. high + 1 \in 1 .. high + 1 /\ 1 .. high \subseteq 1 .. high + 1
  OBVIOUS
<1> HIDE DEF more
<1>4. \A s \in 1 .. high : more[s] \in live
  BY <1>1 DEF Hold
<1>5. \A s \in 1 .. high + 1 : more[s] \in live \cup {t}
  BY <1>1, <1>2, <1>4
<1>6. \A x \in live \cup {t} : \E s \in 1 .. high + 1 : more[s] = x
  BY <1>1, <1>3 DEF Hold
<1>7. \A s, u \in 1 .. high + 1 : more[s] = more[u] => s = u
  BY <1>1, <1>2, <1>4 DEF Hold
<1> QED
  BY Zenon, <1>5, <1>6, <1>7 DEF Hold, more

(* The first slot's thread has ended. *)
LEMMA HoldLess ==
    ASSUME NEW low \in Nat, NEW high \in Nat, low <= high, NEW jobs, NEW live,
           Hold(jobs, low, high, live)
    PROVE  Hold(jobs, low + 1, high, live \ {jobs[low]})
<1>1. \A s \in low + 1 .. high : s \in low .. high /\ s # low
  OBVIOUS
<1>2. \A s \in low .. high : s \in low + 1 .. high \/ s = low
  OBVIOUS
<1>3. low \in low .. high
  OBVIOUS
<1> QED
  BY <1>1, <1>2, <1>3, Zenon DEF Hold

(* No slots, no threads. *)
LEMMA HoldNone ==
    ASSUME NEW low \in Nat, NEW high \in Nat, low > high, NEW jobs, NEW live
    PROVE  Hold(jobs, low, high, live) <=> live = {}
<1>1. low .. high = {}
  OBVIOUS
<1> QED
  BY <1>1 DEF Hold

-----------------------------------------------------------------------------
(* Every action keeps the types. *)
LEMMA TypeStep ==
    ASSUME Discipline, IInv, [Next]_vars
    PROVE  TypeOK'
<1> USE DEF Discipline, IInv, TypeOK, Slots, Threads, InWait, Go, objectVars, Phases, Handles,
        Created, Live
<1>1. ASSUME NEW c \in Callers, activate_object(c) PROVE TypeOK'
  BY <1>1 DEF activate_object
<1>2. ASSUME NEW c \in Callers, StartThread(c) PROVE TypeOK'
  BY <1>2 DEF StartThread, CreateThread
<1>3. ASSUME NEW c \in Callers, CountThread(c) PROVE TypeOK'
  BY <1>3 DEF CountThread
<1>4. ASSUME NEW c \in Callers, StartFails(c) PROVE TypeOK'
  BY <1>4 DEF StartFails
<1>5. ASSUME NEW c \in Callers, Activated(c) PROVE TypeOK'
  BY <1>5 DEF Activated, Locks
<1>6. ASSUME NEW c \in Callers, deactivate_object(c) PROVE TypeOK'
  BY <1>6 DEF deactivate_object
<1>7. ASSUME NEW c \in Callers, wait_object(c) PROVE TypeOK'
  BY <1>7 DEF wait_object
<1>8. ASSUME NEW c \in Callers, wait_for_completion(c) PROVE TypeOK'
  BY <1>8 DEF wait_for_completion
<1>9. ASSUME NEW c \in Callers, Join(c) PROVE TypeOK'
  BY <1>9 DEF Join
<1>10. ASSUME NEW c \in Callers, Drain(c) PROVE TypeOK'
  BY <1>10 DEF Drain
<1>11. ASSUME NEW c \in Callers, Reset(c) PROVE TypeOK'
  BY <1>11 DEF Reset
<1>12. ASSUME NEW c \in Callers, terminated(c) PROVE TypeOK'
  BY Zenon, <1>12 DEF terminated
<1>13. ASSUME NEW c \in Callers, WaitDone(c) PROVE TypeOK'
  BY <1>13 DEF WaitDone
<1>14. ASSUME NEW t \in Threads, PassGate(t) PROVE TypeOK'
  BY <1>14 DEF PassGate
<1>15. ASSUME NEW t \in Threads, FinishWork(t) PROVE TypeOK'
  BY <1>15 DEF FinishWork
<1>16. ASSUME NEW g \in Growers, Grow(g) PROVE TypeOK'
  BY <1>16 DEF Grow
<1>17. ASSUME NEW g \in Growers, start_one(g) PROVE TypeOK'
  <2>1. CASE number_running_ = NumberOfJobs
    BY <1>17, <2>1 DEF start_one
  <2>2. CASE number_running_ # NumberOfJobs
    <3>1. PICK t \in Threads \ Live :
              /\ jobs_' = [jobs_ EXCEPT ![number_running_ + 1] = t]
              /\ thread' = [thread EXCEPT ![t] = "gate"]
      BY <1>17, <2>2 DEF start_one, CreateThread
    <3>2. /\ pc' = [pc EXCEPT ![g] = "created"]
          /\ UNCHANGED <<objectVars, number_running_, start_semaphore_, i_>>
      BY <1>17, <2>2 DEF start_one
    <3> QED
      BY Zenon, <3>1, <3>2
  <2> QED
    BY <2>1, <2>2
<1>18. ASSUME NEW g \in Growers, CountOne(g) PROVE TypeOK'
  BY <1>18 DEF CountOne
<1>19. CASE UNCHANGED vars
  BY <1>19 DEF vars
<1> QED
  BY Zenon, <1>1, <1>2, <1>3, <1>4, <1>5, <1>6, <1>7, <1>8, <1>9, <1>10, <1>11, <1>12, <1>13,
     <1>14, <1>15, <1>16, <1>17, <1>18, <1>19 DEF Next

(* Every action keeps the mutexes and the places in step. *)
LEMMA LocksStep ==
    ASSUME Discipline, IInv, [Next]_vars
    PROVE  Locks'
<1> USE DEF Discipline, IInv, TypeOK, Slots, Threads, InWait, Go, objectVars, Locks, Phases,
        Activates, Waits
<1>1. ASSUME NEW c \in Callers, activate_object(c) PROVE Locks'
  BY <1>1 DEF activate_object
<1>2. ASSUME NEW c \in Callers, StartThread(c) PROVE Locks'
  BY <1>2 DEF StartThread, CreateThread
<1>3. ASSUME NEW c \in Callers, CountThread(c) PROVE Locks'
  BY <1>3 DEF CountThread
<1>4. ASSUME NEW c \in Callers, StartFails(c) PROVE Locks'
  BY <1>4 DEF StartFails
<1>5. ASSUME NEW c \in Callers, Activated(c) PROVE Locks'
  BY <1>5 DEF Activated
<1>6. ASSUME NEW c \in Callers, deactivate_object(c) PROVE Locks'
  BY <1>6 DEF deactivate_object
<1>7. ASSUME NEW c \in Callers, wait_object(c) PROVE Locks'
  BY <1>7 DEF wait_object
<1>8. ASSUME NEW c \in Callers, wait_for_completion(c) PROVE Locks'
  BY <1>8 DEF wait_for_completion
<1>9. ASSUME NEW c \in Callers, Join(c) PROVE Locks'
  BY <1>9 DEF Join
<1>10. ASSUME NEW c \in Callers, Drain(c) PROVE Locks'
  BY <1>10 DEF Drain
<1>11. ASSUME NEW c \in Callers, Reset(c) PROVE Locks'
  BY <1>11 DEF Reset
<1>12. ASSUME NEW c \in Callers, terminated(c) PROVE Locks'
  BY <1>12 DEF terminated
<1>13. ASSUME NEW c \in Callers, WaitDone(c) PROVE Locks'
  BY <1>13 DEF WaitDone
<1>14. ASSUME NEW t \in Threads, PassGate(t) PROVE Locks'
  BY <1>14 DEF PassGate
<1>15. ASSUME NEW t \in Threads, FinishWork(t) PROVE Locks'
  BY <1>15 DEF FinishWork
<1>16. ASSUME NEW g \in Growers, Grow(g) PROVE Locks'
  BY <1>16 DEF Grow
<1>17. ASSUME NEW g \in Growers, start_one(g) PROVE Locks'
  BY <1>17 DEF start_one, CreateThread
<1>18. ASSUME NEW g \in Growers, CountOne(g) PROVE Locks'
  BY <1>18 DEF CountOne
<1>19. CASE UNCHANGED vars
  BY SMTT(30), <1>19 DEF vars
<1> QED
  BY <1>1, <1>2, <1>3, <1>4, <1>5, <1>6, <1>7, <1>8, <1>9, <1>10, <1>11, <1>12, <1>13,
     <1>14, <1>15, <1>16, <1>17, <1>18, <1>19 DEF Next

(* Every action keeps what active_state_ implies.  The last join leaves no *)
(* thread, since all slots up to number_running_ have been joined.         *)
LEMMA PhasesStep ==
    ASSUME Discipline, IInv, [Next]_vars
    PROVE  Phases'
<1> USE DEF Discipline, IInv, TypeOK, Slots, Threads, InWait, Go, objectVars, Locks, Phases,
        Idle, Busy, Live, Activates, Waits
<1>1. ASSUME NEW c \in Callers, activate_object(c) PROVE Phases'
  BY <1>1 DEF activate_object
<1>2. ASSUME NEW c \in Callers, StartThread(c) PROVE Phases'
  BY <1>2 DEF StartThread, CreateThread
<1>3. ASSUME NEW c \in Callers, CountThread(c) PROVE Phases'
  BY <1>3 DEF CountThread
<1>4. ASSUME NEW c \in Callers, StartFails(c) PROVE Phases'
  BY <1>4 DEF StartFails
<1>5. ASSUME NEW c \in Callers, Activated(c) PROVE Phases'
  BY <1>5 DEF Activated
<1>6. ASSUME NEW c \in Callers, deactivate_object(c) PROVE Phases'
  BY <1>6 DEF deactivate_object
<1>7. ASSUME NEW c \in Callers, wait_object(c) PROVE Phases'
  BY <1>7 DEF wait_object
<1>8. ASSUME NEW c \in Callers, wait_for_completion(c) PROVE Phases'
  BY <1>8 DEF wait_for_completion
<1>9. ASSUME NEW c \in Callers, Join(c) PROVE Phases'
  BY <1>9 DEF Join
<1>10. ASSUME NEW c \in Callers, Drain(c) PROVE Phases'
  <2>1. /\ pc[c] = "joining" /\ termination_mutex_ = c /\ i_[c] > number_running_
        /\ i_[c] \in Nat /\ number_running_ \in Nat
    BY <1>10 DEF Drain
  <2>2. active_state_ # "AS_NOT_ACTIVE"
    BY <2>1
  <2>3. active_state_ # "AS_ACTIVE"
    BY <2>1
  <2>4. active_state_ = "AS_DEACTIVATING" /\ terminating_
    BY <2>1, <2>2, <2>3
  <2>5. ~Created
    BY <2>1, <2>4 DEF Created
  <2>6. Top = number_running_ /\ Bottom = i_[c]
    BY <2>1, <2>5 DEF Top, Bottom
  <2>7. Live = {}
    BY Zenon, <2>1, <2>6, HoldNone DEF Handles
  <2> QED
    BY <1>10, <2>4, <2>7 DEF Drain
<1>11. ASSUME NEW c \in Callers, Reset(c) PROVE Phases'
  <2>1. pc[c] = "drained" /\ termination_mutex_ = c
    BY <1>11 DEF Reset
  <2>2. active_state_ # "AS_NOT_ACTIVE" /\ active_state_ # "AS_ACTIVE"
    BY <2>1
  <2>3. active_state_ = "AS_DEACTIVATING" /\ terminating_ /\ Live = {} /\ start_semaphore_ = 0
    BY <2>1, <2>2
  <2> QED
    BY <1>11, <2>1, <2>3 DEF Reset
<1>12. ASSUME NEW c \in Callers, terminated(c) PROVE Phases'
  <2>1. pc[c] = "terminated" /\ termination_mutex_ = c
    BY <1>12 DEF terminated
  <2>2. active_state_ # "AS_NOT_ACTIVE" /\ active_state_ # "AS_ACTIVE"
    BY <2>1
  <2>3. active_state_ = "AS_DEACTIVATING" /\ Idle
    BY <2>1, <2>2
  <2>4. \A t \in Threads : thread[t] = "none"
    BY <2>3
  <2> QED
    BY <1>12, <2>1, <2>3, <2>4 DEF terminated
<1>13. ASSUME NEW c \in Callers, WaitDone(c) PROVE Phases'
  BY <1>13 DEF WaitDone
<1>14. ASSUME NEW t \in Threads, PassGate(t) PROVE Phases'
  BY <1>14 DEF PassGate
<1>15. ASSUME NEW t \in Threads, FinishWork(t) PROVE Phases'
  BY <1>15 DEF FinishWork
<1>16. ASSUME NEW g \in Growers, Grow(g) PROVE Phases'
  BY <1>16 DEF Grow
<1>17. ASSUME NEW g \in Growers, start_one(g) PROVE Phases'
  BY <1>17 DEF start_one, CreateThread
<1>18. ASSUME NEW g \in Growers, CountOne(g) PROVE Phases'
  BY <1>18 DEF CountOne
<1>19. CASE UNCHANGED vars
  BY SMTT(30), <1>19 DEF vars
<1> QED
  BY ZenonT(40), <1>1, <1>2, <1>3, <1>4, <1>5, <1>6, <1>7, <1>8, <1>9, <1>10, <1>11, <1>12, <1>13,
     <1>14, <1>15, <1>16, <1>17, <1>18, <1>19 DEF Next

(* Every action keeps the handles: creating a thread adds a slot at the    *)
(* top, counting it moves number_running_ up to it, a join takes the slot  *)
(* at the bottom away.                                                     *)
LEMMA HandlesStep ==
    ASSUME Discipline, IInv, [Next]_vars
    PROVE  Handles'
<1> USE DEF Discipline, IInv, TypeOK, Slots, Threads, InWait, Go, objectVars, Locks, Handles
<1>1. ASSUME NEW c \in Callers, activate_object(c) PROVE Handles'
  <2>1. Created' = Created /\ Top' = Top
    BY <1>1 DEF activate_object, Created, Top
  <2>2. Bottom' = Bottom
    BY <1>1 DEF activate_object, Bottom, Phases
  <2>3. Live' = Live
    BY <1>1 DEF activate_object, Live
  <2> QED
    BY <1>1, <2>1, <2>2, <2>3 DEF activate_object
<1>2. ASSUME NEW c \in Callers, StartThread(c) PROVE Handles'
  <2>1. PICK t \in Threads \ Live :
            /\ jobs_' = [jobs_ EXCEPT ![number_running_ + 1] = t]
            /\ thread' = [thread EXCEPT ![t] = "gate"]
    BY Zenon, <1>2 DEF StartThread, CreateThread
  <2>2. number_running_ \in Nat /\ number_running_ < NumberOfJobs /\ number_running_' = number_running_
    BY <1>2 DEF StartThread, CreateThread
  <2>3. Live' = Live \cup {t}
    BY <2>1 DEF Live
  <2>4. ~Created /\ Created'
    BY <1>2 DEF StartThread, Created
  <2>5. Bottom = 1 /\ Bottom' = 1
    BY <1>2 DEF StartThread, Bottom
  <2>6. Top = number_running_ /\ Top' = number_running_ + 1
    BY <2>2, <2>4 DEF Top
  <2>7. Hold([jobs_ EXCEPT ![number_running_ + 1] = t], 1, number_running_ + 1, Live \cup {t})
    <3>1. DOMAIN jobs_ = 1 .. NumberOfJobs
      BY <2>2
    <3>2. Hold(jobs_, 1, number_running_, Live)
      BY <2>5, <2>6
    <3> QED
      BY <2>2, <3>1, <3>2, HoldMore, Zenon
  <2>8. Hold(jobs_, Bottom, Top, Live)'
    BY <2>1, <2>3, <2>5, <2>6, <2>7
  <2> QED
    BY <1>2, <2>2, <2>8 DEF StartThread
<1>3. ASSUME NEW c \in Callers, CountThread(c) PROVE Handles'
  <2>1. Created /\ ~Created'
    BY <1>3 DEF CountThread, Created
  <2>2. Top' = Top
    BY <1>3, <2>1 DEF CountThread, Top
  <2>3. Bottom = 1 /\ Bottom' = 1
    BY <1>3 DEF CountThread, Bottom
  <2>4. Live' = Live
    BY <1>3 DEF CountThread, Live
  <2> QED
    BY <1>3, <2>1, <2>2, <2>3, <2>4 DEF CountThread
<1>4. ASSUME NEW c \in Callers, StartFails(c) PROVE Handles'
  <2>1. Live' = {} /\ ~Created' /\ Bottom' = 1
    BY <1>4 DEF StartFails, Live, Created, Bottom
  <2>2. Top' = 0
    BY <1>4, <2>1 DEF StartFails, Top
  <2>3. Hold(jobs_, Bottom, Top, Live)'
    BY <2>1, <2>2, HoldNone
  <2> QED
    BY <1>4, <2>1, <2>3 DEF StartFails
<1>5. ASSUME NEW c \in Callers, Activated(c) PROVE Handles'
  <2>1. Created' = Created /\ Top' = Top
    BY <1>5 DEF Activated, Created, Top
  <2>2. Bottom' = Bottom
    BY <1>5 DEF Activated, Bottom, Phases
  <2>3. Live' = Live
    BY <1>5 DEF Activated, Live
  <2> QED
    BY <1>5, <2>1, <2>2, <2>3 DEF Activated
<1>6. ASSUME NEW c \in Callers, deactivate_object(c) PROVE Handles'
  <2>1. Created' = Created /\ Top' = Top
    BY <1>6 DEF deactivate_object, Created, Top
  <2>2. Bottom' = Bottom
    BY <1>6 DEF deactivate_object, Bottom, Phases
  <2>3. Live' = Live
    BY <1>6 DEF deactivate_object, Live
  <2> QED
    BY <1>6, <2>1, <2>2, <2>3 DEF deactivate_object
<1>7. ASSUME NEW c \in Callers, wait_object(c) PROVE Handles'
  <2>1. Created' = Created /\ Top' = Top
    BY <1>7 DEF wait_object, Created, Top
  <2>2. Bottom' = Bottom
    BY <1>7 DEF wait_object, Bottom, Phases
  <2>3. Live' = Live
    BY <1>7 DEF wait_object, Live
  <2> QED
    BY <1>7, <2>1, <2>2, <2>3 DEF wait_object
<1>8. ASSUME NEW c \in Callers, wait_for_completion(c) PROVE Handles'
  <2>1. pc[c] = "completion" /\ termination_mutex_ = c
    BY <1>8 DEF wait_for_completion
  <2>2. Created' = Created /\ Top' = Top
    BY <1>8 DEF wait_for_completion, Created, Top
  <2>3. Bottom = 1
    BY <2>1 DEF Bottom
  <2>4. Bottom' = 1
    BY <1>8, <2>1 DEF wait_for_completion, Bottom
  <2>5. Live' = Live
    BY <1>8 DEF wait_for_completion, Live
  <2>6. Hold(jobs_, Bottom, Top, Live)'
    BY <1>8, <2>2, <2>3, <2>4, <2>5 DEF wait_for_completion
  <2> QED
    BY <1>8, <2>1, <2>2, <2>6 DEF wait_for_completion
<1>9. ASSUME NEW c \in Callers, Join(c) PROVE Handles'
  <2>1. pc[c] = "joining" /\ termination_mutex_ = c /\ i_[c] <= number_running_ /\ i_[c] \in Nat /\ number_running_ \in Nat
    BY <1>9 DEF Join
  <2>2. jobs_[i_[c]] \in Threads /\ thread[jobs_[i_[c]]] = "done"
    BY <1>9 DEF Join
  <2>3. ~Created
    BY <2>1, <2>2 DEF Phases, Created
  <2>4. ~Created'
    BY <1>9, <2>3 DEF Join, Created
  <2>5. Top = number_running_ /\ Top' = number_running_
    BY <1>9, <2>3, <2>4 DEF Join, Top
  <2>6. Bottom = i_[c] /\ Bottom' = i_[c] + 1
    BY <1>9, <2>1 DEF Join, Bottom
  <2>7. Live' = Live \ {jobs_[i_[c]]}
    BY <1>9, <2>2 DEF Join, Live
  <2>8. Hold(jobs_, i_[c] + 1, number_running_, Live \ {jobs_[i_[c]]})
    BY <2>1, <2>5, <2>6, HoldLess
  <2>9. Hold(jobs_, Bottom, Top, Live)'
    BY SMTT(30), <1>9, <2>5, <2>6, <2>7, <2>8 DEF Join
  <2> QED
    BY <1>9, <2>1, <2>4, <2>9 DEF Join
<1>10. ASSUME NEW c \in Callers, Drain(c) PROVE Handles'
  <2>1. pc[c] = "joining" /\ termination_mutex_ = c /\ i_[c] > number_running_
    BY <1>10 DEF Drain
  <2>2. i_[c] = number_running_ + 1
    BY <2>1
  <2>3. Created' = Created /\ Top' = Top
    BY <1>10 DEF Drain, Created, Top
  <2>4. Bottom' = Bottom
    BY <1>10, <2>1 DEF Drain, Bottom
  <2>5. Live' = Live
    BY <1>10 DEF Drain, Live
  <2> QED
    BY SMTT(30), <1>10, <2>1, <2>2, <2>3, <2>4, <2>5 DEF Drain
<1>11. ASSUME NEW c \in Callers, Reset(c) PROVE Handles'
  <2>1. pc[c] = "drained" /\ termination_mutex_ = c
    BY <1>11 DEF Reset
  <2>2. active_state_ # "AS_NOT_ACTIVE" /\ active_state_ # "AS_ACTIVE"
    BY <2>1 DEF Phases
  <2>3. Live = {} /\ active_state_ = "AS_DEACTIVATING"
    BY <2>1, <2>2 DEF Phases
  <2>4. ~Created /\ ~Created'
    BY <1>11, <2>1, <2>3 DEF Reset, Created, Phases
  <2>5. Live' = {}
    BY <1>11, <2>3 DEF Reset, Live
  <2>6. Bottom' = 1
    BY <1>11, <2>1 DEF Reset, Bottom
  <2>7. Top' = 0
    BY <1>11, <2>4 DEF Reset, Top
  <2>8. Hold(jobs_, Bottom, Top, Live)'
    BY SMTT(30), <2>5, <2>6, <2>7, HoldNone
  <2> QED
    BY <1>11, <2>1, <2>4, <2>8 DEF Reset
<1>12. ASSUME NEW c \in Callers, terminated(c) PROVE Handles'
  <2>1. Created' = Created /\ Top' = Top
    BY SMTT(30), <1>12 DEF terminated, Created, Top
  <2>2. Bottom' = Bottom
    BY <1>12 DEF terminated, Bottom, Phases
  <2>3. Live' = Live
    BY <1>12 DEF terminated, Live
  <2> QED
    BY SMTT(30), <1>12, <2>1, <2>2, <2>3 DEF terminated
<1>13. ASSUME NEW c \in Callers, WaitDone(c) PROVE Handles'
  <2>1. Created' = Created /\ Top' = Top
    BY <1>13 DEF WaitDone, Created, Top
  <2>2. Bottom' = Bottom
    BY <1>13 DEF WaitDone, Bottom, Phases
  <2>3. Live' = Live
    BY <1>13 DEF WaitDone, Live
  <2> QED
    BY <1>13, <2>1, <2>2, <2>3 DEF WaitDone
<1>14. ASSUME NEW t \in Threads, PassGate(t) PROVE Handles'
  <2>1. Created' = Created /\ Top' = Top
    BY <1>14 DEF PassGate, Created, Top
  <2>2. Bottom' = Bottom
    BY <1>14 DEF PassGate, Bottom, Phases
  <2>3. Live' = Live
    BY <1>14 DEF PassGate, Live
  <2> QED
    BY <1>14, <2>1, <2>2, <2>3 DEF PassGate
<1>15. ASSUME NEW t \in Threads, FinishWork(t) PROVE Handles'
  <2>1. Created' = Created /\ Top' = Top
    BY <1>15 DEF FinishWork, Created, Top
  <2>2. Bottom' = Bottom
    BY <1>15 DEF FinishWork, Bottom, Phases
  <2>3. Live' = Live
    BY <1>15 DEF FinishWork, Live
  <2> QED
    BY <1>15, <2>1, <2>2, <2>3 DEF FinishWork
<1>16. ASSUME NEW g \in Growers, Grow(g) PROVE Handles'
  <2>1. Created' = Created /\ Top' = Top
    BY <1>16 DEF Grow, Created, Top
  <2>2. Bottom' = Bottom
    BY <1>16 DEF Grow, Bottom, Phases
  <2>3. Live' = Live
    BY <1>16 DEF Grow, Live
  <2> QED
    BY <1>16, <2>1, <2>2, <2>3 DEF Grow
<1>17. ASSUME NEW g \in Growers, start_one(g) PROVE Handles'
  <2>1. CASE number_running_ = NumberOfJobs
    <3>1. Created' = Created /\ Top' = Top
      BY <1>17, <2>1 DEF start_one, Created, Top
    <3>2. Bottom' = Bottom
      BY <1>17, <2>1 DEF start_one, Bottom
    <3>3. Live' = Live
      BY <1>17, <2>1 DEF start_one, Live
    <3> QED
      BY <1>17, <2>1, <3>1, <3>2, <3>3 DEF start_one
  <2>2. CASE number_running_ # NumberOfJobs
    <3>1. PICK t \in Threads \ Live :
              /\ jobs_' = [jobs_ EXCEPT ![number_running_ + 1] = t]
              /\ thread' = [thread EXCEPT ![t] = "gate"]
      BY <1>17, <2>2 DEF start_one, CreateThread
    <3>2. /\ number_running_ \in Nat /\ number_running_ < NumberOfJobs
          /\ pc[g] = "creating" /\ pc' = [pc EXCEPT ![g] = "created"]
          /\ UNCHANGED <<objectVars, number_running_, start_semaphore_, i_>>
      BY <1>17, <2>2 DEF start_one, CreateThread
    <3>3. Live' = Live \cup {t}
      BY <3>1 DEF Live
    <3>4. work_mutex_ = "nobody" /\ active_state_ = "AS_ACTIVE"
      BY <3>2
    <3>5. ~Created
      BY <3>2, <3>4 DEF Created
    <3>6. Created'
      BY <3>2 DEF Created
    <3>7. Bottom = 1
      BY <3>4 DEF Bottom, Phases
    <3>8. Bottom' = Bottom
      BY <3>2 DEF Bottom
    <3>9. Top = number_running_ /\ Top' = number_running_ + 1
      BY <3>2, <3>5, <3>6 DEF Top
    <3>10. Hold([jobs_ EXCEPT ![number_running_ + 1] = t], 1, number_running_ + 1, Live \cup {t})
      <4>1. DOMAIN jobs_ = 1 .. NumberOfJobs
        BY <3>2
      <4>2. Hold(jobs_, 1, number_running_, Live)
        BY <3>7, <3>9
      <4> QED
        BY <3>2, <4>1, <4>2, HoldMore, Zenon
    <3>11. Hold(jobs_, Bottom, Top, Live)'
      BY <3>1, <3>3, <3>7, <3>8, <3>9, <3>10
    <3> QED
      BY <3>2, <3>11
  <2> QED
    BY <2>1, <2>2
<1>18. ASSUME NEW g \in Growers, CountOne(g) PROVE Handles'
  <2>1. work_mutex_ = "nobody" /\ active_state_ = "AS_ACTIVE" /\ pc[g] = "created"
    BY <1>18 DEF CountOne
  <2>2. Created
    BY Zenon, <2>1 DEF Created
  <2>3. ~Created'
    BY <1>18, <2>1 DEF CountOne, Created
  <2>4. Top' = Top
    BY <1>18, <2>2, <2>3 DEF CountOne, Top
  <2>5. Bottom' = Bottom
    BY <1>18 DEF CountOne, Bottom
  <2>6. Live' = Live
    BY <1>18 DEF CountOne, Live
  <2>7. \A x \in Callers : pc[x] # "drained"
    BY <2>1 DEF Phases
  <2> QED
    BY <1>18, <2>1, <2>3, <2>4, <2>5, <2>6, <2>7 DEF CountOne
<1>19. CASE UNCHANGED vars
  <2>1. Created' = Created /\ Top' = Top /\ Bottom' = Bottom /\ Live' = Live
    BY <1>19 DEF vars, Created, Top, Bottom, Live
  <2> QED
    BY <1>19, <2>1 DEF vars
<1> QED
  BY <1>1, <1>2, <1>3, <1>4, <1>5, <1>6, <1>7, <1>8, <1>9, <1>10, <1>11, <1>12, <1>13,
     <1>14, <1>15, <1>16, <1>17, <1>18, <1>19 DEF Next

-----------------------------------------------------------------------------
(* An object that was just made. *)
LEMMA InitInv == ASSUME Discipline, Init PROVE IInv
<1> USE DEF Discipline, Init, Slots, Threads, Live
<1>1. TypeOK
  <2>1. terminating_ \in BOOLEAN
    BY Zenon
  <2> QED
    BY <2>1 DEF TypeOK
<1>2. Locks
  BY DEF Locks, InWait
<1>3. Phases
  BY DEF Phases, Idle, InWait
<1>4. Live = {} /\ ~Created
  BY DEF Created
<1>5. Bottom = 1
  BY DEF Bottom
<1>6. Top = 0
  BY <1>4 DEF Top
<1>7. Hold(jobs_, Bottom, Top, Live)
  BY <1>4, <1>5, <1>6, HoldNone
<1>8. Handles
  BY <1>4, <1>7 DEF Handles
<1> QED
  BY <1>1, <1>2, <1>3, <1>8 DEF IInv

(* All of it holds in every state of the active object. *)
LEMMA Inductive == Discipline => (Spec => []IInv)
<1> SUFFICES ASSUME Discipline PROVE Spec => []IInv
  OBVIOUS
<1>1. Init => IInv
  BY InitInv
<1>2. IInv /\ [Next]_vars => IInv'
  BY TypeStep, LocksStep, PhasesStep, HandlesStep DEF IInv
<1> QED
  BY <1>1, <1>2, PTL DEF Spec

(* The types are kept, and whatever wait_for_completion() has still to     *)
(* join is an existing thread, none of them there twice, for any number of *)
(* callers and producers, as long as no wait overlaps an activation and a  *)
(* thread is added only to an active object (Discipline).                  *)
THEOREM NothingJoinedTwice == Discipline => (Spec => []HandlesValid)
<1> SUFFICES ASSUME Discipline PROVE Spec => []HandlesValid
  OBVIOUS
<1>1. IInv => HandlesValid
  <2> SUFFICES ASSUME IInv PROVE HandlesValid
    OBVIOUS
  <2> USE DEF Discipline, IInv
  <2>1. ASSUME NEW c \in Callers, pc[c] = "joining"
        PROVE  /\ \A s \in i_[c] .. number_running_ : jobs_[s] \in Live
               /\ \A s, u \in i_[c] .. number_running_ : jobs_[s] = jobs_[u] => s = u
    <3>1. Bottom = i_[c]
      BY <2>1 DEF Bottom, Locks, InWait
    <3>2. i_[c] \in Nat /\ number_running_ \in Nat /\ Top \in Nat /\ number_running_ <= Top
      BY DEF TypeOK, Top
    <3>3. i_[c] .. number_running_ \subseteq Bottom .. Top
      BY <3>1, <3>2
    <3> QED
      BY <3>3 DEF Handles, Hold
  <2> QED
    BY <2>1 DEF HandlesValid
<1> QED
  BY <1>1, Inductive, PTL

-----------------------------------------------------------------------------
(* Every step of the object is one of ActiveObject or leaves its state and *)
(* its living threads alone: creating a thread launches it, a join ends    *)
(* it, the end of wait_object() completes the deactivation.                *)
LEMMA StepImplements ==
    ASSUME Discipline, IInv, [Next]_vars
    PROVE  [Promise!Next]_(Promise!avars)
<1> USE DEF Promise!Next, Promise!avars, Go, objectVars
<1>1. ASSUME NEW c \in Callers, activate_object(c) PROVE Promise!Activate
  BY <1>1 DEF activate_object, Promise!Activate, Live
<1>2. ASSUME CreateThread, active_state_ = "AS_ACTIVE", UNCHANGED active_state_
      PROVE  Promise!Launch
  <2>1. PICK t \in Threads \ Live : thread' = [thread EXCEPT ![t] = "gate"]
    BY Zenon, <1>2 DEF CreateThread
  <2>2. Live' = Live \cup {t}
    BY <2>1 DEF Live, IInv, TypeOK
  <2> QED
    BY <1>2, <2>2 DEF Promise!Launch
<1>3. ASSUME NEW c \in Callers, StartThread(c) PROVE Promise!Launch
  <2>1. active_state_ = "AS_ACTIVE"
    BY <1>3 DEF StartThread, IInv, Locks, Phases, Discipline
  <2> QED
    BY <1>3, <1>2, <2>1 DEF StartThread
<1>4. ASSUME NEW g \in Growers, start_one(g) PROVE Promise!Launch \/ UNCHANGED Promise!avars
  <2>1. CASE number_running_ = NumberOfJobs
    BY <1>4, <2>1 DEF start_one, Live
  <2>2. CASE number_running_ # NumberOfJobs
    <3>1. active_state_ = "AS_ACTIVE"
      BY <1>4, <2>2 DEF start_one, IInv, Locks
    <3> QED
      BY <1>4, <1>2, <2>2, <3>1 DEF start_one
  <2> QED
    BY <2>1, <2>2
<1>5. ASSUME NEW c \in Callers, StartFails(c) PROVE Promise!FailToActivate
  <2>1. active_state_ = "AS_ACTIVE"
    BY <1>5 DEF StartFails, IInv, Locks, Phases, Discipline
  <2> QED
    BY <1>5, <2>1 DEF StartFails, Promise!FailToActivate, Live
<1>6. ASSUME NEW c \in Callers, deactivate_object(c) PROVE Promise!Deactivate
  BY <1>6 DEF deactivate_object, Promise!Deactivate, Live
<1>7. ASSUME NEW c \in Callers, Join(c) PROVE Promise!End
  <2>1. jobs_[i_[c]] \in Live
    BY <1>7 DEF Join, IInv, TypeOK, Live, Slots, Discipline
  <2>2. Live' = Live \ {jobs_[i_[c]]}
    BY <1>7, <2>1 DEF Join, IInv, TypeOK, Live
  <2> QED
    BY <1>7, <2>1, <2>2 DEF Join, Promise!End
<1>8. ASSUME NEW c \in Callers, WaitDone(c) PROVE Promise!Complete \/ UNCHANGED Promise!avars
  <2>1. Live' = Live
    BY <1>8 DEF WaitDone, Live
  <2>2. CASE active_state_ = "AS_DEACTIVATING"
    <3>1. Live = {}
      BY <1>8, <2>2 DEF WaitDone, IInv, Phases, Idle
    <3> QED
      BY <1>8, <2>1, <2>2, <3>1 DEF WaitDone, Promise!Complete
  <2>3. CASE active_state_ # "AS_DEACTIVATING"
    BY <1>8, <2>1, <2>3 DEF WaitDone
  <2> QED
    BY <2>2, <2>3
<1>9. ASSUME NEW c \in Callers,
             \/ CountThread(c) \/ Activated(c) \/ wait_object(c) \/ wait_for_completion(c)
             \/ Drain(c) \/ Reset(c) \/ terminated(c)
      PROVE  UNCHANGED Promise!avars
  BY <1>9 DEF CountThread, Activated, wait_object, wait_for_completion, Drain, Reset,
              terminated, Live
<1>10. ASSUME NEW t \in Threads, PassGate(t) \/ FinishWork(t) PROVE UNCHANGED Promise!avars
  BY <1>10 DEF PassGate, FinishWork, Live, IInv, TypeOK
<1>11. ASSUME NEW g \in Growers, Grow(g) \/ CountOne(g) PROVE UNCHANGED Promise!avars
  BY <1>11 DEF Grow, CountOne, Live
<1>12. CASE UNCHANGED vars
  BY <1>12 DEF vars, Live
<1> QED
  BY <1>1, <1>3, <1>4, <1>5, <1>6, <1>7, <1>8, <1>9, <1>10, <1>11, <1>12 DEF Next

(* ActiveObjectCommonImpl on ThreadRunner implements ActiveObject for      *)
(* callers that keep Discipline, no others: the states come in their       *)
(* order, threads are created only while it is active, and it is           *)
(* AS_NOT_ACTIVE again only when none is left.                             *)
THEOREM KeepsPromise == Discipline => (Spec => ImplementsActiveObject)
<1> SUFFICES ASSUME Discipline PROVE Spec => ImplementsActiveObject
  OBVIOUS
<1>1. Init => Promise!Init
  BY DEF Init, Promise!Init, Live
<1>2. IInv /\ [Next]_vars => [Promise!Next]_(Promise!avars)
  BY StepImplements
<1> QED
  BY <1>1, <1>2, Inductive, PTL DEF Spec, Promise!Spec, ImplementsActiveObject
=============================================================================
