--------------------------- MODULE GenericsProofs ---------------------------
(***************************************************************************)
(* Proofs about the components of MCGenerics, for any sets of tasks,       *)
(* goals, callers and files and any bounds: nobody sleeps over work that   *)
(* is there, and what a holder sees of a cached file does not change under *)
(* it.  The planner's part is in PlannerProofs.                            *)
(*                                                                         *)
(* Every component has an inductive invariant of its own; a step of one    *)
(* leaves the variables of the others as they were.                        *)
(***************************************************************************)
EXTENDS PlannerProofs

-----------------------------------------------------------------------------
(* PeriodicRunner *)

(* The tasks of a runner are changed only while it is not active:          *)
(* add_task() takes no lock, and after a clear() deactivate_object() would *)
(* not know whom to stop.                                                  *)
Discipline == ~AddWhileActive /\ ~ClearWhileActive

(* A stop sets quit_ for exactly the tasks that have a thread, and every   *)
(* thread takes its own flag back on its way out; so when all are joined   *)
(* no flag is left for the next activation.                                *)
RunnerInv ==
    /\ PE!TypeOK
    /\ pe_state # "AS_DEACTIVATING" => quit_ = {}
    /\ \A t \in PeriodicTasks :
         /\ pe_pc[t] \in {"quitting", "exited"} => pe_state = "AS_DEACTIVATING"
         /\ pe_pc[t] = "quitting" => t \in quit_
         /\ pe_state # "AS_NOT_ACTIVE" =>
              /\ t \in quit_ => pe_pc[t] \notin {"none", "exited"}
              /\ pe_pc[t] = "none" <=> t \notin pe_jobs

(* A runner begins without tasks and flags. *)
LEMMA RunnerInit == PE!Init => RunnerInv
BY DEF PE!Init, RunnerInv, PE!TypeOK

(* One step of a runner that is used with this discipline. *)
LEMMA RunnerStep ==
    ASSUME Discipline, RunnerInv, PE!Next
    PROVE  RunnerInv'
<1> USE DEF RunnerInv, PE!TypeOK, PE!To
<1>1. ASSUME NEW t \in PeriodicTasks, PE!BeginWait(t) PROVE RunnerInv'
  BY <1>1 DEF PE!BeginWait
<1>2. ASSUME NEW t \in PeriodicTasks, PE!EndWait(t) PROVE RunnerInv'
  BY <1>2 DEF PE!EndWait
<1>3. ASSUME NEW t \in PeriodicTasks, PE!TestQuit(t) PROVE RunnerInv'
  BY <1>3 DEF PE!TestQuit
<1>4. ASSUME NEW t \in PeriodicTasks, PE!TestStart(t) PROVE RunnerInv'
  BY <1>4 DEF PE!TestStart
<1>5. ASSUME NEW t \in PeriodicTasks, PE!Quit(t) PROVE RunnerInv'
  BY <1>5 DEF PE!Quit
<1>6. ASSUME NEW t \in PeriodicTasks, PE!Break(t) PROVE RunnerInv'
  BY <1>6 DEF PE!Break
<1>7. ASSUME NEW t \in PeriodicTasks, PE!run_once(t) PROVE RunnerInv'
  BY <1>7 DEF PE!run_once
<1>8. ASSUME NEW t \in PeriodicTasks, PE!add_task(t) PROVE RunnerInv'
  BY <1>8 DEF PE!add_task, Discipline
<1>9. ASSUME PE!clear PROVE RunnerInv'
  BY <1>9 DEF PE!clear, Discipline
<1>10. ASSUME PE!activate_object PROVE RunnerInv'
  BY <1>10 DEF PE!activate_object
<1>11. ASSUME PE!enforce_start_all PROVE RunnerInv'
  BY <1>11 DEF PE!enforce_start_all, PE!WakeAll
<1>12. ASSUME PE!deactivate_object PROVE RunnerInv'
  BY <1>12 DEF PE!deactivate_object, PE!WakeAll
<1>13. ASSUME PE!wait_object PROVE RunnerInv'
  BY <1>13 DEF PE!wait_object
<1> QED
  BY SMTT(30), <1>1, <1>2, <1>3, <1>4, <1>5, <1>6, <1>7, <1>8, <1>9, <1>10, <1>11, <1>12, <1>13
  DEF PE!Next

-----------------------------------------------------------------------------
(* TaskPool *)

(* waiting_threads_ tells a producer the truth, though the thread that was *)
(* woken takes itself off the count only when it has the lock again; so a  *)
(* push to a queue whose thread waits is followed by a signal.             *)
PoolInv ==
    /\ TP!TypeOK
    /\ \A q \in TP!Queues :
         /\ waiting_threads_[q] = IF worker[q] \in {"waiting", "woken"} THEN 1 ELSE 0
         /\ tp_state = "AS_NOT_ACTIVE" => worker[q] = "off"
         /\ worker[q] = "waiting" /\ tasks_[q] # <<>> =>
              \E p \in Producers : producer[p].at = "signal" /\ producer[p].q = q

(* A remainder is below its divisor. *)
LEMMA Remainder ==
    ASSUME NEW n \in Int, NEW k \in Nat \ {0}
    PROVE  n % k \in 0 .. k - 1
OBVIOUS

(* Queue 0, the one of a producer that is idle, is a queue of the pool. *)
LEMMA IdleProducer ==
    TP!Idle \in [at : {"idle", "push", "signal"}, q : TP!Queues, t : SUBSET PoolTasks]
BY GenericsAssumption DEF TP!Idle, TP!Queues

(* A pool begins with empty queues and without threads. *)
LEMMA PoolInit == TP!Init => PoolInv
<1> SUFFICES ASSUME TP!Init PROVE PoolInv
  OBVIOUS
<1>1. task_queue_pos_ \in 0 .. PositionRange - 1
  BY GenericsAssumption DEF TP!Init
<1>2. tasks_ \in [TP!Queues -> Seq(PoolTasks)]
  BY DEF TP!Init
<1>3. TP!TypeOK
  BY <1>1, <1>2, IdleProducer DEF TP!Init, TP!TypeOK
<1> QED
  BY <1>3 DEF TP!Init, PoolInv

(* The loop of work() takes a task or waits, with the count it has to      *)
(* leave: the thread either has no task in its queue or does not wait.     *)
LEMMA PoolTakes ==
    ASSUME PoolInv, NEW q \in TP!Queues, TP!TakeOrWait(q, 0), worker[q] # "off",
           UNCHANGED <<task_queue_pos_, producer, given, tp_state, stopping, is_terminating>>
    PROVE  PoolInv'
<1>1. CASE tasks_[q] = <<>>
  <2>1. /\ worker' = [worker EXCEPT ![q] = "waiting"]
        /\ waiting_threads_' = [waiting_threads_ EXCEPT ![q] = 1]
        /\ UNCHANGED <<tasks_, run_task>>
    BY <1>1 DEF TP!TakeOrWait
  <2>2. TP!TypeOK'
    BY <2>1 DEF PoolInv, TP!TypeOK
  <2> QED
    BY <1>1, <2>1, <2>2 DEF PoolInv, TP!TypeOK, TP!Queues
<1>2. CASE tasks_[q] # <<>>
  <2>1. /\ worker' = [worker EXCEPT ![q] = "execute"]
        /\ waiting_threads_' = [waiting_threads_ EXCEPT ![q] = 0]
        /\ run_task' = [run_task EXCEPT ![q] = {Head(tasks_[q])}]
        /\ tasks_' = [tasks_ EXCEPT ![q] = Tail(tasks_[q])]
    BY <1>2 DEF TP!TakeOrWait
  <2>2. tasks_[q] \in Seq(PoolTasks)
    BY DEF PoolInv, TP!TypeOK
  <2>3. Head(tasks_[q]) \in PoolTasks /\ Tail(tasks_[q]) \in Seq(PoolTasks)
    BY <1>2, <2>2, HeadTailProperties
  <2>4. TP!TypeOK'
    BY <2>1, <2>3 DEF PoolInv, TP!TypeOK
  <2> QED
    BY <2>1, <2>4 DEF PoolInv, TP!TypeOK, TP!Queues
<1> QED
  BY <1>1, <1>2

(* One step of a pool, of its threads, its producers or its owner. *)
LEMMA PoolStep ==
    ASSUME PoolInv, TP!Next
    PROVE  PoolInv'
<1> USE DEF PoolInv, TP!control
<1>1. ASSUME NEW p \in Producers, NEW t \in PoolTasks, TP!enqueue_task(p, t)
      PROVE  PoolInv'
  <2>1. task_queue_pos_' \in 0 .. PositionRange - 1
    <3>1. task_queue_pos_' = (task_queue_pos_ + 1) % PositionRange
      BY <1>1 DEF TP!enqueue_task
    <3>2. task_queue_pos_ + 1 \in Int
      BY DEF TP!TypeOK
    <3> QED
      BY Zenon, <3>1, <3>2, Remainder, GenericsAssumption
  <2>2. task_queue_pos_' % threads_number \in TP!Queues
    <3>1. task_queue_pos_' \in Int
      BY <2>1
    <3> QED
      BY ZenonT(40), <3>1, Remainder, GenericsAssumption DEF TP!Queues
  <2>3. TP!TypeOK'
    BY <1>1, <2>1, <2>2 DEF TP!enqueue_task, TP!TypeOK
  <2> QED
    BY <1>1, <2>3 DEF TP!enqueue_task, TP!TypeOK, TP!Queues
<1>2. ASSUME NEW p \in Producers, TP!Push(p) PROVE PoolInv'
  <2> DEFINE q == producer[p].q
  <2>1. q \in TP!Queues
    BY DEF TP!TypeOK
  <2>2. PICK t \in PoolTasks : tasks_' = [tasks_ EXCEPT ![q] = Append(@, t)]
    BY ZenonT(40), <1>2 DEF TP!Push, TP!TypeOK
  <2>3. tasks_[q] \in Seq(PoolTasks)
    BY <2>1 DEF TP!TypeOK
  <2>4. Append(tasks_[q], t) \in Seq(PoolTasks)
    BY <2>3, AppendProperties
  <2>5. tasks_' \in [TP!Queues -> Seq(PoolTasks)]
    BY <2>1, <2>2, <2>4 DEF TP!TypeOK
  <2>6. TP!TypeOK'
    BY <1>2, <2>5, IdleProducer DEF TP!Push, TP!TypeOK
  <2>7. ASSUME NEW r \in TP!Queues, worker'[r] = "waiting", tasks_'[r] # <<>>
        PROVE  \E s \in Producers : producer'[s].at = "signal" /\ producer'[s].q = r
    <3>1. CASE r = q
      <4>1. waiting_threads_[q] = 1
        BY <1>2, <2>1, <2>7, <3>1 DEF TP!Push
      <4> QED
        BY <1>2, <3>1, <4>1 DEF TP!Push, TP!TypeOK
    <3>2. CASE r # q
      <4>1. PICK s \in Producers : producer[s].at = "signal" /\ producer[s].q = r
        BY <1>2, <2>1, <2>2, <2>7, <3>2 DEF TP!Push, TP!TypeOK
      <4>2. s # p
        BY <1>2, <4>1 DEF TP!Push
      <4> QED
        BY <1>2, <4>1, <4>2 DEF TP!Push, TP!TypeOK
    <3> QED
      BY <3>1, <3>2
  <2> QED
    BY <1>2, <2>6, <2>7 DEF TP!Push, TP!Queues
<1>3. ASSUME NEW p \in Producers, TP!SignalNewTask(p) PROVE PoolInv'
  <2> DEFINE q == producer[p].q
  <2>1. q \in TP!Queues
    BY DEF TP!TypeOK
  <2>2. TP!TypeOK'
    BY <1>3, IdleProducer DEF TP!SignalNewTask, TP!Wake, TP!TypeOK
  <2>3. ASSUME NEW r \in TP!Queues, worker'[r] = "waiting", tasks_'[r] # <<>>
        PROVE  \E s \in Producers : producer'[s].at = "signal" /\ producer'[s].q = r
    <3>1. r # q
      BY <1>3, <2>1, <2>3 DEF TP!SignalNewTask, TP!Wake, TP!TypeOK
    <3>2. PICK s \in Producers : producer[s].at = "signal" /\ producer[s].q = r
      BY <1>3, <2>3, <3>1 DEF TP!SignalNewTask, TP!TypeOK
    <3> QED
      BY <1>3, <3>1, <3>2 DEF TP!SignalNewTask, TP!TypeOK
  <2>4. ASSUME NEW r \in TP!Queues
        PROVE  /\ waiting_threads_'[r] = IF worker'[r] \in {"waiting", "woken"} THEN 1 ELSE 0
               /\ tp_state' = "AS_NOT_ACTIVE" => worker'[r] = "off"
    BY <1>3, <2>1 DEF TP!SignalNewTask, TP!Wake, TP!TypeOK
  <2> QED
    BY <2>2, <2>3, <2>4 DEF TP!Queues
<1>4. ASSUME NEW q \in TP!Queues, TP!WorkTop(q) PROVE PoolInv'
  <2>1. CASE is_terminating[q]
    <3>1. /\ worker[q] = "top"
          /\ worker' = [worker EXCEPT ![q] = "done"]
          /\ UNCHANGED <<tasks_, waiting_threads_, run_task>>
          /\ UNCHANGED <<task_queue_pos_, producer, given, tp_state, stopping, is_terminating>>
      BY <1>4, <2>1 DEF TP!WorkTop
    <3>2. tp_state # "AS_NOT_ACTIVE"
      BY <3>1
    <3>3. TP!TypeOK'
      BY <3>1 DEF TP!TypeOK
    <3> QED
      BY SMTT(30), <3>1, <3>2, <3>3 DEF TP!TypeOK, TP!Queues
  <2>2. CASE ~is_terminating[q]
    <3>1. waiting_threads_[q] = 0 /\ worker[q] # "off"
      BY <1>4 DEF TP!WorkTop
    <3> QED
      BY SMTT(30), <1>4, <2>2, <3>1, PoolTakes DEF TP!WorkTop
  <2> QED
    BY <2>1, <2>2
<1>5. ASSUME NEW q \in TP!Queues, TP!WorkWoken(q) PROVE PoolInv'
  <2>1. waiting_threads_[q] - 1 = 0 /\ worker[q] # "off"
    BY <1>5 DEF TP!WorkWoken
  <2>2. CASE is_terminating[q]
    <3>1. /\ worker[q] = "woken"
          /\ worker' = [worker EXCEPT ![q] = "done"]
          /\ waiting_threads_' = [waiting_threads_ EXCEPT ![q] = 0]
          /\ UNCHANGED <<tasks_, run_task>>
          /\ UNCHANGED <<task_queue_pos_, producer, given, tp_state, stopping, is_terminating>>
      BY <1>5, <2>1, <2>2 DEF TP!WorkWoken
    <3>2. tp_state # "AS_NOT_ACTIVE"
      BY <3>1
    <3>3. TP!TypeOK'
      BY <3>1 DEF TP!TypeOK
    <3> QED
      BY <3>1, <3>2, <3>3 DEF TP!TypeOK, TP!Queues
  <2>3. CASE ~is_terminating[q]
    BY SMTT(30), <1>5, <2>1, <2>3, PoolTakes DEF TP!WorkWoken
  <2> QED
    BY <2>2, <2>3
<1>6. ASSUME NEW q \in TP!Queues, TP!SpuriousWakeup(q) PROVE PoolInv'
  BY <1>6 DEF TP!SpuriousWakeup, TP!TypeOK, TP!Queues
<1>7. ASSUME NEW q \in TP!Queues, TP!Execute(q) PROVE PoolInv'
  BY <1>7 DEF TP!Execute, TP!TypeOK, TP!Queues
<1>8. ASSUME NEW q \in TP!Queues, TP!MakeTerminate(q) PROVE PoolInv'
  BY <1>8 DEF TP!MakeTerminate, TP!TypeOK, TP!Queues
<1>9. ASSUME NEW q \in TP!Queues, TP!terminate(q) PROVE PoolInv'
  BY SMTT(30), <1>9 DEF TP!terminate, TP!Wake, TP!TypeOK, TP!Queues
<1>10. ASSUME NEW q \in TP!Queues, TP!clear(q) PROVE PoolInv'
  <2>1. tasks_' \in [TP!Queues -> Seq(PoolTasks)]
    BY <1>10 DEF TP!clear, TP!TypeOK
  <2> QED
    BY <1>10, <2>1 DEF TP!clear, TP!TypeOK, TP!Queues
<1>11. ASSUME TP!activate_object PROVE PoolInv'
  BY <1>11 DEF TP!activate_object, TP!TypeOK, TP!Queues
<1>12. ASSUME TP!deactivate_object PROVE PoolInv'
  BY <1>12 DEF TP!deactivate_object, TP!TypeOK, TP!Queues
<1>13. ASSUME TP!wait_object PROVE PoolInv'
  BY <1>13 DEF TP!wait_object, TP!TypeOK, TP!Queues
<1> QED
  BY SMTT(30), <1>1, <1>2, <1>3, <1>4, <1>5, <1>6, <1>7, <1>8, <1>9, <1>10, <1>11, <1>12, <1>13
  DEF TP!Next

-----------------------------------------------------------------------------
(* FileCache *)

(* A client that waits waits for a holder, and whoever has got past the    *)
(* manager's mutex_ owns it, alone.                                        *)
CacheInv ==
    /\ FC!TypeOK
    /\ \A c \in Clients : fc_pc[c] = "waiting" => FC!Holders(name[c]) # {}

(* At the start no file is loaded and nobody holds or waits. *)
LEMMA CacheInit == FC!Init => CacheInv
<1> SUFFICES ASSUME FC!Init PROVE CacheInv
  OBVIOUS
<1>1. (CHOOSE n \in Names : TRUE) \in Names
  BY GenericsAssumption
<1>2. name \in [Clients -> Names]
  BY <1>1 DEF FC!Init
<1>3. FC!TypeOK
  BY <1>2, GenericsAssumption DEF FC!Init, FC!TypeOK, FC!Times
<1> QED
  BY <1>3 DEF CacheInv, FC!Init

(* get() ends and the buffer is lent or not: the mutex_ is released, and   *)
(* who waits for a holder still has one.                                   *)
LEMMA CacheLeaves ==
    ASSUME CacheInv, NEW c \in Clients, fc_pc[c] \in {"get", "woken"},
           FC!Lend(c) \/ FC!Throw(c),
           st_mtime' = st_mtime, managed' = managed, name' = name,
           last_modification_time_' \in [Names -> FC!Times],
           content_' \in [Names -> FC!Times]
    PROVE  CacheInv'
<1>1. /\ fc_pc' = [fc_pc EXCEPT ![c] = "idle"]
      /\ mutex_' = mutex_ \ {c}
  BY DEF FC!Lend, FC!Throw, FC!Leave
<1>2. refs' \in [Clients -> SUBSET Names] /\ \A d \in Clients : refs[d] \subseteq refs'[d]
  BY DEF FC!Lend, FC!Throw, CacheInv, FC!TypeOK
<1>3. FC!TypeOK'
  BY Zenon, <1>1, <1>2 DEF CacheInv, FC!TypeOK
<1>4. ASSUME NEW d \in Clients, fc_pc'[d] = "waiting"
      PROVE  FC!Holders(name[d])' # {}
  <2>1. fc_pc[d] = "waiting"
    BY <1>1, <1>4 DEF CacheInv, FC!TypeOK
  <2>2. PICK e \in Clients : name[d] \in refs[e]
    BY <2>1 DEF CacheInv, FC!Holders
  <2> QED
    BY <1>2, <2>2 DEF FC!Holders
<1> QED
  BY <1>3, <1>4 DEF CacheInv

(* One step of a client, or a write to a file. *)
LEMMA CacheStep ==
    ASSUME CacheInv, FC!Next
    PROVE  CacheInv'
<1>1. ASSUME NEW n \in Names, FC!Write(n) PROVE CacheInv'
  <2>1. st_mtime' \in [Names -> FC!Times]
    BY <1>1, GenericsAssumption DEF CacheInv, FC!Write, FC!TypeOK, FC!Times
  <2>2. FC!TypeOK'
    BY <1>1, <2>1 DEF CacheInv, FC!Write, FC!TypeOK
  <2> QED
    BY <1>1, <2>2 DEF CacheInv, FC!Write, FC!Holders
<1>2. ASSUME NEW c \in Clients, NEW n \in Names, FC!get(c, n) PROVE CacheInv'
  <2>1. FC!TypeOK'
    BY <1>2 DEF CacheInv, FC!get, FC!TypeOK
  <2>2. ASSUME NEW d \in Clients, fc_pc'[d] = "waiting" PROVE FC!Holders(name[d])' # {}
    BY <1>2, <2>2 DEF CacheInv, FC!get, FC!TypeOK, FC!Holders
  <2> QED
    BY <1>2, <2>1, <2>2 DEF CacheInv, FC!get
<1>3. ASSUME NEW c \in Clients, NEW n \in Names, FC!remove_ref_no_delete_(c, n)
      PROVE  CacheInv'
  <2>1. /\ refs' = [refs EXCEPT ![c] = @ \ {n}]
        /\ fc_pc' = [d \in Clients |->
                        IF FC!Holders(n) = {c} /\ fc_pc[d] = "waiting" /\ name[d] = n
                        THEN "woken" ELSE fc_pc[d]]
        /\ n \in refs[c]
        /\ UNCHANGED <<managed, st_mtime, last_modification_time_, content_, name, mutex_>>
    BY <1>3 DEF FC!remove_ref_no_delete_
  <2>2. FC!TypeOK'
    BY SMTT(30), <2>1 DEF CacheInv, FC!TypeOK
  <2>3. ASSUME NEW d \in Clients, fc_pc'[d] = "waiting" PROVE FC!Holders(name[d])' # {}
    <3>1. fc_pc[d] = "waiting" /\ ~(FC!Holders(n) = {c} /\ name[d] = n)
      BY <2>1, <2>3
    <3>2. PICK e \in Clients : name[d] \in refs[e] /\ (e = c => name[d] # n)
      <4>1. CASE name[d] = n
        <5>1. c \in FC!Holders(n)
          BY <2>1 DEF FC!Holders
        <5>2. PICK e \in FC!Holders(n) : e # c
          BY <3>1, <4>1, <5>1
        <5> QED
          BY <4>1, <5>2 DEF FC!Holders
      <4>2. CASE name[d] # n
        BY <3>1, <4>2 DEF CacheInv, FC!Holders
      <4> QED
        BY <4>1, <4>2
    <3>3. name[d] \in refs'[e]
      BY <2>1, <3>2 DEF CacheInv, FC!TypeOK
    <3> QED
      BY <2>1, <3>3 DEF FC!Holders
  <2> QED
    BY <2>1, <2>2, <2>3 DEF CacheInv
<1>4. ASSUME NEW c \in Clients, FC!LockManager(c) PROVE CacheInv'
  <2>1. FC!TypeOK'
    BY <1>4 DEF CacheInv, FC!LockManager, FC!TypeOK
  <2> QED
    BY <1>4, <2>1 DEF CacheInv, FC!LockManager, FC!TypeOK, FC!Holders
<1>5. ASSUME NEW c \in Clients, FC!GetUnchanged(c) PROVE CacheInv'
  BY <1>5, CacheLeaves DEF CacheInv, FC!GetUnchanged, FC!TypeOK
<1>6. ASSUME NEW c \in Clients, FC!GetNoFile(c) PROVE CacheInv'
  BY <1>6, CacheLeaves DEF CacheInv, FC!GetNoFile, FC!TypeOK
<1>7. ASSUME NEW c \in Clients, FC!GetChanged(c) PROVE CacheInv'
  <2>1. last_modification_time_' \in [Names -> FC!Times]
    BY <1>7 DEF CacheInv, FC!GetChanged, FC!TypeOK
  <2>2. CASE FC!Holders(name[c]) = {}
    <3>1. FC!UpdateAndLend(c)
      BY <1>7, <2>2 DEF FC!GetChanged
    <3>2. content_' \in [Names -> FC!Times]
      BY <3>1 DEF CacheInv, FC!UpdateAndLend, FC!TypeOK
    <3>3. FC!Lend(c) \/ FC!Throw(c)
      BY <3>1 DEF FC!UpdateAndLend
    <3> QED
      BY SMTT(30), <1>7, <2>1, <3>2, <3>3, CacheLeaves DEF FC!GetChanged
  <2>3. CASE FC!Holders(name[c]) # {}
    <3>1. /\ fc_pc[c] = "get" /\ fc_pc' = [fc_pc EXCEPT ![c] = "waiting"]
          /\ UNCHANGED <<content_, refs, mutex_, managed, st_mtime, name>>
      BY <1>7, <2>3 DEF FC!GetChanged
    <3>2. FC!TypeOK'
      BY <2>1, <3>1 DEF CacheInv, FC!TypeOK
    <3>3. ASSUME NEW d \in Clients, fc_pc'[d] = "waiting" PROVE FC!Holders(name[d]) # {}
      BY <2>3, <3>1, <3>3 DEF CacheInv, FC!TypeOK
    <3> QED
      BY <3>1, <3>2, <3>3 DEF CacheInv, FC!Holders
  <2> QED
    BY <2>2, <2>3
<1>8. ASSUME NEW c \in Clients, FC!SpuriousWakeup(c) PROVE CacheInv'
  BY <1>8 DEF CacheInv, FC!SpuriousWakeup, FC!TypeOK, FC!Holders
<1>9. ASSUME NEW c \in Clients, FC!GetWoken(c) PROVE CacheInv'
  <2>1. content_' \in [Names -> FC!Times]
    BY <1>9 DEF CacheInv, FC!GetWoken, FC!UpdateAndLend, FC!TypeOK
  <2>2. FC!Lend(c) \/ FC!Throw(c)
    BY SMTT(30), <1>9 DEF FC!GetWoken, FC!UpdateAndLend
  <2> QED
    BY <1>9, <2>1, <2>2, CacheLeaves DEF CacheInv, FC!GetWoken, FC!TypeOK
<1> QED
  BY SMTT(30), <1>1, <1>2, <1>3, <1>4, <1>5, <1>6, <1>7, <1>8, <1>9 DEF FC!Next

(* The only steps that load a file are those of a get() that finds no      *)
(* holder.                                                                 *)
LEMMA CacheHolds ==
    ASSUME CacheInv, FC!Next, NEW n \in Names, FC!Holders(n) # {}
    PROVE  content_'[n] = content_[n]
<1>1. ASSUME NEW c \in Clients, FC!GetChanged(c) PROVE content_'[n] = content_[n]
  <2>1. CASE FC!Holders(name[c]) = {}
    <3>1. name[c] # n
      BY SMTT(30), <2>1
    <3> QED
      BY <1>1, <2>1, <3>1 DEF CacheInv, FC!TypeOK, FC!GetChanged, FC!UpdateAndLend
  <2>2. CASE FC!Holders(name[c]) # {}
    BY <1>1, <2>2 DEF FC!GetChanged
  <2> QED
    BY <2>1, <2>2
<1>2. ASSUME NEW c \in Clients, FC!GetWoken(c) PROVE content_'[n] = content_[n]
  <2>1. CASE FC!Holders(name[c]) = {}
    <3>1. name[c] # n
      BY <2>1
    <3> QED
      BY SMTT(30), <1>2, <2>1, <3>1 DEF CacheInv, FC!TypeOK, FC!GetWoken, FC!UpdateAndLend
  <2>2. CASE FC!Holders(name[c]) # {}
    BY <1>2, <2>2 DEF FC!GetWoken
  <2> QED
    BY <2>1, <2>2
<1> QED
  BY <1>1, <1>2 DEF FC!Next, FC!Write, FC!get, FC!remove_ref_no_delete_, FC!LockManager,
                    FC!GetUnchanged, FC!GetNoFile, FC!SpuriousWakeup

-----------------------------------------------------------------------------
(* All components.  A step is one of the component at work, or changes     *)
(* nothing of it.                                                          *)

LEMMA RunnerInductive ==
    ASSUME Discipline, RunnerInv, [Next]_all
    PROVE  RunnerInv'
<1>1. CASE PE!Next
  BY <1>1, RunnerStep
<1>2. CASE UNCHANGED peVars
  BY <1>2 DEF peVars, RunnerInv, PE!TypeOK
<1> QED
  BY <1>1, <1>2 DEF Next, all

LEMMA PoolInductive ==
    ASSUME PoolInv, [Next]_all
    PROVE  PoolInv'
<1>1. CASE TP!Next
  BY <1>1, PoolStep
<1>2. CASE UNCHANGED tpVars
  BY <1>2 DEF tpVars, PoolInv, TP!TypeOK, TP!Queues
<1> QED
  BY <1>1, <1>2 DEF Next, all

LEMMA CacheInductive ==
    ASSUME CacheInv, [Next]_all
    PROVE  CacheInv'
<1>1. CASE FC!Next
  BY <1>1, CacheStep
<1>2. CASE UNCHANGED fcVars
  BY <1>2 DEF fcVars, CacheInv, FC!TypeOK, FC!Holders
<1> QED
  BY <1>1, <1>2 DEF Next, all

(* Nobody sleeps over work: the planner's thread (Scheduler.cpp, work()),  *)
(* the threads of a pool (TaskPool.cpp), the clients of a file's cache     *)
(* (FileCache.hpp, get()), however many there are; and no thread of a      *)
(* periodic runner ends while it is active (Periodic.cpp), if its tasks    *)
(* are changed only when it is not.                                        *)
THEOREM NobodyOversleeps == Discipline => (Spec => []SleepersWillWake)
<1> SUFFICES ASSUME Discipline PROVE Spec => []SleepersWillWake
  OBVIOUS
<1> DEFINE Inv == RunnerInv /\ PoolInv /\ CacheInv /\ PlannerInv
<1>1. Init => Inv
  BY RunnerInit, PoolInit, CacheInit, PlannerInit DEF Init
<1>2. Inv /\ [Next]_all => Inv'
  BY RunnerInductive, PoolInductive, CacheInductive, PlannerInductive
<1>3. Inv => SleepersWillWake
  <2> SUFFICES ASSUME Inv PROVE SleepersWillWake
    OBVIOUS
  <2>1. PL!NoOversleeping
    BY DEF PlannerInv, PL!NoOversleeping
  <2>2. TP!NoTaskWithoutWakeup
    BY DEF PoolInv, TP!NoTaskWithoutWakeup
  <2>3. FC!SomebodyWillWake
    BY DEF CacheInv, FC!SomebodyWillWake
  <2>4. PE!ThreadsStayWhileActive
    BY DEF RunnerInv, PE!ThreadsStayWhileActive
  <2> QED
    BY <2>1, <2>2, <2>3, <2>4 DEF SleepersWillWake
<1> QED
  BY <1>1, <1>2, <1>3, PTL DEF Spec

(* A file's cache is loaded anew only when nobody holds its buffer, also   *)
(* by a get() whose wait has ended without a reason.                       *)
THEOREM HeldContentStable == Spec => ContentStable
<1>1. Init => CacheInv
  BY CacheInit DEF Init
<1>2. CacheInv /\ [Next]_all => CacheInv'
  BY CacheInductive
<1>3. CacheInv /\ [Next]_all =>
        [\A n \in Names : FC!Holders(n) # {} => content_'[n] = content_[n]]_(FC!vars)
  <2> SUFFICES ASSUME CacheInv, [Next]_all
               PROVE  \/ \A n \in Names : FC!Holders(n) # {} => content_'[n] = content_[n]
                      \/ UNCHANGED FC!vars
    OBVIOUS
  <2>1. CASE FC!Next
    BY <2>1, CacheHolds
  <2>2. CASE UNCHANGED fcVars
    BY <2>2 DEF fcVars, FC!vars
  <2> QED
    BY <2>1, <2>2 DEF Next, all
<1> QED
  BY <1>1, <1>2, <1>3, PTL DEF Spec, ContentStable, FC!ContentStable
=============================================================================
