--------------------------- MODULE TaskRunnerProofs ---------------------------
(***************************************************************************)
(* Theorems about Generics::TaskRunner, for any number of producers, tasks *)
(* and threads and any limit of the queue: types, slots and the growth of  *)
(* the pool, on which TaskRunnerWakeups rests.                             *)
(*                                                                         *)
(* Most of them compare numbers of threads in certain states with counters *)
(* and queue lengths.  Count is the number of threads in given states, and *)
(* CountMove says how it changes when one thread changes its state.        *)
(***************************************************************************)
EXTENDS TaskRunner, FiniteSetTheorems, TLAPS

Count(f, D, A) == Cardinality({x \in D : f[x] \in A})

Has(A, x) == IF x \in A THEN 1 ELSE 0

(* The number of threads in given states is a natural number, positive if  *)
(* there is such a thread.                                                 *)
LEMMA CountType ==
    ASSUME NEW D, IsFiniteSet(D), NEW f, NEW A
    PROVE  /\ IsFiniteSet({x \in D : f[x] \in A})
           /\ Count(f, D, A) \in Nat
           /\ Count(f, D, A) = 0 <=> {x \in D : f[x] \in A} = {}
           /\ \A d \in D : f[d] \in A => Count(f, D, A) >= 1
<1> DEFINE S == {x \in D : f[x] \in A}
<1>1. S \in SUBSET D
  OBVIOUS
<1>2. IsFiniteSet(S)
  BY <1>1, FS_Subset
<1>3. Cardinality(S) \in Nat
  BY <1>2, FS_CardinalityType
<1>4. Cardinality(S) = 0 <=> S = {}
  BY <1>2, FS_EmptySet
<1>5. \A d \in D : f[d] \in A => Cardinality(S) >= 1
  BY <1>3, <1>4
<1> QED
  BY <1>2, <1>3, <1>4, <1>5 DEF Count

(* One thread changes its state. *)
LEMMA CountMove ==
    ASSUME NEW D, IsFiniteSet(D), NEW f, NEW g, NEW d \in D,
           \A x \in D : x # d => g[x] = f[x],
           NEW A
    PROVE  Count(g, D, A) = Count(f, D, A) - Has(A, f[d]) + Has(A, g[d])
<1> DEFINE S == {x \in D : f[x] \in A}
           T == {x \in D : g[x] \in A}
<1>1. IsFiniteSet(S) /\ Cardinality(S) \in Nat
  BY CountType DEF Count
<1>2. /\ IsFiniteSet(S \ {d})
      /\ Cardinality(S \ {d}) = IF d \in S THEN Cardinality(S) - 1 ELSE Cardinality(S)
  BY <1>1, FS_RemoveElement, Zenon
<1>3. /\ Count(g, D, A) = Cardinality(T)
      /\ Count(f, D, A) = Cardinality(S)
      /\ d \in S <=> f[d] \in A
  BY DEF Count
<1>4. CASE g[d] \in A
  <2>1. T = (S \ {d}) \cup {d}
    BY <1>4
  <2>2. Cardinality((S \ {d}) \cup {d}) = Cardinality(S \ {d}) + 1
    BY <1>2, FS_AddElement
  <2> HIDE DEF S, T
  <2> QED
    BY <2>1, <2>2, <1>1, <1>2, <1>3, <1>4 DEF Has
<1>5. CASE g[d] \notin A
  <2>1. T = S \ {d}
    BY <1>5
  <2> HIDE DEF S, T
  <2> QED
    BY <2>1, <1>1, <1>2, <1>3, <1>5 DEF Has
<1> QED
  BY <1>4, <1>5

(* The threads and the producers are finitely many. *)
LEMMA Finite == IsFiniteSet(Workers) /\ IsFiniteSet(Producers)
  BY FS_Interval, ThreadsAssumption, SetsAssumption DEF Workers

-----------------------------------------------------------------------------
(* The types, for a counter of unused threads that may be anything: it     *)
(* stays a natural number only if the runner is not activated again.       *)
WeakTypeOK ==
    /\ active_state_ \in {"AS_ACTIVE", "AS_DEACTIVATING", "AS_NOT_ACTIVE"}
    /\ terminating_ \in BOOLEAN
    /\ number_running_ \in 0 .. NumberOfThreads
    /\ tasks_ \in Seq(Tasks)
    /\ number_of_unused_threads_ \in Int
    /\ waiting_threads_ = Count(worker, Workers, {"waiting", "woken"})
    /\ worker \in [Workers -> WorkerStates]
    /\ run_task \in [Workers -> Tasks \cup {NoTask}]
    /\ producer \in [Producers -> ProducerStates]
    /\ flags \in [Producers -> [signal : BOOLEAN, add : BOOLEAN]]
    /\ slot \in 0 .. NumberOfThreads
    /\ ctl \in {"idle", "terminating", "joining", "drained", "completed", "stopped"}
    /\ joined \in 0 .. NumberOfThreads

(* adding_thread_ counts the producers between its increment and its       *)
(* decrement; the one among them that has created a thread finds room for  *)
(* it in number_running_.                                                  *)
Growing == {"growing", "creating", "checking", "starting", "created", "undo"}
Adding == Growing \cup {"leaving"}

AddingInv ==
    /\ adding_thread_ = Count(producer, Producers, Adding)
    /\ GrowersExcluded
    /\ \A p \in Producers :
         producer[p] = "created" => number_running_ < NumberOfThreads /\ slot \in Workers

Base == WeakTypeOK /\ AddingInv

(* A thread moves from one place in work() to another. *)
LEMMA WorkerMove ==
    ASSUME worker \in [Workers -> WorkerStates],
           NEW w \in Workers, NEW s \in WorkerStates, worker' = [worker EXCEPT ![w] = s]
    PROVE  /\ worker' \in [Workers -> WorkerStates]
           /\ worker'[w] = s /\ \A v \in Workers : v # w => worker'[v] = worker[v]
           /\ \A A \in SUBSET WorkerStates :
                 /\ Count(worker, Workers, A) \in Nat
                 /\ Count(worker', Workers, A) =
                        Count(worker, Workers, A) - Has(A, worker[w]) + Has(A, s)
<1>1. worker' \in [Workers -> WorkerStates]
  OBVIOUS
<1>2. worker'[w] = s /\ \A v \in Workers : v # w => worker'[v] = worker[v]
  OBVIOUS
<1>3. ASSUME NEW A \in SUBSET WorkerStates
      PROVE  /\ Count(worker, Workers, A) \in Nat
             /\ Count(worker', Workers, A) =
                    Count(worker, Workers, A) - Has(A, worker[w]) + Has(A, s)
  <2>1. Count(worker, Workers, A) \in Nat
    BY CountType, Finite, Zenon
  <2>2. Count(worker', Workers, A) = Count(worker, Workers, A) - Has(A, worker[w]) + Has(A, worker'[w])
    <3> DEFINE g == worker'
    <3>1. IsFiniteSet(Workers) /\ \A x \in Workers : x # w => g[x] = worker[x]
      BY <1>2, Finite
    <3> HIDE DEF g
    <3>2. Count(g, Workers, A) = Count(worker, Workers, A) - Has(A, worker[w]) + Has(A, g[w])
      BY <3>1, CountMove
    <3> QED
      BY <3>2 DEF g
  <2> QED
    BY <1>2, <2>1, <2>2
<1> QED
  BY <1>1, <1>2, <1>3, Zenon

(* A producer moves from one place in enqueue_task() to another. *)
LEMMA ProducerMove ==
    ASSUME producer \in [Producers -> ProducerStates],
           NEW p \in Producers, NEW s \in ProducerStates, producer' = [producer EXCEPT ![p] = s]
    PROVE  /\ producer' \in [Producers -> ProducerStates]
           /\ producer'[p] = s /\ \A q \in Producers : q # p => producer'[q] = producer[q]
           /\ \A A \in SUBSET ProducerStates :
                 /\ Count(producer, Producers, A) \in Nat
                 /\ Count(producer', Producers, A) =
                        Count(producer, Producers, A) - Has(A, producer[p]) + Has(A, s)
<1>1. producer' \in [Producers -> ProducerStates]
  OBVIOUS
<1>2. producer'[p] = s /\ \A q \in Producers : q # p => producer'[q] = producer[q]
  OBVIOUS
<1>3. ASSUME NEW A \in SUBSET ProducerStates
      PROVE  /\ Count(producer, Producers, A) \in Nat
             /\ Count(producer', Producers, A) =
                    Count(producer, Producers, A) - Has(A, producer[p]) + Has(A, s)
  <2>1. Count(producer, Producers, A) \in Nat
    BY CountType, Finite, Zenon
  <2>2. Count(producer', Producers, A) = Count(producer, Producers, A) - Has(A, producer[p]) + Has(A, producer'[p])
    <3> DEFINE g == producer'
    <3>1. IsFiniteSet(Producers) /\ \A x \in Producers : x # p => g[x] = producer[x]
      BY <1>2, Finite
    <3> HIDE DEF g
    <3>2. Count(g, Producers, A) = Count(producer, Producers, A) - Has(A, producer[p]) + Has(A, g[p])
      BY <3>1, CountMove
    <3> QED
      BY <3>2 DEF g
  <2> QED
    BY <1>2, <2>1, <2>2
<1> QED
  BY <1>1, <1>2, <1>3, Zenon

(* What a change of one thread does to the facts about threads in Base. *)
LEMMA WorkerBase ==
    ASSUME WeakTypeOK, NEW w \in Workers, NEW s \in WorkerStates,
           worker' = [worker EXCEPT ![w] = s],
           waiting_threads_' = waiting_threads_ - Has({"waiting", "woken"}, worker[w])
                                                + Has({"waiting", "woken"}, s)
    PROVE  /\ waiting_threads_' = Count(worker, Workers, {"waiting", "woken"})'
           /\ worker' \in [Workers -> WorkerStates]
<1>1. {"waiting", "woken"} \in SUBSET WorkerStates
  BY DEF WorkerStates
<1>2. worker \in [Workers -> WorkerStates]
  BY DEF WeakTypeOK
<1>3. /\ worker' \in [Workers -> WorkerStates]
      /\ Count(worker', Workers, {"waiting", "woken"}) =
            Count(worker, Workers, {"waiting", "woken"})
              - Has({"waiting", "woken"}, worker[w]) + Has({"waiting", "woken"}, s)
  BY <1>1, <1>2, WorkerMove, Zenon
<1>4. waiting_threads_' = Count(worker', Workers, {"waiting", "woken"})
  BY <1>3 DEF WeakTypeOK
<1> QED
  BY <1>3, <1>4

(* What a change of one producer does to the facts about producers in Base:*)
(* nobody enters add_thread_i_() unless adding_thread_ was zero, and only  *)
(* who is in start_one() changes number_running_.                          *)
LEMMA ProducerBase ==
    ASSUME WeakTypeOK, AddingInv, NEW p \in Producers, NEW s \in ProducerStates,
           producer' = [producer EXCEPT ![p] = s],
           adding_thread_' = adding_thread_ - Has(Adding, producer[p]) + Has(Adding, s),
           s \in Growing => producer[p] \in Growing \/ adding_thread_ = 0,
           \/ s # "created" /\ UNCHANGED <<number_running_, slot>>
           \/ /\ producer[p] \in {"starting", "created"}
              /\ s = "created" => number_running_' < NumberOfThreads /\ slot' \in Workers
    PROVE  producer' \in [Producers -> ProducerStates] /\ AddingInv'
<1>1. Adding \in SUBSET ProducerStates
  BY DEF ProducerStates, Adding, Growing
<1>2. producer \in [Producers -> ProducerStates]
  BY DEF WeakTypeOK
<1>3. /\ producer' \in [Producers -> ProducerStates]
      /\ producer'[p] = s /\ \A q \in Producers : q # p => producer'[q] = producer[q]
      /\ Count(producer', Producers, Adding) =
            Count(producer, Producers, Adding) - Has(Adding, producer[p]) + Has(Adding, s)
  BY <1>1, <1>2, ProducerMove, Zenon
<1>4. adding_thread_' = Count(producer', Producers, Adding)
  BY <1>3 DEF AddingInv
<1>5. adding_thread_ = 0 => \A q \in Producers : producer[q] \notin Adding
  <2>1. Count(producer, Producers, Adding) = 0 => {q \in Producers : producer[q] \in Adding} = {}
    BY CountType, Finite, Zenon
  <2> QED
    BY <2>1 DEF AddingInv
<1>6. GrowersExcluded
  BY DEF AddingInv
<1>7. \A q \in Producers : q # p /\ s \in Growing => producer[q] \notin Growing
  BY <1>5, <1>6 DEF GrowersExcluded, Reserved, Growing, Adding
<1>8. GrowersExcluded'
  BY <1>3, <1>6, <1>7 DEF GrowersExcluded, Reserved, Growing
<1>9. ASSUME NEW q \in Producers, producer'[q] = "created"
      PROVE  (number_running_ < NumberOfThreads /\ slot \in Workers)'
  <2>1. CASE s # "created" /\ UNCHANGED <<number_running_, slot>>
    BY <1>3, <1>9, <2>1 DEF AddingInv
  <2>2. CASE /\ producer[p] \in {"starting", "created"}
             /\ s = "created" => number_running_' < NumberOfThreads /\ slot' \in Workers
    <3>1. q = p
      BY <1>3, <1>6, <1>9, <2>2 DEF GrowersExcluded, Reserved
    <3> QED
      BY <1>3, <1>9, <2>2, <3>1
  <2> QED
    BY <2>1, <2>2
<1> QED
  BY <1>3, <1>4, <1>8, <1>9 DEF AddingInv

(* The facts hold for a new runner. *)
LEMMA BaseInit == Init => Base
<1> SUFFICES ASSUME Init PROVE Base
  OBVIOUS
<1>1. /\ worker \in [Workers -> WorkerStates]
      /\ producer \in [Producers -> ProducerStates]
      /\ run_task \in [Workers -> Tasks \cup {NoTask}]
  BY DEF Init, WorkerStates, ProducerStates
<1>2. /\ number_running_ \in 0 .. NumberOfThreads
      /\ slot \in 0 .. NumberOfThreads /\ joined \in 0 .. NumberOfThreads
      /\ number_of_unused_threads_ \in Int
      /\ tasks_ \in Seq(Tasks)
  BY ThreadsAssumption DEF Init, StartThreads, Larger
<1>3. flags \in [Producers -> [signal : BOOLEAN, add : BOOLEAN]] /\ terminating_ \in BOOLEAN
  BY Zenon DEF Init
<1>4. waiting_threads_ = Count(worker, Workers, {"waiting", "woken"})
  <2>1. {w \in Workers : worker[w] \in {"waiting", "woken"}} = {}
    BY DEF Init
  <2>2. Count(worker, Workers, {"waiting", "woken"}) = 0
    BY <2>1, FS_EmptySet DEF Count
  <2> QED
    BY <2>2 DEF Init
<1>5. AddingInv
  <2>1. {p \in Producers : producer[p] \in Adding} = {}
    BY DEF Init, Adding, Growing
  <2>2. Count(producer, Producers, Adding) = 0
    BY <2>1, FS_EmptySet DEF Count
  <2>3. GrowersExcluded
    BY DEF Init, GrowersExcluded, Reserved
  <2> QED
    BY <2>2, <2>3 DEF Init, AddingInv
<1>6. WeakTypeOK
  BY <1>1, <1>2, <1>3, <1>4 DEF WeakTypeOK, Init
<1> QED
  BY <1>5, <1>6 DEF Base

(* The producers' steps keep the facts. *)
LEMMA BaseProducer ==
    ASSUME Base, NEW p \in Producers,
           \/ enqueue_task(p) \/ Overflow(p) \/ SpuriousNotFull(p) \/ SignalNewTask(p)
           \/ EnterAdding(p) \/ Reserve(p) \/ CheckRunning(p) \/ CheckFull(p) \/ start_one(p)
           \/ CountOne(p) \/ UndoReserve(p) \/ LeaveAdding(p)
    PROVE  Base'
<1> USE DEF Base, jobVars, workerVars, producerVars
<1>1. adding_thread_ \in Nat
  BY CountType, Finite, Zenon DEF AddingInv
<1>2. CASE enqueue_task(p)
  <2>1. ASSUME producer' = [producer EXCEPT ![p] = "pushed"],
               NEW task \in Tasks, tasks_' = Append(tasks_, task),
               NEW a \in BOOLEAN, NEW b \in BOOLEAN,
               flags' = [flags EXCEPT ![p] = [signal |-> a, add |-> b]]
        PROVE  Base'
    <3> DEFINE s == "pushed"
    <3>0. /\ s \in ProducerStates /\ producer' = [producer EXCEPT ![p] = s]
          /\ adding_thread_' = adding_thread_ - Has(Adding, producer[p]) + Has(Adding, s)
          /\ s \in Growing => producer[p] \in Growing \/ adding_thread_ = 0
          /\ s # "created" /\ UNCHANGED <<number_running_, slot>>
      BY <1>1, <1>2, <2>1 DEF enqueue_task, ProducerStates, Adding, Growing, Has
    <3> HIDE DEF s
    <3>1. producer' \in [Producers -> ProducerStates] /\ AddingInv'
      BY <3>0, ProducerBase, Zenon
    <3>2. tasks_' \in Seq(Tasks)
      BY <2>1 DEF WeakTypeOK
    <3>3. flags' \in [Producers -> [signal : BOOLEAN, add : BOOLEAN]]
      BY <2>1 DEF WeakTypeOK
    <3> QED
      BY <1>2, <3>1, <3>2, <3>3 DEF enqueue_task, WeakTypeOK
  <2>2. CASE producer' = [producer EXCEPT ![p] = "waiting"] /\ UNCHANGED <<tasks_, flags>>
    <3> DEFINE s == "waiting"
    <3>0. /\ s \in ProducerStates /\ producer' = [producer EXCEPT ![p] = s]
          /\ adding_thread_' = adding_thread_ - Has(Adding, producer[p]) + Has(Adding, s)
          /\ s \in Growing => producer[p] \in Growing \/ adding_thread_ = 0
          /\ s # "created" /\ UNCHANGED <<number_running_, slot>>
      BY <1>1, <1>2, <2>2 DEF enqueue_task, ProducerStates, Adding, Growing, Has
    <3> HIDE DEF s
    <3>1. producer' \in [Producers -> ProducerStates] /\ AddingInv'
      BY <3>0, ProducerBase, Zenon
    <3> QED
      BY <1>2, <2>2, <3>1 DEF enqueue_task, WeakTypeOK
  <2>3. CASE MaxPending = 0 \/ Len(tasks_) < MaxPending
    <3>1. PICK task \in Tasks : tasks_' = Append(tasks_, task)
      BY <1>2, <2>3 DEF enqueue_task, Push
    <3> DEFINE a == waiting_threads_ > 0
               b == Len(tasks_) > number_of_unused_threads_
    <3>2. a \in BOOLEAN /\ b \in BOOLEAN
      OBVIOUS
    <3>3. /\ producer' = [producer EXCEPT ![p] = "pushed"]
          /\ flags' = [flags EXCEPT ![p] = [signal |-> a, add |-> b]]
      BY <1>2, <2>3, Zenon DEF enqueue_task, Push
    <3> HIDE DEF a, b
    <3> QED
      BY <2>1, <3>1, <3>2, <3>3, Zenon
  <2> QED
    BY <1>2, <2>2, <2>3 DEF enqueue_task, Push
<1>3. CASE Overflow(p) \/ SpuriousNotFull(p)
  <2>1. producer' \in [Producers -> ProducerStates] /\ AddingInv'
    BY <1>1, <1>3, ProducerBase DEF Overflow, SpuriousNotFull, ProducerStates, Adding, Growing, Has
  <2> QED
    BY <1>3, <2>1 DEF Overflow, SpuriousNotFull, WeakTypeOK
<1>4. CASE SignalNewTask(p)
  <2> DEFINE s == IF flags[p].add THEN "adding" ELSE "idle"
  <2>0. /\ s \in ProducerStates /\ producer' = [producer EXCEPT ![p] = s]
        /\ adding_thread_' = adding_thread_ - Has(Adding, producer[p]) + Has(Adding, s)
        /\ s \in Growing => producer[p] \in Growing \/ adding_thread_ = 0
        /\ s # "created" /\ UNCHANGED <<number_running_, slot>>
    BY <1>1, <1>4 DEF SignalNewTask, ProducerStates, Adding, Growing, Has
  <2> HIDE DEF s
  <2>1. producer' \in [Producers -> ProducerStates] /\ AddingInv'
    BY <2>0, ProducerBase, Zenon
  <2>2. CASE UNCHANGED worker
    BY <1>4, <2>1, <2>2 DEF SignalNewTask, WeakTypeOK
  <2>3. ASSUME NEW w \in In("waiting"), worker' = [worker EXCEPT ![w] = "woken"] PROVE Base'
    <3>1. waiting_threads_ \in Nat
      BY CountType, Finite, Zenon DEF WeakTypeOK
    <3>2. /\ waiting_threads_' = Count(worker, Workers, {"waiting", "woken"})'
          /\ worker' \in [Workers -> WorkerStates]
      <4>1. /\ w \in Workers /\ "woken" \in WorkerStates
            /\ waiting_threads_' = waiting_threads_ - Has({"waiting", "woken"}, worker[w])
                                     + Has({"waiting", "woken"}, "woken")
        BY <1>4, <2>3, <3>1 DEF SignalNewTask, In, WorkerStates, Has
      <4> QED
        BY <1>4, <2>3, <4>1, WorkerBase, Zenon DEF SignalNewTask, In
    <3> QED
      BY <1>4, <2>1, <3>2 DEF SignalNewTask, WeakTypeOK
  <2> QED
    BY <1>4, <2>2, <2>3 DEF SignalNewTask
<1>5. CASE EnterAdding(p)
  <2> DEFINE s == IF adding_thread_ = 0 THEN "growing" ELSE "leaving"
  <2>0. /\ s \in ProducerStates /\ producer' = [producer EXCEPT ![p] = s]
        /\ adding_thread_' = adding_thread_ - Has(Adding, producer[p]) + Has(Adding, s)
        /\ s \in Growing => producer[p] \in Growing \/ adding_thread_ = 0
        /\ s # "created" /\ UNCHANGED <<number_running_, slot>>
    BY <1>1, <1>5 DEF EnterAdding, ProducerStates, Adding, Growing, Has
  <2> HIDE DEF s
  <2>1. producer' \in [Producers -> ProducerStates] /\ AddingInv'
    BY <2>0, ProducerBase, Zenon
  <2> QED
    BY <1>5, <2>1 DEF EnterAdding, WeakTypeOK
<1>6. CASE Reserve(p) \/ UndoReserve(p)
  <2>1. producer' \in [Producers -> ProducerStates] /\ AddingInv'
    BY <1>1, <1>6, ProducerBase DEF Reserve, UndoReserve, ProducerStates, Adding, Growing, Has
  <2> QED
    BY <1>6, <2>1 DEF Reserve, UndoReserve, WeakTypeOK
<1>7. CASE CheckRunning(p) \/ CheckFull(p)
  <2>1. producer' \in [Producers -> ProducerStates] /\ AddingInv'
    BY <1>1, <1>7, ProducerBase DEF CheckRunning, CheckFull, ProducerStates, Adding, Growing, Has
  <2> QED
    BY <1>7, <2>1 DEF CheckRunning, CheckFull, WeakTypeOK
<1>9. CASE start_one(p)
  <2>1. CASE producer' = [producer EXCEPT ![p] = "undo"] /\ UNCHANGED <<worker, slot>>
    <3> DEFINE s == "undo"
    <3>0. /\ s \in ProducerStates /\ producer' = [producer EXCEPT ![p] = s]
          /\ adding_thread_' = adding_thread_ - Has(Adding, producer[p]) + Has(Adding, s)
          /\ s \in Growing => producer[p] \in Growing \/ adding_thread_ = 0
          /\ s # "created" /\ UNCHANGED <<number_running_, slot>>
      BY <1>1, <1>9, <2>1 DEF start_one, ProducerStates, Adding, Growing, Has
    <3> HIDE DEF s
    <3>1. producer' \in [Producers -> ProducerStates] /\ AddingInv'
      BY <3>0, ProducerBase, Zenon
    <3> QED
      BY <1>9, <2>1, <3>1 DEF start_one, WeakTypeOK
  <2>2. CASE /\ number_running_ < NumberOfThreads
             /\ worker[number_running_ + 1] = "none"
             /\ worker' = [worker EXCEPT ![number_running_ + 1] = "gate"]
             /\ slot' = number_running_ + 1
             /\ producer' = [producer EXCEPT ![p] = "created"]
    <3> DEFINE w == number_running_ + 1
    <3>1. w \in Workers /\ worker[w] = "none" /\ slot' \in Workers
      BY <2>2, ThreadsAssumption DEF Workers, WeakTypeOK
    <3>2. producer' \in [Producers -> ProducerStates] /\ AddingInv'
      <4>1. /\ producer[p] = "starting" /\ number_running_' < NumberOfThreads
            /\ adding_thread_' = adding_thread_ - Has(Adding, producer[p]) + Has(Adding, "created")
            /\ "created" \in ProducerStates /\ producer[p] \in Growing
        BY <1>1, <1>9, <2>2 DEF start_one, ProducerStates, Adding, Growing, Has
      <4> QED
        BY <2>2, <3>1, <4>1, ProducerBase
    <3> HIDE DEF w
    <3>3. worker' = [worker EXCEPT ![w] = "gate"] /\ "gate" \in WorkerStates
      BY <2>2 DEF w, WorkerStates
    <3>4. waiting_threads_' = waiting_threads_ - Has({"waiting", "woken"}, worker[w])
                                               + Has({"waiting", "woken"}, "gate")
      <4>1. waiting_threads_ \in Nat
        BY CountType, Finite, Zenon DEF WeakTypeOK
      <4> QED
        BY <1>9, <3>1, <4>1 DEF start_one, Has
    <3>5. /\ waiting_threads_' = Count(worker, Workers, {"waiting", "woken"})'
          /\ worker' \in [Workers -> WorkerStates]
      BY <3>1, <3>3, <3>4, WorkerBase, Zenon
    <3>6. slot' \in 0 .. NumberOfThreads
      BY <3>1 DEF Workers
    <3> QED
      BY <1>9, <3>2, <3>5, <3>6 DEF start_one, WeakTypeOK
  <2> QED
    BY <1>9, <2>1, <2>2 DEF start_one
<1>10. CASE CountOne(p)
  <2>1. number_running_ < NumberOfThreads /\ slot \in Workers
    BY <1>10 DEF CountOne, AddingInv
  <2>2. number_running_' \in 0 .. NumberOfThreads /\ slot' \in 0 .. NumberOfThreads
    BY <1>10, <2>1, ThreadsAssumption DEF CountOne, WeakTypeOK, Workers
  <2> DEFINE s == "leaving"
  <2>0. /\ s \in ProducerStates /\ producer' = [producer EXCEPT ![p] = s]
        /\ adding_thread_' = adding_thread_ - Has(Adding, producer[p]) + Has(Adding, s)
        /\ s \in Growing => producer[p] \in Growing \/ adding_thread_ = 0
        /\ producer[p] \in {"starting", "created"} /\ s # "created"
    BY <1>1, <1>10 DEF CountOne, ProducerStates, Adding, Growing, Has
  <2> HIDE DEF s
  <2>3. producer' \in [Producers -> ProducerStates] /\ AddingInv'
    BY <2>0, ProducerBase, Zenon
  <2> QED
    BY <1>10, <2>2, <2>3 DEF CountOne, WeakTypeOK
<1>8. CASE LeaveAdding(p)
  <2> DEFINE s == "idle"
  <2>0. /\ s \in ProducerStates /\ producer' = [producer EXCEPT ![p] = s]
        /\ adding_thread_' = adding_thread_ - Has(Adding, producer[p]) + Has(Adding, s)
        /\ s \in Growing => producer[p] \in Growing \/ adding_thread_ = 0
        /\ s # "created" /\ UNCHANGED <<number_running_, slot>>
    BY <1>1, <1>8 DEF LeaveAdding, ProducerStates, Adding, Growing, Has
  <2> HIDE DEF s
  <2>1. producer' \in [Producers -> ProducerStates] /\ AddingInv'
    BY <2>0, ProducerBase, Zenon
  <2> QED
    BY <1>8, <2>1 DEF LeaveAdding, WeakTypeOK
<1> QED
  BY <1>2, <1>3, <1>4, <1>5, <1>6, <1>7, <1>8, <1>9, <1>10

(* What the critical section of work() makes of the thread, the queue and  *)
(* the counter.                                                            *)
LEMMA TakeOrWaitTypes ==
    ASSUME WeakTypeOK, NEW w \in Workers, NEW unused \in Int, TakeOrWait(w, unused)
    PROVE  /\ \E s \in {"exited", "waiting", "took"} : worker' = [worker EXCEPT ![w] = s]
           /\ tasks_' \in Seq(Tasks)
           /\ number_of_unused_threads_' \in Int
           /\ run_task' \in [Workers -> Tasks \cup {NoTask}]
<1>1. CASE terminating_ \/ tasks_ = <<>>
  BY <1>1 DEF TakeOrWait, WeakTypeOK
<1>2. CASE ~terminating_ /\ tasks_ # <<>>
  <2>1. Head(tasks_) \in Tasks /\ Tail(tasks_) \in Seq(Tasks)
    BY <1>2 DEF WeakTypeOK
  <2>2. /\ worker' = [worker EXCEPT ![w] = "took"]
        /\ tasks_' = Tail(tasks_)
        /\ number_of_unused_threads_' = unused - 1
        /\ run_task' = [run_task EXCEPT ![w] = Head(tasks_)]
    BY <1>2 DEF TakeOrWait
  <2>3. run_task' \in [Workers -> Tasks \cup {NoTask}]
    BY <2>1, <2>2 DEF WeakTypeOK
  <2> QED
    BY <2>1, <2>2, <2>3
<1> QED
  BY <1>1, <1>2

(* The threads' steps keep the facts. *)
LEMMA BaseWorker ==
    ASSUME Base, NEW w \in Workers,
           \/ PassGate(w) \/ WorkTop(w) \/ WorkWoken(w) \/ SpuriousWakeup(w)
           \/ SignalNotFull(w) \/ Execute(w)
    PROVE  Base'
<1> USE DEF Base, jobVars, workerVars, producerVars
<1>1. waiting_threads_ \in Nat
  BY CountType, Finite, Zenon DEF WeakTypeOK
<1>2. worker \in [Workers -> WorkerStates] /\ number_of_unused_threads_ \in Int
  BY DEF WeakTypeOK
<1>3. CASE WorkTop(w) \/ WorkWoken(w)
  <2>1. PICK unused \in Int : TakeOrWait(w, unused)
    BY <1>2, <1>3 DEF WorkTop, WorkWoken
  <2>2. PICK s \in {"exited", "waiting", "took"} : worker' = [worker EXCEPT ![w] = s]
    BY <2>1, TakeOrWaitTypes
  <2>3. /\ tasks_' \in Seq(Tasks)
        /\ number_of_unused_threads_' \in Int
        /\ run_task' \in [Workers -> Tasks \cup {NoTask}]
    BY <2>1, TakeOrWaitTypes
  <2>4. /\ s \in WorkerStates
        /\ UNCHANGED <<number_running_, active_state_, terminating_, slot, ctl, joined, producer, flags, adding_thread_>>
    BY <1>3 DEF WorkTop, WorkWoken, WorkerStates
  <2>5. waiting_threads_' = waiting_threads_ - Has({"waiting", "woken"}, worker[w])
                                             + Has({"waiting", "woken"}, s)
    <3>1. worker'[w] = s
      BY <1>2, <2>2
    <3> QED
      BY <1>1, <1>3, <3>1 DEF WorkTop, WorkWoken, Has
  <2>6. /\ waiting_threads_' = Count(worker, Workers, {"waiting", "woken"})'
        /\ worker' \in [Workers -> WorkerStates]
    BY <2>2, <2>4, <2>5, WorkerBase, Zenon
  <2>7. AddingInv'
    BY <2>4 DEF AddingInv, GrowersExcluded
  <2> QED
    BY <2>3, <2>4, <2>6, <2>7 DEF WeakTypeOK
<1>4. CASE PassGate(w) \/ SpuriousWakeup(w) \/ Execute(w)
  <2>1. PICK s \in {"start", "woken", "top"} : /\ worker' = [worker EXCEPT ![w] = s]
                                               /\ s = "woken" <=> worker[w] = "waiting"
                                               /\ worker[w] \in {"gate", "waiting", "exec"}
    BY <1>4 DEF PassGate, SpuriousWakeup, Execute
  <2>2. /\ s \in WorkerStates
        /\ waiting_threads_' = waiting_threads_ - Has({"waiting", "woken"}, worker[w])
                                                + Has({"waiting", "woken"}, s)
        /\ UNCHANGED <<number_running_, active_state_, terminating_, slot, ctl, joined, producer, flags,
                       adding_thread_, tasks_, number_of_unused_threads_>>
    BY <1>1, <1>4, <2>1 DEF PassGate, SpuriousWakeup, Execute, Has, WorkerStates
  <2>3. /\ waiting_threads_' = Count(worker, Workers, {"waiting", "woken"})'
        /\ worker' \in [Workers -> WorkerStates]
    BY <2>1, <2>2, WorkerBase, Zenon
  <2>4. AddingInv' /\ run_task' \in [Workers -> Tasks \cup {NoTask}]
    BY <1>4, <2>2 DEF AddingInv, GrowersExcluded, PassGate, SpuriousWakeup, Execute, WeakTypeOK
  <2> QED
    BY <2>2, <2>3, <2>4 DEF WeakTypeOK
<1>5. CASE SignalNotFull(w)
  <2>1. /\ worker' = [worker EXCEPT ![w] = "exec"] /\ "exec" \in WorkerStates
        /\ waiting_threads_' = waiting_threads_ - Has({"waiting", "woken"}, worker[w])
                                                + Has({"waiting", "woken"}, "exec")
        /\ UNCHANGED <<number_running_, active_state_, terminating_, slot, ctl, joined, flags, run_task,
                       adding_thread_, tasks_, number_of_unused_threads_>>
    BY <1>1, <1>5 DEF SignalNotFull, Has, WorkerStates
  <2>2. /\ waiting_threads_' = Count(worker, Workers, {"waiting", "woken"})'
        /\ worker' \in [Workers -> WorkerStates]
    BY <2>1, WorkerBase, Zenon
  <2>3. producer' \in [Producers -> ProducerStates] /\ AddingInv'
    <3>1. CASE UNCHANGED producer
      BY <2>1, <3>1 DEF AddingInv, GrowersExcluded, WeakTypeOK
    <3>2. ASSUME NEW p \in Prod("waiting"), producer' = [producer EXCEPT ![p] = "woken"]
          PROVE  producer' \in [Producers -> ProducerStates] /\ AddingInv'
      <4>1. adding_thread_ \in Nat
        BY CountType, Finite, Zenon DEF AddingInv
      <4>2. /\ p \in Producers /\ "woken" \in ProducerStates
            /\ "woken" \notin Growing /\ UNCHANGED <<number_running_, slot>>
            /\ adding_thread_' = adding_thread_ - Has(Adding, producer[p]) + Has(Adding, "woken")
        BY <2>1, <3>2, <4>1 DEF Prod, ProducerStates, Adding, Growing, Has
      <4> QED
        BY <3>2, <4>2, ProducerBase, Zenon
    <3> QED
      BY <1>5, <3>1, <3>2 DEF SignalNotFull
  <2> QED
    BY <2>1, <2>2, <2>3 DEF WeakTypeOK
<1> QED
  BY <1>3, <1>4, <1>5

(* The controller's steps keep the facts. *)
LEMMA BaseControl ==
    ASSUME Base,
           \/ activate_object \/ deactivate_object \/ terminate
           \/ Join \/ CloseGate \/ Complete \/ wait_object \/ clear
    PROVE  Base'
<1> USE DEF Base, jobVars, workerVars, producerVars
<1> DEFINE Waits(f) == {w \in Workers : f[w] \in {"waiting", "woken"}}
<1>1. UNCHANGED <<producer, adding_thread_, number_running_, slot>> => AddingInv'
  BY DEF AddingInv, GrowersExcluded
<1>2. FirstThreads \in 1 .. NumberOfThreads
  BY ThreadsAssumption DEF FirstThreads, StartThreads, Larger
<1>3. CASE activate_object
  <2>1. Waits(worker) = {} /\ Waits(worker') = {}
    BY <1>3 DEF activate_object
  <2>2. Count(worker', Workers, {"waiting", "woken"}) = Count(worker, Workers, {"waiting", "woken"})
    BY <2>1 DEF Count
  <2>3. worker' \in [Workers -> WorkerStates]
    BY <1>3 DEF activate_object, WorkerStates
  <2>4. AddingInv'
    BY <1>3 DEF activate_object, AddingInv, GrowersExcluded
  <2>5. number_running_' \in 0 .. NumberOfThreads
    BY <1>2, <1>3 DEF activate_object
  <2> QED
    BY <1>3, <2>2, <2>3, <2>4, <2>5 DEF activate_object, WeakTypeOK
<1>4. CASE terminate
  <2>1. Waits(worker') = Waits(worker)
    BY <1>4 DEF terminate
  <2>2. Count(worker', Workers, {"waiting", "woken"}) = Count(worker, Workers, {"waiting", "woken"})
    BY <2>1 DEF Count
  <2>3. worker' \in [Workers -> WorkerStates] /\ joined' \in 0 .. NumberOfThreads
    BY <1>4, ThreadsAssumption DEF terminate, WorkerStates, WeakTypeOK
  <2> QED
    BY <1>1, <1>4, <2>2, <2>3 DEF terminate, WeakTypeOK
<1>5. CASE Join
  <2> DEFINE w == joined + 1
  <2>1. w \in Workers /\ joined' \in 0 .. NumberOfThreads
    BY <1>5, ThreadsAssumption DEF Join, Workers, WeakTypeOK
  <2>2. worker[w] = "exited" /\ worker' = [worker EXCEPT ![w] = "none"] /\ "none" \in WorkerStates
    BY <1>5 DEF Join, WorkerStates
  <2> HIDE DEF w
  <2>3. waiting_threads_' = waiting_threads_ - Has({"waiting", "woken"}, worker[w])
                                             + Has({"waiting", "woken"}, "none")
    <3>1. waiting_threads_ \in Nat
      BY CountType, Finite, Zenon DEF WeakTypeOK
    <3> QED
      BY <1>5, <2>2, <3>1 DEF Join, Has
  <2>4. /\ waiting_threads_' = Count(worker, Workers, {"waiting", "woken"})'
        /\ worker' \in [Workers -> WorkerStates]
    BY <2>1, <2>2, <2>3, WorkerBase, Zenon
  <2> QED
    BY <1>1, <1>5, <2>1, <2>4 DEF Join, WeakTypeOK
<1>6. CASE CloseGate \/ wait_object \/ deactivate_object
  <2>1. terminating_' \in BOOLEAN
    BY <1>6 DEF CloseGate, wait_object, deactivate_object, WeakTypeOK
  <2> QED
    BY <1>1, <1>6, <2>1 DEF CloseGate, wait_object, deactivate_object, WeakTypeOK
<1>7. CASE Complete
  <2>1. number_running_' \in 0 .. NumberOfThreads /\ number_running_' < NumberOfThreads
    BY <1>7, ThreadsAssumption DEF Complete
  <2>2. AddingInv'
    BY <1>7, <2>1 DEF Complete, AddingInv, GrowersExcluded
  <2> QED
    BY <1>7, <2>1, <2>2 DEF Complete, WeakTypeOK
<1>8. CASE clear
  BY <1>1, <1>8 DEF clear, WeakTypeOK
<1> QED
  BY <1>3, <1>4, <1>5, <1>6, <1>7, <1>8

(* Every step keeps the types and the growth counter in order.             *)
LEMMA BaseStep == Base /\ [Next]_vars => Base'
<1> SUFFICES ASSUME Base, [Next]_vars PROVE Base'
  OBVIOUS
<1>1. CASE UNCHANGED vars
  BY <1>1 DEF vars, Base, WeakTypeOK, AddingInv, GrowersExcluded
<1>2. CASE Next
  BY <1>2, BaseProducer, BaseWorker, BaseControl DEF Next
<1> QED
  BY <1>1, <1>2

(* They hold in every reachable state.                                     *)
LEMMA BaseInvariant == Spec => []Base
  BY BaseInit, BaseStep, PTL DEF Spec

(* At most one producer at a time is in add_thread_i_(), whose start_one() *)
(* is not thread safe: the atomic adding_thread_ of enqueue_task() is a    *)
(* lock.                                                                   *)
THEOREM OneGrower == Spec => []GrowersExcluded
<1>1. Base => GrowersExcluded
  BY DEF Base, AddingInv
<1> QED
  BY <1>1, BaseInvariant, PTL
=============================================================================
