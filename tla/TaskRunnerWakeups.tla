------------------------- MODULE TaskRunnerWakeups --------------------------
(***************************************************************************)
(* No task and no producer of a Generics::TaskRunner is left without a     *)
(* wake-up: signals of new_task_ and not_full_ suffice, for any number of  *)
(* producers and threads and any limit of the queue; and the counter of    *)
(* unused threads never wraps.                                             *)
(***************************************************************************)
EXTENDS TaskRunnerProofs

(* The producers that are about to signal new_task_. *)
Signallers == {p \in Producers : producer[p] = "pushed" /\ flags[p].signal}

(* NoTaskWithoutWakeup, with counts for its sets. *)
TaskInv ==
    ~terminating_ /\ (\E w \in Workers : worker[w] = "waiting") =>
        Len(tasks_) <= Count(worker, Workers, {"woken"}) + Cardinality(Signallers)

(* The counted form of the property implies it as the runs check it.       *)
LEMMA TaskInvMeans == TaskInv => NoTaskWithoutWakeup
<1>1. In("woken") = {w \in Workers : worker[w] \in {"woken"}}
  BY DEF In
<1>2. {p \in Prod("pushed") : flags[p].signal} = Signallers
  BY DEF Prod, Signallers
<1>3. In("waiting") # {} => \E w \in Workers : worker[w] = "waiting"
  BY DEF In
<1> QED
  BY <1>1, <1>2, <1>3, Zenon DEF TaskInv, NoTaskWithoutWakeup, Count

(* There are finitely many producers about to signal new_task_.            *)
LEMMA SignallersFinite == IsFiniteSet(Signallers) /\ Cardinality(Signallers) \in Nat
<1>1. Signallers \subseteq Producers
  BY DEF Signallers
<1> QED
  BY <1>1, Finite, FS_Subset, FS_CardinalityType

(* A step that neither adds tasks nor touches the sleepers, the woken or   *)
(* the signallers keeps it.                                                *)
LEMMA TaskInvSame ==
    ASSUME Base, TaskInv, UNCHANGED terminating_,
           Len(tasks_') <= Len(tasks_), Len(tasks_') \in Nat,
           \A w \in Workers : /\ worker'[w] = "waiting" <=> worker[w] = "waiting"
                              /\ worker'[w] = "woken" <=> worker[w] = "woken",
           \A p \in Producers : producer'[p] = "pushed" /\ flags'[p].signal
                                 <=> producer[p] = "pushed" /\ flags[p].signal
    PROVE  TaskInv'
<1>1. Signallers' = Signallers
  BY DEF Signallers
<1>2. {w \in Workers : worker'[w] \in {"woken"}} = {w \in Workers : worker[w] \in {"woken"}}
  OBVIOUS
<1>3. Count(worker', Workers, {"woken"}) = Count(worker, Workers, {"woken"})
  BY <1>2, Zenon DEF Count
<1>4. Count(worker, Workers, {"woken"}) \in Nat
  BY CountType, Finite, Zenon
<1>5. Len(tasks_) \in Nat
  BY DEF Base, WeakTypeOK
<1> QED
  BY <1>1, <1>3, <1>4, <1>5, SignallersFinite DEF TaskInv

(* From the broadcast of terminate() until terminated() no thread sleeps   *)
(* in new_task_.wait(): those that come later see terminating_.            *)
EndInv ==
    /\ ctl \in {"terminating", "joining", "drained", "completed"} => terminating_
    /\ ctl \in {"joining", "drained", "completed"} => \A w \in Workers : worker[w] # "waiting"

(* Every step of the task runner keeps EndInv.                             *)
LEMMA EndStep == Base /\ EndInv /\ [Next]_vars => EndInv'
<1> SUFFICES ASSUME Base, EndInv, [Next]_vars PROVE EndInv'
  OBVIOUS
<1> USE DEF jobVars, workerVars, producerVars
<1>1. worker \in [Workers -> WorkerStates]
  BY DEF Base, WeakTypeOK
<1>2. ASSUME NEW p \in Producers,
             \/ enqueue_task(p) \/ Overflow(p) \/ SpuriousNotFull(p) \/ SignalNewTask(p)
             \/ EnterAdding(p) \/ Reserve(p) \/ CheckRunning(p) \/ CheckFull(p) \/ start_one(p)
             \/ CountOne(p) \/ UndoReserve(p) \/ LeaveAdding(p)
      PROVE  EndInv'
  <2>1. UNCHANGED <<terminating_, ctl>>
    BY <1>2 DEF enqueue_task, Overflow, SpuriousNotFull, SignalNewTask, EnterAdding, Reserve,
                CheckRunning, CheckFull, start_one, CountOne, UndoReserve, LeaveAdding
  <2>2. \A w \in Workers : worker'[w] = "waiting" => worker[w] = "waiting"
    <3>1. CASE SignalNewTask(p)
      BY <1>1, <3>1 DEF SignalNewTask
    <3>2. CASE start_one(p)
      BY <1>1, <3>2 DEF start_one
    <3>3. CASE UNCHANGED worker
      BY <3>3
    <3> QED
      BY <1>2, <3>1, <3>2, <3>3 DEF enqueue_task, Overflow, SpuriousNotFull, EnterAdding, Reserve,
                CheckRunning, CheckFull, CountOne, UndoReserve, LeaveAdding
  <2> QED
    BY <2>1, <2>2 DEF EndInv
<1>3. ASSUME NEW w \in Workers,
             \/ PassGate(w) \/ WorkTop(w) \/ WorkWoken(w) \/ SpuriousWakeup(w)
             \/ SignalNotFull(w) \/ Execute(w)
      PROVE  EndInv'
  <2>1. UNCHANGED <<terminating_, ctl>>
    BY <1>3 DEF PassGate, WorkTop, WorkWoken, SpuriousWakeup, SignalNotFull, Execute
  <2>2. terminating_ => \A v \in Workers : worker'[v] = "waiting" => worker[v] = "waiting"
    BY <1>1, <1>3 DEF PassGate, WorkTop, WorkWoken, TakeOrWait, SpuriousWakeup, SignalNotFull, Execute
  <2> QED
    BY <2>1, <2>2 DEF EndInv
<1>4. CASE activate_object \/ deactivate_object \/ terminate
  BY <1>4 DEF activate_object, deactivate_object, terminate, EndInv
<1>5. CASE Join
  BY <1>1, <1>5 DEF Join, EndInv
<1>6. CASE CloseGate \/ Complete \/ wait_object \/ clear
  BY <1>6 DEF CloseGate, Complete, wait_object, clear, EndInv
<1>7. CASE UNCHANGED vars
  BY <1>7 DEF vars, EndInv
<1> QED
  BY <1>2, <1>3, <1>4, <1>5, <1>6, <1>7 DEF Next

(* Every step of the task runner keeps TaskInv.                            *)
LEMMA TaskStep == Base /\ EndInv /\ TaskInv /\ [Next]_vars => TaskInv'
<1> SUFFICES ASSUME Base, EndInv, TaskInv, [Next]_vars PROVE TaskInv'
  OBVIOUS
<1> USE DEF jobVars, workerVars, producerVars
<1>1. /\ WeakTypeOK /\ worker \in [Workers -> WorkerStates]
      /\ producer \in [Producers -> ProducerStates]
      /\ flags \in [Producers -> [signal : BOOLEAN, add : BOOLEAN]]
      /\ tasks_ \in Seq(Tasks) /\ Len(tasks_) \in Nat
  BY DEF Base, WeakTypeOK
<1>2. {"woken"} \in SUBSET WorkerStates /\ "woken" \in WorkerStates /\ "took" \in WorkerStates
  BY DEF WorkerStates
<1>3. Count(worker, Workers, {"woken"}) \in Nat
  BY CountType, Finite, Zenon
<1>4. ASSUME NEW p \in Producers, enqueue_task(p) PROVE TaskInv'
  <2>1. CASE MaxPending = 0 \/ Len(tasks_) < MaxPending
    <3>1. /\ Len(tasks_') = Len(tasks_) + 1 /\ UNCHANGED <<worker, terminating_>>
          /\ producer' = [producer EXCEPT ![p] = "pushed"]
          /\ flags' = [flags EXCEPT ![p] = [signal |-> waiting_threads_ > 0,
                                            add    |-> Len(tasks_) > number_of_unused_threads_]]
      BY <1>1, <1>4, <2>1 DEF enqueue_task, Push
    <3>2. producer[p] # "pushed"
      BY <1>4 DEF enqueue_task
    <3>3. ASSUME NEW w \in Workers, worker[w] = "waiting" PROVE waiting_threads_ > 0
      <4>1. {v \in Workers : worker[v] \in {"waiting", "woken"}} # {}
        BY <3>3
      <4>2. Count(worker, Workers, {"waiting", "woken"}) # 0
        BY <4>1, CountType, Finite, Zenon
      <4>3. Count(worker, Workers, {"waiting", "woken"}) \in Nat
        BY CountType, Finite, Zenon
      <4> QED
        BY <4>2, <4>3, <1>1 DEF WeakTypeOK
    <3>4. waiting_threads_ > 0 => Signallers' = Signallers \cup {p}
      BY <1>1, <3>1, Zenon DEF Signallers
    <3>5. p \notin Signallers
      BY <3>2 DEF Signallers
    <3>6. waiting_threads_ > 0 => Cardinality(Signallers') = Cardinality(Signallers) + 1
      BY <3>4, <3>5, SignallersFinite, FS_AddElement
    <3> QED
      BY <1>1, <1>3, <3>1, <3>3, <3>6, SignallersFinite DEF TaskInv
  <2>2. CASE ~(MaxPending = 0 \/ Len(tasks_) < MaxPending)
    <3>1. UNCHANGED <<worker, terminating_, tasks_, flags>> /\ producer' = [producer EXCEPT ![p] = "waiting"]
      BY <1>4, <2>2 DEF enqueue_task, Push
    <3>2. producer[p] # "pushed"
      BY <1>4 DEF enqueue_task
    <3> QED
      BY <1>1, <3>1, <3>2, TaskInvSame
  <2> QED
    BY <2>1, <2>2
<1>5. ASSUME NEW p \in Producers, Overflow(p) \/ SpuriousNotFull(p) PROVE TaskInv'
  BY <1>1, <1>5, TaskInvSame DEF Overflow, SpuriousNotFull
<1>6. ASSUME NEW p \in Producers, SignalNewTask(p) PROVE TaskInv'
  <2>1. UNCHANGED <<terminating_, tasks_, flags>> /\ producer[p] = "pushed"
    BY <1>6 DEF SignalNewTask
  <2>2. producer'[p] # "pushed" /\ \A q \in Producers : q # p => producer'[q] = producer[q]
    BY <1>1, <1>6 DEF SignalNewTask
  <2>3. CASE flags[p].signal /\ In("waiting") # {}
    <3>1. PICK w \in In("waiting") : worker' = [worker EXCEPT ![w] = "woken"]
      BY <1>6, <2>3 DEF SignalNewTask
    <3>2. w \in Workers /\ worker[w] = "waiting"
      BY DEF In
    <3>3. /\ \A v \in Workers : v # w => worker'[v] = worker[v]
          /\ worker'[w] = "woken"
          /\ Count(worker', Workers, {"woken"}) = Count(worker, Workers, {"woken"})
                 - Has({"woken"}, worker[w]) + Has({"woken"}, "woken")
      BY <1>1, <1>2, <3>1, <3>2, WorkerMove, Zenon
    <3>4. Count(worker', Workers, {"woken"}) = Count(worker, Workers, {"woken"}) + 1
      BY <1>3, <3>2, <3>3 DEF Has
    <3>5. Signallers' = Signallers \ {p} /\ p \in Signallers
      BY <2>1, <2>2, <2>3 DEF Signallers
    <3>6. Cardinality(Signallers') = Cardinality(Signallers) - 1
      BY <3>5, SignallersFinite, FS_RemoveElement
    <3> QED
      BY <1>1, <1>3, <2>1, <3>2, <3>3, <3>4, <3>6, SignallersFinite DEF TaskInv
  <2>4. CASE ~(flags[p].signal /\ In("waiting") # {})
    <3>1. UNCHANGED worker
      BY <1>6, <2>4 DEF SignalNewTask
    <3>2. CASE In("waiting") = {}
      BY <3>1, <3>2 DEF TaskInv, In
    <3>3. CASE ~flags[p].signal
      BY <1>1, <2>1, <2>2, <3>1, <3>3, TaskInvSame
    <3> QED
      BY <2>4, <3>2, <3>3
  <2> QED
    BY <2>3, <2>4
<1>7. ASSUME NEW p \in Producers,
             \/ EnterAdding(p) \/ Reserve(p) \/ CheckRunning(p) \/ CheckFull(p) \/ start_one(p)
             \/ CountOne(p) \/ UndoReserve(p) \/ LeaveAdding(p)
      PROVE  TaskInv'
  <2> USE DEF EnterAdding, Reserve, CheckRunning, CheckFull, start_one, CountOne, UndoReserve,
              LeaveAdding
  <2>1. UNCHANGED <<terminating_, tasks_, flags>> /\ producer[p] # "pushed"
    BY <1>7
  <2>2. producer'[p] # "pushed" /\ \A q \in Producers : q # p => producer'[q] = producer[q]
    BY <1>1, <1>7
  <2>3. \/ UNCHANGED worker
        \/ /\ worker' = [worker EXCEPT ![number_running_ + 1] = "gate"]
           /\ worker[number_running_ + 1] = "none"
    BY <1>7
  <2>4. \A w \in Workers : /\ worker'[w] = "waiting" <=> worker[w] = "waiting"
                           /\ worker'[w] = "woken" <=> worker[w] = "woken"
    BY <1>1, <2>3
  <2> QED
    BY <1>1, <2>1, <2>2, <2>4, TaskInvSame
<1>8. ASSUME NEW w \in Workers, WorkTop(w) \/ WorkWoken(w) PROVE TaskInv'
  <2>1. UNCHANGED <<terminating_, producer, flags>>
    BY <1>8 DEF WorkTop, WorkWoken
  <2>2. CASE terminating_
    BY <2>1, <2>2 DEF TaskInv
  <2>3. CASE ~terminating_ /\ tasks_ = <<>>
    <3>1. tasks_' = <<>>
      BY <1>8, <2>3 DEF WorkTop, WorkWoken, TakeOrWait
    <3>2. Count(worker', Workers, {"woken"}) \in Nat
      BY CountType, Finite, Zenon
    <3>3. Signallers' = Signallers
      BY <2>1 DEF Signallers
    <3> QED
      BY <3>1, <3>2, <3>3, SignallersFinite DEF TaskInv
  <2>4. CASE ~terminating_ /\ tasks_ # <<>>
    <3>1. Len(tasks_') = Len(tasks_) - 1 /\ worker' = [worker EXCEPT ![w] = "took"]
      BY <1>1, <1>8, <2>4 DEF WorkTop, WorkWoken, TakeOrWait
    <3>2. /\ \A v \in Workers : v # w => worker'[v] = worker[v]
          /\ worker'[w] = "took"
          /\ Count(worker', Workers, {"woken"}) = Count(worker, Workers, {"woken"})
                 - Has({"woken"}, worker[w]) + Has({"woken"}, "took")
      BY <1>1, <1>2, <3>1, WorkerMove, Zenon
    <3>3. Count(worker', Workers, {"woken"}) >= Count(worker, Workers, {"woken"}) - 1
      BY <1>3, <3>2 DEF Has
    <3>4. Count(worker', Workers, {"woken"}) \in Nat
      BY CountType, Finite, Zenon
    <3>5. Signallers' = Signallers
      BY <2>1 DEF Signallers
    <3> QED
      BY <1>1, <1>3, <2>1, <3>1, <3>2, <3>3, <3>4, <3>5, SignallersFinite DEF TaskInv
  <2> QED
    BY <2>2, <2>3, <2>4
<1>9. ASSUME NEW w \in Workers, SpuriousWakeup(w) PROVE TaskInv'
  <2>1. /\ \A v \in Workers : v # w => worker'[v] = worker[v]
        /\ worker'[w] = "woken"
        /\ Count(worker', Workers, {"woken"}) = Count(worker, Workers, {"woken"})
               - Has({"woken"}, worker[w]) + Has({"woken"}, "woken")
    BY <1>1, <1>2, <1>9, WorkerMove, Zenon DEF SpuriousWakeup
  <2>2. Count(worker', Workers, {"woken"}) = Count(worker, Workers, {"woken"}) + 1
    BY <1>3, <1>9, <2>1 DEF Has, SpuriousWakeup
  <2>3. Signallers' = Signallers
    BY <1>9 DEF Signallers, SpuriousWakeup
  <2> QED
    BY <1>1, <1>3, <1>9, <2>2, <2>3, SignallersFinite DEF TaskInv, SpuriousWakeup
<1>10. ASSUME NEW w \in Workers, PassGate(w) \/ SignalNotFull(w) \/ Execute(w) PROVE TaskInv'
  <2>1. UNCHANGED <<terminating_, tasks_, flags>>
    BY <1>10 DEF PassGate, SignalNotFull, Execute
  <2>2. \A v \in Workers : /\ worker'[v] = "waiting" <=> worker[v] = "waiting"
                           /\ worker'[v] = "woken" <=> worker[v] = "woken"
    BY <1>1, <1>10 DEF PassGate, SignalNotFull, Execute
  <2>3. \A q \in Producers : producer'[q] = "pushed" <=> producer[q] = "pushed"
    BY <1>1, <1>10 DEF PassGate, SignalNotFull, Execute, Prod
  <2> QED
    BY <1>1, <2>1, <2>2, <2>3, TaskInvSame
<1>11. CASE activate_object \/ terminate
  BY <1>11 DEF activate_object, terminate, TaskInv
<1>12. CASE deactivate_object
  BY <1>12 DEF deactivate_object, TaskInv
<1>13. CASE clear
  <2>1. Len(tasks_') = 0
    BY <1>13 DEF clear
  <2> QED
    BY <1>1, <1>13, <2>1, TaskInvSame DEF clear
<1>14. CASE UNCHANGED vars
  BY <1>1, <1>14, TaskInvSame DEF vars
<1>15. CASE Join
  <2>1. \A w \in Workers : /\ worker'[w] = "waiting" <=> worker[w] = "waiting"
                           /\ worker'[w] = "woken" <=> worker[w] = "woken"
    BY <1>1, <1>15 DEF Join
  <2> QED
    BY <1>1, <1>15, <2>1, TaskInvSame DEF Join
<1>16. CASE CloseGate \/ Complete
  BY <1>1, <1>16, TaskInvSame DEF CloseGate, Complete
<1>17. CASE wait_object
  \* terminating_ is reset when no thread sleeps.
  BY <1>17 DEF wait_object, EndInv, TaskInv
<1> QED
  BY <1>4, <1>5, <1>6, <1>7, <1>8, <1>9, <1>10, <1>11, <1>12, <1>13, <1>14, <1>15, <1>16, <1>17
     DEF Next

(* No wakeup is lost: for any number of threads, producers and tasks, with *)
(* a bounded queue or not, cleared or not, activated again or not, while a *)
(* thread sleeps in new_task_.wait() every queued task has a woken thread  *)
(* or a producer about to signal.                                          *)
THEOREM NoTaskStranded == Spec => []NoTaskWithoutWakeup
<1>1. Init => EndInv /\ TaskInv
  BY DEF Init, EndInv, TaskInv
<1> QED
  BY <1>1, BaseInvariant, EndStep, TaskStep, TaskInvMeans, PTL DEF Spec

-----------------------------------------------------------------------------
(* NoProducerForgotten, with counts for its sets. *)
PlaceInv ==
    MaxPending > 0 /\ (\E p \in Producers : producer[p] = "waiting") =>
        MaxPending - Len(tasks_) <=
            Count(producer, Producers, {"woken"}) + Count(worker, Workers, {"took"})

(* The counted form of the property implies it as the runs check it.       *)
LEMMA PlaceInvMeans == PlaceInv => NoProducerForgotten
<1>1. /\ Prod("woken") = {p \in Producers : producer[p] \in {"woken"}}
      /\ In("took") = {w \in Workers : worker[w] \in {"took"}}
      /\ Prod("waiting") # {} => \E p \in Producers : producer[p] = "waiting"
  BY DEF Prod, In
<1> QED
  BY <1>1, Zenon DEF PlaceInv, NoProducerForgotten, Count

(* The producers' steps. *)
LEMMA PlaceProducer ==
    ASSUME Base, PlaceInv, NEW p \in Producers,
           \/ enqueue_task(p) \/ Overflow(p) \/ SpuriousNotFull(p) \/ SignalNewTask(p)
           \/ EnterAdding(p) \/ Reserve(p) \/ CheckRunning(p) \/ CheckFull(p) \/ start_one(p)
           \/ CountOne(p) \/ UndoReserve(p) \/ LeaveAdding(p)
    PROVE  PlaceInv'
<1> USE DEF jobVars, workerVars, producerVars
<1>1. /\ worker \in [Workers -> WorkerStates] /\ producer \in [Producers -> ProducerStates]
      /\ tasks_ \in Seq(Tasks) /\ Len(tasks_) \in Nat /\ number_running_ \in 0 .. NumberOfThreads
  BY DEF Base, WeakTypeOK
<1>2. {"woken"} \in SUBSET ProducerStates
  BY DEF ProducerStates
<1>3. Count(worker, Workers, {"took"}) \in Nat /\ Count(producer, Producers, {"woken"}) \in Nat
  BY CountType, Finite, Zenon
<1>4. PICK s \in ProducerStates : producer' = [producer EXCEPT ![p] = s]
  BY DEF enqueue_task, Push, Overflow, SpuriousNotFull, SignalNewTask, EnterAdding, Reserve,
         CheckRunning, CheckFull, start_one, CountOne, UndoReserve, LeaveAdding, ProducerStates
<1>5. /\ producer'[p] = s /\ \A q \in Producers : q # p => producer'[q] = producer[q]
      /\ Count(producer', Producers, {"woken"}) =
            Count(producer, Producers, {"woken"}) - Has({"woken"}, producer[p]) + Has({"woken"}, s)
  BY <1>1, <1>2, <1>4, ProducerMove, Zenon
<1>6. Count(worker', Workers, {"took"}) = Count(worker, Workers, {"took"})
  <2>1. {w \in Workers : worker'[w] \in {"took"}} = {w \in Workers : worker[w] \in {"took"}}
    <3>1. CASE SignalNewTask(p)
      BY <1>1, <3>1 DEF SignalNewTask, In
    <3>2. CASE start_one(p)
      BY <1>1, <3>2 DEF start_one
    <3>3. CASE UNCHANGED worker
      BY <3>3
    <3> QED
      BY <3>1, <3>2, <3>3 DEF enqueue_task, Overflow, SpuriousNotFull, EnterAdding, Reserve,
                              CheckRunning, CheckFull, CountOne, UndoReserve, LeaveAdding
  <2> QED
    BY <2>1 DEF Count
<1>7. CASE enqueue_task(p)
  <2>1. producer[p] \in {"idle", "woken"} /\ Has({"woken"}, producer[p]) \in 0 .. 1
    BY <1>7 DEF enqueue_task, Has
  <2>2. CASE MaxPending = 0 \/ Len(tasks_) < MaxPending
    <3>0. /\ \E task \in Tasks : tasks_' = Append(tasks_, task)
          /\ producer' = [producer EXCEPT ![p] = "pushed"]
      BY Zenon, <1>7, <2>2 DEF enqueue_task, Push
    <3>1. Len(tasks_') = Len(tasks_) + 1 /\ s = "pushed"
      BY <1>1, <1>5, <3>0
    <3>2. Has({"woken"}, s) = 0
      BY <3>1 DEF Has
    <3>3. ASSUME NEW q \in Producers, producer'[q] = "waiting" PROVE producer[q] = "waiting"
      BY <1>5, <3>1, <3>3
    <3>4. /\ Count(producer', Producers, {"woken"}) \in Int
          /\ Count(producer, Producers, {"woken"}) <= Count(producer', Producers, {"woken"}) + 1
      BY <1>3, <1>5, <2>1, <3>2
    <3> QED
      BY <1>1, <1>3, <1>6, <3>1, <3>3, <3>4, PendingAssumption DEF PlaceInv
  <2>3. CASE ~(MaxPending = 0 \/ Len(tasks_) < MaxPending)
    <3>1. UNCHANGED tasks_
      BY <1>7, <2>3 DEF enqueue_task, Push
    <3>2. Count(producer', Producers, {"woken"}) \in Nat
      BY CountType, Finite, Zenon
    <3> QED
      BY <1>1, <1>3, <1>6, <2>3, <3>1, <3>2, PendingAssumption DEF PlaceInv
  <2> QED
    BY <2>2, <2>3
<1>8. CASE Overflow(p) \/ SpuriousNotFull(p)
  <2>1. /\ UNCHANGED tasks_ /\ producer[p] = "waiting"
        /\ Has({"woken"}, producer[p]) = 0 /\ Has({"woken"}, s) \in 0 .. 1
    BY <1>8 DEF Overflow, SpuriousNotFull, Has
  <2> QED
    BY <1>1, <1>3, <1>5, <1>6, <2>1, PendingAssumption DEF PlaceInv
<1>9. CASE \/ SignalNewTask(p) \/ EnterAdding(p) \/ Reserve(p) \/ CheckRunning(p) \/ CheckFull(p)
           \/ start_one(p) \/ CountOne(p) \/ UndoReserve(p) \/ LeaveAdding(p)
  <2>1. UNCHANGED tasks_ /\ producer[p] \notin {"waiting", "woken"} /\ s \notin {"waiting", "woken"}
    BY <1>1, <1>5, <1>9 DEF SignalNewTask, EnterAdding, Reserve, CheckRunning, CheckFull, start_one,
                                CountOne, UndoReserve, LeaveAdding
  <2>2. Has({"woken"}, producer[p]) = 0 /\ Has({"woken"}, s) = 0
    BY <2>1 DEF Has
  <2>3. \A q \in Producers : producer'[q] = "waiting" <=> producer[q] = "waiting"
    BY <1>5, <2>1
  <2> QED
    BY <1>1, <1>3, <1>5, <1>6, <2>1, <2>2, <2>3, PendingAssumption DEF PlaceInv
<1> QED
  BY <1>7, <1>8, <1>9

(* The threads' steps. *)
LEMMA PlaceWorker ==
    ASSUME Base, PlaceInv, NEW w \in Workers,
           \/ PassGate(w) \/ WorkTop(w) \/ WorkWoken(w) \/ SpuriousWakeup(w)
           \/ SignalNotFull(w) \/ Execute(w)
    PROVE  PlaceInv'
<1> USE DEF jobVars, workerVars, producerVars
<1>1. /\ worker \in [Workers -> WorkerStates] /\ producer \in [Producers -> ProducerStates]
      /\ tasks_ \in Seq(Tasks) /\ Len(tasks_) \in Nat
  BY DEF Base, WeakTypeOK
<1>2. {"took"} \in SUBSET WorkerStates
  BY DEF WorkerStates
<1>3. Count(worker, Workers, {"took"}) \in Nat /\ Count(producer, Producers, {"woken"}) \in Nat
  BY CountType, Finite, Zenon
<1>4. PICK s \in WorkerStates : worker' = [worker EXCEPT ![w] = s]
  BY DEF PassGate, WorkTop, WorkWoken, TakeOrWait, SpuriousWakeup, SignalNotFull, Execute,
         WorkerStates
<1>5. /\ worker'[w] = s
      /\ Count(worker', Workers, {"took"}) =
            Count(worker, Workers, {"took"}) - Has({"took"}, worker[w]) + Has({"took"}, s)
  BY <1>1, <1>2, <1>4, WorkerMove, Zenon
<1>6. CASE PassGate(w) \/ WorkTop(w) \/ WorkWoken(w) \/ SpuriousWakeup(w) \/ Execute(w)
  <2>1. /\ UNCHANGED producer /\ worker[w] # "took"
        /\ \/ UNCHANGED tasks_
           \/ Len(tasks_') = Len(tasks_) - 1 /\ s = "took"
    BY <1>1, <1>5, <1>6 DEF PassGate, WorkTop, WorkWoken, TakeOrWait, SpuriousWakeup, Execute
  <2>2. Has({"took"}, worker[w]) = 0 /\ Has({"took"}, s) \in 0 .. 1 /\ (s = "took" => Has({"took"}, s) = 1)
    BY <2>1 DEF Has
  <2>3. /\ Count(worker', Workers, {"took"}) \in Int /\ Len(tasks_') \in Int
        /\ Count(worker, Workers, {"took"}) - Count(worker', Workers, {"took"})
              <= Len(tasks_') - Len(tasks_)
    BY <1>1, <1>3, <1>5, <2>1, <2>2
  <2>4. Count(producer', Producers, {"woken"}) = Count(producer, Producers, {"woken"})
    BY <2>1
  <2> QED
    BY <1>1, <1>3, <2>1, <2>3, <2>4, PendingAssumption DEF PlaceInv
<1>7. CASE SignalNotFull(w)
  <2>1. UNCHANGED tasks_ /\ Has({"took"}, worker[w]) = 1 /\ Has({"took"}, s) = 0
    BY <1>1, <1>5, <1>7 DEF SignalNotFull, Has
  <2>2. CASE MaxPending > 0 /\ Prod("waiting") # {}
    <3>1. PICK p \in Prod("waiting") : producer' = [producer EXCEPT ![p] = "woken"]
      BY <1>7, <2>2 DEF SignalNotFull
    <3>2. p \in Producers /\ producer[p] = "waiting" /\ "woken" \in ProducerStates
      BY DEF Prod, ProducerStates
    <3>3. {"woken"} \in SUBSET ProducerStates
      BY DEF ProducerStates
    <3>4. Count(producer', Producers, {"woken"}) = Count(producer, Producers, {"woken"})
             - Has({"woken"}, producer[p]) + Has({"woken"}, "woken")
      BY <1>1, <3>1, <3>2, <3>3, ProducerMove, Zenon
    <3>5. Has({"woken"}, producer[p]) = 0 /\ Has({"woken"}, "woken") = 1
      BY <3>2 DEF Has
    <3> QED
      BY <1>1, <1>3, <1>5, <2>1, <3>2, <3>4, <3>5, PendingAssumption DEF PlaceInv
  <2>3. CASE ~(MaxPending > 0 /\ Prod("waiting") # {})
    <3>1. UNCHANGED producer
      BY <1>7, <2>3 DEF SignalNotFull
    <3> QED
      BY <2>3, <3>1 DEF PlaceInv, Prod
  <2> QED
    BY <2>2, <2>3
<1> QED
  BY <1>6, <1>7

(* No producer is left asleep beside a free place of a bounded queue, as   *)
(* long as clear() is not called while producers wait: work() signals      *)
(* not_full_ once per task that it takes.                                  *)
THEOREM NoProducerStranded == ~ClearWhileWaiting => (Spec => []NoProducerForgotten)
<1> SUFFICES ASSUME ~ClearWhileWaiting PROVE Spec => []NoProducerForgotten
  OBVIOUS
<1>1. Init => PlaceInv
  BY DEF Init, PlaceInv
<1>2. ASSUME Base, PlaceInv,
             \/ activate_object \/ deactivate_object \/ terminate
             \/ Join \/ CloseGate \/ Complete \/ wait_object
      PROVE  PlaceInv'
  <2>1. UNCHANGED <<tasks_, producer>>
    BY <1>2 DEF activate_object, deactivate_object, terminate, Join, CloseGate, Complete,
                wait_object, producerVars
  <2>2. {w \in Workers : worker'[w] \in {"took"}} = {w \in Workers : worker[w] \in {"took"}}
    <3>1. CASE activate_object
      BY <3>1 DEF activate_object
    <3>2. CASE Join
      BY <1>2, <3>2 DEF Join, Base, WeakTypeOK
    <3>3. CASE deactivate_object \/ terminate \/ CloseGate \/ Complete \/ wait_object
      BY <3>3 DEF deactivate_object, terminate, CloseGate, Complete, wait_object, workerVars
    <3> QED
      BY <1>2, <3>1, <3>2, <3>3
  <2>3. Count(worker', Workers, {"took"}) = Count(worker, Workers, {"took"})
    BY <2>2 DEF Count
  <2> QED
    BY <1>2, <2>1, <2>3 DEF PlaceInv
<1>3. Base /\ PlaceInv /\ [Next]_vars => PlaceInv'
  <2> SUFFICES ASSUME Base, PlaceInv, [Next]_vars PROVE PlaceInv'
    OBVIOUS
  <2>1. CASE UNCHANGED vars
    BY <2>1 DEF vars, PlaceInv
  <2>2. CASE clear
    <3>1. UNCHANGED producer /\ \A p \in Producers : producer[p] # "waiting"
      BY <2>2 DEF clear, Prod, producerVars
    <3> QED
      BY <3>1 DEF PlaceInv
  <2> QED
    BY <1>2, <2>1, <2>2, PlaceProducer, PlaceWorker DEF Next
<1> QED
  BY <1>1, <1>3, BaseInvariant, PlaceInvMeans, PTL DEF Spec

-----------------------------------------------------------------------------
(* The unsigned counter number_of_unused_threads_ of a runner that is      *)
(* activated once never wraps.                                             *)

(* The threads that number_of_unused_threads_ has to cover, and the        *)
(* producers that have reserved one more.                                  *)
Idle == {"gate", "start", "waiting", "woken"}

(* The inductive strengthening of UnusedCoversIdle: before the activation  *)
(* the counter also covers the threads that it will start, and nothing has *)
(* been created.                                                           *)
UnusedInv ==
    /\ number_of_unused_threads_ >=
          Count(worker, Workers, Idle) + Count(producer, Producers, Reserved)
    /\ active_state_ = "AS_NOT_ACTIVE" /\ ctl = "idle" =>
          /\ number_of_unused_threads_ >= FirstThreads + Count(producer, Producers, Reserved)
          /\ number_running_ = 0
          /\ \A w \in Workers : worker[w] = "none"
          /\ \A p \in Producers : producer[p] \notin {"checking", "starting", "created"}

(* The strengthened count implies the types and the property.              *)
LEMMA UnusedInvMeans == Base /\ UnusedInv => TypeOK /\ UnusedCoversIdle
<1> SUFFICES ASSUME Base, UnusedInv PROVE TypeOK /\ UnusedCoversIdle
  OBVIOUS
<1>1. /\ Unused = {w \in Workers : worker[w] \in Idle}
      /\ In("waiting") \cup In("woken") = {w \in Workers : worker[w] \in {"waiting", "woken"}}
  BY DEF Unused, Idle, In
<1>2. /\ Count(worker, Workers, Idle) \in Nat /\ Count(producer, Producers, Reserved) \in Nat
      /\ Count(producer, Producers, Adding) \in Nat
  BY CountType, Finite, Zenon
<1>3. UnusedCoversIdle
  BY <1>1 DEF UnusedInv, UnusedCoversIdle, Count
<1>4. number_of_unused_threads_ \in Nat /\ adding_thread_ \in Nat
  BY <1>2 DEF Base, UnusedInv, WeakTypeOK, AddingInv
<1>5. waiting_threads_ = Cardinality(In("waiting") \cup In("woken"))
  BY <1>1, Zenon DEF Base, WeakTypeOK, Count
<1> QED
  BY <1>3, <1>4, <1>5 DEF Base, WeakTypeOK, TypeOK

(* The constructor establishes the count: StartThreads unused threads.     *)
LEMMA UnusedInit == Init => UnusedInv
<1> SUFFICES ASSUME Init PROVE UnusedInv
  OBVIOUS
<1>1. /\ {w \in Workers : worker[w] \in Idle} = {}
      /\ {p \in Producers : producer[p] \in Reserved} = {}
  BY DEF Init, Idle, Reserved
<1>2. Count(worker, Workers, Idle) = 0 /\ Count(producer, Producers, Reserved) = 0
  BY <1>1, FS_EmptySet DEF Count
<1>3. StartThreads \in Nat /\ FirstThreads \in Nat /\ StartThreads >= FirstThreads
  BY ThreadsAssumption DEF StartThreads, FirstThreads, Larger
<1> QED
  BY <1>2, <1>3 DEF UnusedInv, Init

(* The producers' steps. *)
LEMMA UnusedProducer ==
    ASSUME Base, UnusedInv, NEW p \in Producers,
           \/ enqueue_task(p) \/ Overflow(p) \/ SpuriousNotFull(p) \/ SignalNewTask(p)
           \/ EnterAdding(p) \/ Reserve(p) \/ CheckRunning(p) \/ CheckFull(p) \/ start_one(p)
           \/ CountOne(p) \/ UndoReserve(p) \/ LeaveAdding(p)
    PROVE  UnusedInv'
<1> USE DEF jobVars, workerVars, producerVars
<1>1. /\ worker \in [Workers -> WorkerStates] /\ producer \in [Producers -> ProducerStates]
      /\ number_of_unused_threads_ \in Int /\ number_running_ \in 0 .. NumberOfThreads
  BY DEF Base, WeakTypeOK
<1>2. Idle \in SUBSET WorkerStates /\ Reserved \in SUBSET ProducerStates
  BY DEF Idle, Reserved, WorkerStates, ProducerStates
<1>3. Count(worker, Workers, Idle) \in Nat /\ Count(producer, Producers, Reserved) \in Nat
  BY CountType, Finite, Zenon
<1>4. FirstThreads \in Nat
  BY ThreadsAssumption DEF FirstThreads, StartThreads, Larger
<1>5. PICK s \in ProducerStates : producer' = [producer EXCEPT ![p] = s]
  BY DEF enqueue_task, Push, Overflow, SpuriousNotFull, SignalNewTask, EnterAdding, Reserve,
         CheckRunning, CheckFull, start_one, CountOne, UndoReserve, LeaveAdding, ProducerStates
<1>6. /\ producer'[p] = s
      /\ Count(producer', Producers, Reserved) =
            Count(producer, Producers, Reserved) - Has(Reserved, producer[p]) + Has(Reserved, s)
  BY <1>1, <1>2, <1>5, ProducerMove, Zenon
<1>7. /\ UNCHANGED <<active_state_, ctl>>
      /\ active_state_ = "AS_NOT_ACTIVE" /\ ctl = "idle" =>
           /\ UNCHANGED <<number_running_, worker>>
           /\ \A q \in Producers : producer'[q] \notin {"checking", "starting", "created"}
  <2>1. UNCHANGED <<active_state_, ctl>>
    BY DEF enqueue_task, Overflow, SpuriousNotFull, SignalNewTask, EnterAdding, Reserve,
           CheckRunning, CheckFull, start_one, CountOne, UndoReserve, LeaveAdding
  <2>2. ASSUME active_state_ = "AS_NOT_ACTIVE", ctl = "idle"
        PROVE  /\ UNCHANGED <<number_running_, worker>>
               /\ \A q \in Producers : producer'[q] \notin {"checking", "starting", "created"}
    <3>1. /\ number_running_ = 0 /\ \A w \in Workers : worker[w] = "none"
          /\ \A q \in Producers : producer[q] \notin {"checking", "starting", "created"}
      BY <2>2 DEF UnusedInv
    <3>2. UNCHANGED <<number_running_, worker>>
      BY <3>1 DEF enqueue_task, Overflow, SpuriousNotFull, SignalNewTask, EnterAdding, Reserve, In,
                  CheckRunning, CheckFull, start_one, CountOne, UndoReserve, LeaveAdding
    <3>3. producer'[p] \notin {"checking", "starting", "created"}
      BY <1>1, <3>1 DEF enqueue_task, Push, Overflow, SpuriousNotFull, SignalNewTask, EnterAdding,
             Reserve, CheckRunning, CheckFull, start_one, CountOne, UndoReserve, LeaveAdding
    <3> QED
      BY <1>1, <1>5, <3>1, <3>2, <3>3
  <2> QED
    BY <2>1, <2>2
<1>8. CASE \/ enqueue_task(p) \/ Overflow(p) \/ SpuriousNotFull(p)
           \/ EnterAdding(p) \/ Reserve(p) \/ CountOne(p) \/ UndoReserve(p) \/ LeaveAdding(p)
  <2>1. UNCHANGED worker
    BY <1>8 DEF enqueue_task, Overflow, SpuriousNotFull, EnterAdding, Reserve, CountOne,
                UndoReserve, LeaveAdding
  <2>2. number_of_unused_threads_' - number_of_unused_threads_ =
            Has(Reserved, s) - Has(Reserved, producer[p])
    <3>1. CASE enqueue_task(p)
      <4>1. UNCHANGED number_of_unused_threads_ /\ producer[p] \in {"idle", "woken"}
        BY <3>1 DEF enqueue_task
      <4>2. s \in {"pushed", "waiting"}
        BY <1>1, <1>6, <3>1 DEF enqueue_task, Push
      <4>3. Has(Reserved, s) = 0 /\ Has(Reserved, producer[p]) = 0
        BY <4>1, <4>2 DEF Has, Reserved
      <4> QED
        BY <1>1, <4>1, <4>3
    <3>2. CASE Overflow(p) \/ SpuriousNotFull(p) \/ EnterAdding(p) \/ CountOne(p) \/ LeaveAdding(p)
      BY <1>1, <1>6, <3>2 DEF Overflow, SpuriousNotFull, EnterAdding, CountOne, LeaveAdding, Has,
                              Reserved
    <3>3. CASE Reserve(p) \/ UndoReserve(p)
      BY <1>1, <1>6, <3>3 DEF Reserve, UndoReserve, Has, Reserved
    <3> QED
      BY <1>8, <3>1, <3>2, <3>3
  <2>3. number_of_unused_threads_' \in Int
    BY <1>1, <1>8 DEF enqueue_task, Overflow, SpuriousNotFull, EnterAdding, Reserve, CountOne,
                      UndoReserve, LeaveAdding
  <2>4. Has(Reserved, s) \in Nat /\ Has(Reserved, producer[p]) \in Nat
    BY DEF Has
  <2> QED
    BY <1>1, <1>3, <1>4, <1>6, <1>7, <2>1, <2>2, <2>3, <2>4 DEF UnusedInv
<1>9. CASE SignalNewTask(p)
  <2>1. /\ UNCHANGED number_of_unused_threads_
        /\ Has(Reserved, s) = 0 /\ Has(Reserved, producer[p]) = 0
    BY <1>1, <1>6, <1>9 DEF SignalNewTask, Has, Reserved
  <2>2. {w \in Workers : worker'[w] \in Idle} = {w \in Workers : worker[w] \in Idle}
    BY <1>1, <1>9 DEF SignalNewTask, In, Idle
  <2>3. Count(worker', Workers, Idle) = Count(worker, Workers, Idle)
    BY <2>2 DEF Count
  <2> QED
    BY <1>1, <1>3, <1>4, <1>6, <1>7, <2>1, <2>3 DEF UnusedInv
<1>10. CASE CheckRunning(p) \/ CheckFull(p) \/ start_one(p)
  <2>1. UNCHANGED number_of_unused_threads_ /\ producer[p] \in Reserved
    BY <1>10 DEF CheckRunning, CheckFull, start_one, Reserved
  <2>2. Has(Reserved, producer[p]) = 1 /\ Has(Reserved, s) \in 0 .. 1
    BY <2>1 DEF Has
  <2>3. CASE UNCHANGED worker
    BY <1>1, <1>3, <1>4, <1>6, <1>7, <2>1, <2>2, <2>3 DEF UnusedInv
  <2>4. CASE /\ start_one(p)
             /\ number_running_ < NumberOfThreads
             /\ worker[number_running_ + 1] = "none"
             /\ worker' = [worker EXCEPT ![number_running_ + 1] = "gate"]
             /\ producer' = [producer EXCEPT ![p] = "created"]
    <3> DEFINE w == number_running_ + 1
    <3>1. w \in Workers /\ worker[w] = "none" /\ ~(active_state_ = "AS_NOT_ACTIVE" /\ ctl = "idle")
      BY <1>1, <2>4, ThreadsAssumption DEF Workers, UnusedInv, start_one
    <3>2. "gate" \in WorkerStates
      BY DEF WorkerStates
    <3> HIDE DEF w
    <3>3. worker' = [worker EXCEPT ![w] = "gate"]
      BY <2>4 DEF w
    <3>4. Count(worker', Workers, Idle) =
            Count(worker, Workers, Idle) - Has(Idle, worker[w]) + Has(Idle, "gate")
      BY <1>1, <1>2, <3>1, <3>2, <3>3, WorkerMove, Zenon
    <3>5. Has(Idle, worker[w]) = 0 /\ Has(Idle, "gate") = 1
      BY <3>1 DEF Has, Idle
    <3>6. Has(Reserved, s) = 0
      BY <1>1, <1>6, <2>4 DEF Has, Reserved
    <3>7. Count(worker', Workers, Idle) + Count(producer', Producers, Reserved) =
            Count(worker, Workers, Idle) + Count(producer, Producers, Reserved)
      BY <1>3, <1>6, <2>2, <3>4, <3>5, <3>6
    <3> QED
      BY <1>7, <2>1, <3>1, <3>7 DEF UnusedInv
  <2> QED
    BY <1>10, <2>3, <2>4 DEF CheckRunning, CheckFull, start_one
<1> QED
  BY <1>8, <1>9, <1>10

(* The threads' steps. *)
LEMMA UnusedWorker ==
    ASSUME Base, UnusedInv, NEW w \in Workers,
           \/ PassGate(w) \/ WorkTop(w) \/ WorkWoken(w) \/ SpuriousWakeup(w)
           \/ SignalNotFull(w) \/ Execute(w)
    PROVE  UnusedInv'
<1> USE DEF jobVars, workerVars, producerVars
<1>1. /\ worker \in [Workers -> WorkerStates] /\ producer \in [Producers -> ProducerStates]
      /\ number_of_unused_threads_ \in Int
  BY DEF Base, WeakTypeOK
<1>2. Idle \in SUBSET WorkerStates
  BY DEF Idle, WorkerStates
<1>3. Count(worker, Workers, Idle) \in Nat /\ Count(producer, Producers, Reserved) \in Nat
  BY CountType, Finite, Zenon
<1>4. UNCHANGED <<active_state_, ctl>> /\ ~(active_state_ = "AS_NOT_ACTIVE" /\ ctl = "idle")
  <2>1. worker[w] # "none" /\ UNCHANGED <<active_state_, ctl>>
    BY DEF PassGate, WorkTop, WorkWoken, SpuriousWakeup, SignalNotFull, Execute
  <2> QED
    BY <2>1 DEF UnusedInv
<1>5. PICK s \in WorkerStates : worker' = [worker EXCEPT ![w] = s]
  BY DEF PassGate, WorkTop, WorkWoken, TakeOrWait, SpuriousWakeup, SignalNotFull, Execute,
         WorkerStates
<1>6. /\ worker'[w] = s
      /\ Count(worker', Workers, Idle) =
            Count(worker, Workers, Idle) - Has(Idle, worker[w]) + Has(Idle, s)
  BY <1>1, <1>2, <1>5, WorkerMove, Zenon
<1>7. number_of_unused_threads_' - number_of_unused_threads_ = Has(Idle, s) - Has(Idle, worker[w])
  <2>1. CASE WorkTop(w)
    <3> DEFINE u == number_of_unused_threads_ + (IF worker[w] = "top" THEN 1 ELSE 0)
    <3>1. /\ u \in Int
          /\ worker[w] = "start" => u = number_of_unused_threads_
          /\ worker[w] = "top" => u = number_of_unused_threads_ + 1
          /\ worker[w] \in {"start", "top"} /\ TakeOrWait(w, u)
      BY <1>1, <2>1 DEF WorkTop
    <3> HIDE DEF u
    <3> QED
      BY <1>1, <1>6, <3>1 DEF TakeOrWait, Has, Idle
  <2>2. CASE WorkWoken(w)
    BY <1>1, <1>6, <2>2 DEF WorkWoken, TakeOrWait, Has, Idle
  <2>3. CASE PassGate(w) \/ SpuriousWakeup(w) \/ SignalNotFull(w) \/ Execute(w)
    BY <1>1, <1>6, <2>3 DEF PassGate, SpuriousWakeup, SignalNotFull, Execute, Has, Idle
  <2> QED
    BY <2>1, <2>2, <2>3
<1>8. Count(producer', Producers, Reserved) = Count(producer, Producers, Reserved)
  <2>1. {p \in Producers : producer'[p] \in Reserved} = {p \in Producers : producer[p] \in Reserved}
    BY <1>1 DEF PassGate, WorkTop, WorkWoken, SpuriousWakeup, SignalNotFull, Execute, Prod, Reserved
  <2> QED
    BY <2>1 DEF Count
<1>9. number_of_unused_threads_' \in Int /\ Has(Idle, s) \in Nat /\ Has(Idle, worker[w]) \in Nat
  <2>1. number_of_unused_threads_' \in Int
    BY <1>1 DEF PassGate, WorkTop, WorkWoken, TakeOrWait, SpuriousWakeup, SignalNotFull, Execute
  <2> QED
    BY <2>1 DEF Has
<1>11. Count(worker', Workers, Idle) \in Int
  BY <1>3, <1>6, <1>9
<1>13. /\ Count(worker, Workers, Idle) \in Int
       /\ Has(Idle, s) \in Int /\ Has(Idle, worker[w]) \in Int
  BY <1>3, <1>9
<1>10. number_of_unused_threads_' - Count(worker', Workers, Idle) =
          number_of_unused_threads_ - Count(worker, Workers, Idle)
  <2> DEFINE u == number_of_unused_threads_
             v == number_of_unused_threads_'
             m == Count(worker, Workers, Idle)
             n == Count(worker', Workers, Idle)
             a == Has(Idle, s)
             b == Has(Idle, worker[w])
  <2>1. /\ u \in Int /\ v \in Int /\ m \in Int /\ n \in Int /\ a \in Int /\ b \in Int
        /\ n = m - b + a /\ v - u = a - b
    BY Zenon, <1>1, <1>6, <1>7, <1>9, <1>11, <1>13
  <2> HIDE DEF u, v, m, n, a, b
  <2>2. v - n = u - m
    BY <2>1
  <2> QED
    BY Zenon, <2>2 DEF u, v, m, n
<1>12. number_of_unused_threads_' >=
          Count(worker', Workers, Idle) + Count(producer', Producers, Reserved)
  BY <1>1, <1>3, <1>8, <1>9, <1>10, <1>11 DEF UnusedInv
<1> QED
  BY <1>4, <1>12 DEF UnusedInv

(* The controller's steps, for a runner that is not activated again. *)
LEMMA UnusedControl ==
    ASSUME Base, UnusedInv, ~Reactivation,
           \/ activate_object \/ deactivate_object \/ terminate
           \/ Join \/ CloseGate \/ Complete \/ wait_object \/ clear
    PROVE  UnusedInv'
<1> USE DEF jobVars, workerVars, producerVars
<1>1. /\ worker \in [Workers -> WorkerStates] /\ number_of_unused_threads_ \in Int
      /\ UNCHANGED <<producer, number_of_unused_threads_>>
  BY DEF Base, WeakTypeOK, activate_object, deactivate_object, terminate, Join, CloseGate, Complete,
         wait_object, clear
<1>2. Count(worker, Workers, Idle) \in Nat /\ Count(producer, Producers, Reserved) \in Nat
  BY CountType, Finite, Zenon
<1>3. FirstThreads \in 1 .. NumberOfThreads
  BY ThreadsAssumption DEF FirstThreads, StartThreads, Larger
<1>4. CASE activate_object
  <2>1. {w \in Workers : worker'[w] \in Idle} = 1 .. FirstThreads
    BY <1>3, <1>4, ThreadsAssumption DEF activate_object, Idle, Workers
  <2>2. Count(worker', Workers, Idle) = FirstThreads
    <3>1. Cardinality(1 .. FirstThreads) = FirstThreads
      BY <1>3, ThreadsAssumption, FS_Interval
    <3> QED
      BY <2>1, <3>1, Zenon DEF Count
  <2> QED
    BY <1>1, <1>2, <1>4, <2>2 DEF UnusedInv, activate_object
<1>5. CASE terminate
  <2>1. {w \in Workers : worker'[w] \in Idle} = {w \in Workers : worker[w] \in Idle}
    BY <1>5 DEF terminate, Idle
  <2>2. Count(worker', Workers, Idle) = Count(worker, Workers, Idle)
    BY <2>1 DEF Count
  <2> QED
    BY <1>1, <1>5, <2>2 DEF UnusedInv, terminate
<1>6. CASE Join
  <2>1. {w \in Workers : worker'[w] \in Idle} = {w \in Workers : worker[w] \in Idle}
    BY <1>1, <1>6 DEF Join, Idle
  <2>2. Count(worker', Workers, Idle) = Count(worker, Workers, Idle)
    BY <2>1 DEF Count
  <2> QED
    BY <1>1, <1>6, <2>2 DEF UnusedInv, Join
<1>7. CASE deactivate_object \/ CloseGate \/ Complete \/ wait_object \/ clear
  BY <1>1, <1>7 DEF UnusedInv, deactivate_object, CloseGate, Complete, wait_object, clear
<1> QED
  BY <1>4, <1>5, <1>6, <1>7

(* A runner that is activated once keeps its unsigned counters right:      *)
(* number_of_unused_threads_ covers the idle threads and the reservations, *)
(* so that neither the assert of work() nor a decrement can fail.          *)
THEOREM CountersStayRight == ~Reactivation => (Spec => [](TypeOK /\ UnusedCoversIdle))
<1> SUFFICES ASSUME ~Reactivation PROVE Spec => [](TypeOK /\ UnusedCoversIdle)
  OBVIOUS
<1>1. Base /\ UnusedInv /\ [Next]_vars => UnusedInv'
  <2> SUFFICES ASSUME Base, UnusedInv, [Next]_vars PROVE UnusedInv'
    OBVIOUS
  <2>1. CASE UNCHANGED vars
    BY <2>1 DEF vars, UnusedInv
  <2> QED
    BY <2>1, UnusedProducer, UnusedWorker, UnusedControl DEF Next
<1> QED
  BY <1>1, BaseInvariant, UnusedInit, UnusedInvMeans, PTL DEF Spec
=============================================================================
