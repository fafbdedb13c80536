# TLA+ models of unixcommons

unixcommons is a C++ library: active objects with their threads and queues, schedulers, caches, loggers,
CORBA, HTTP and gRPC helpers, storage in files, text and number utilities. This directory models the parts
in which threads, callbacks, failures or ends of the process meet, and three sequential parts whose
algorithms are intricate (decimal numbers, conversions of texts, the reader of lines). It model-checks them
on small instances and proves the central properties of eleven components for every value of their constants.

Contents: [parts](#the-system-and-its-parts), [modelling conventions](#conventions),
[modules](#the-modules), [runs](#runs), [bounds](#bounds-and-why-they-are-enough), [fairness](#fairness),
[proofs](#proofs), [assumptions about use](#assumptions-about-use), [differences](#differences-between-comments-and-code),
[what is not modelled](#not-modelled).

To repeat the checks: `tlc -workers 2 -config X.cfg MCModule` for a run (each takes less than five minutes),
`tlapm XProofs.tla` for the proofs (from a quarter of a minute to six minutes per module).

## The system and its parts

Paths are below `src/`. The parts that are only named are listed with their reasons in `PROJECT.json`.

| Part | State | Operations | What makes it hard |
|---|---|---|---|
| Semaphore (`Sync/Semaphore.hpp`, `Condition.cpp`) | count, mutex, condition variable | acquire, try_acquire, timed_acquire, release | one signal per unit, barging acquirers, timeouts against signals, spurious wake-ups |
| ThreadRunner (`Generics/ThreadRunner.cpp`) | table of jobs, number_running_, gate semaphore, interrupt flag | start, start_one, wait_for_completion, thread_func_ | creation fails half way; the one unit of the gate passes from thread to thread |
| ActiveObject (`Generics/ActiveObject.cpp`) | life-cycle state, two mutexes, a ThreadRunner | activate, deactivate, wait | several callers at once, reads without the mutex |
| TaskRunner (`Generics/TaskRunner.cpp`) | queue, counters of unused and waiting threads, growth try-lock | enqueue_task, work, clear, terminate | signals outside the lock, growth of the pool by producers, bounded queue |
| TaskPool (`Generics/TaskPool.cpp`) | a queue and a thread per processor, wrapping position | enqueue_task, work, stop, clear | as TaskRunner, and a restart with tasks left over |
| Planner (`Generics/Scheduler.cpp`) | sorted schedule, predicate, clock, delivery shift | schedule, unschedule, clear, work, terminate | clock read before the lock, wait time chosen before the wait |
| Periodic (`Generics/Periodic.cpp`) | per task: quit_, start_, thread; the runner's jobs | run, stop, enforce_start, add_task, clear | flags read and reset without the mutex, notifications between waits |
| Composite (`Generics/CompositeActiveObject.hpp`) | children, state, mutex | activate, deactivate, wait, add_child_object, clear_children | children fail half way; waiting on a copy of the list without the lock |
| FileCache (`Generics/FileCache.hpp`) | buffer, holders, checker's time, manager's mutex | get, release, update | a reload must not happen under a holder; waiting with a mutex held |
| BoundedMap (`Generics/BoundedMap.hpp`) | table, LRU queue, size, bound, statistics | insert, find, update, erase, bound, statistics | eviction while updating, sizes that changed behind the map, time read before the lock |
| Decimal numbers (`Generics/Decimal.tpp`, `SimpleDecimal`) | digits in an array of elements; one integer | construction, arithmetic, rounding, conversions | carries, guessed quotients, overflow at the top element |
| Texts (`String/StringManip.cpp`, `UTF8Handler.hpp`) | the conversion at hand | Base64, URL, Punycode, XML, JS, JSON, CSV, UTF-8, integers | boundaries of groups and encodings |
| Process control (`CORBA/CORBACommons`) | unguarded flag, semaphore, ORB | shutdown, wake, wait | overlapping requests, destruction during a call |
| CORBA object pool | references, use counts, rest times | get_object, resolve, release | resolving outside the lock of the pool, bad objects returned late |
| HTTP pool (`HTTP/HttpAsyncPool.cpp`) | servers, connections, event threads, requests | add_request, callbacks of evhttp, timers, deactivation | every request one callback, choice and close race each other |
| FileLogger (`Logger/FileLogger.cpp`) | file, times, archives | publish, rotation, reopening | failing or racing system calls in the middle of a rotation |
| PlainStorage (`PlainStorage`) | blocks, chains of free blocks, of keys and of data | insert, write, erase, close, load | the process ends between two stores |
| gRPC server and client (`UServerUtils/Grpc`) | state machine of a call, its queue, pool or factory | events of the completion queue, sends, stops | operations that fail at any time; objects destroyed with tags outstanding |
| QueueAtomic | lock-free list with a stub | push, pop | half-linked nodes, the last node |
| FileManager, RocksDB manager (`UServerUtils`) | event queue, eventfd, io_uring | submit, complete, shut down, getline | a full ring, completion against shutdown, a growing buffer |

How they interact. `ThreadRunner` puts one unit into a `Semaphore` to let its threads run.
`ActiveObjectCommonImpl` drives a `ThreadRunner` and is the base of `TaskRunner`, `Planner` and the processors
of `TaskPool`. `TaskPool` and many users are composites of active objects. `TaskRunner`'s producers call
`start_one()` of the same `ThreadRunner` while others deactivate it. `ProcessControl` waits on a `Semaphore` in
a job of an active object. `FileManager` and the RocksDB manager share the design of their event queue, which is
a `QueueAtomic`. A component that uses another is composed with what the other promises: the counting semaphore
in place of `Semaphore`, a FIFO queue in place of `QueueAtomic`, a slot per thread in place of the table of
`ThreadRunner`, an abstract active object in place of each child.

What must be right about each of them is what the properties of [runs](#runs) say; where it can go wrong, line
by line, is the list of hazards in `PROJECT.json`.

## Conventions

* A critical section is one action, because nothing of the program sees its middle. Everything the code does
  before taking the lock (reading the clock, a flag) or after giving it back (a signal, a broadcast, the growth
  of the pool) is an action of its own. Locks that are held over several steps (`work_mutex_`, the composite's
  `lock`, the manager's `mutex_`) are variables. In `QueueAtomic` an action is one atomic memory operation, in
  `PlainStorage` the process may end between any two stores (a copied block is one store), in `FileLogger`
  between any two system calls something may happen to the file.
* A condition variable is a set of waiting threads and a set of woken ones that have not got the mutex back.
  `signal` moves one waiting thread, chosen freely, `broadcast` all, and any waiting thread may be woken
  spuriously. A timed wait may end by its timeout at any moment.
* A thread's place in its function is a value such as `"waiting"` or `"pushed"`; local variables are kept
  only while their values matter.
* What the constructor fixes and a run should cover with every value (`SYNCHRONOUS_`, `rpc_type`,
  `delivery_time_adjustment_`, `managed`, a policy) is a variable chosen in `Init` and never changed.
* Tasks, goals, keys and files are model values; a file's content is the time of the write.
* An exception is an alternative of the action in which it is thrown; what the handler does afterwards is
  part of the model. gRPC, evhttp, the ORB, io_uring and RocksDB are modelled from how the code uses them.
* Operators named after a plausible mistake (`PushEdge`, `MutTryClose`, ...) stand before the
  definition they distort; `PROJECT.json` lists which property catches each of them.
* Components that share no state are checked together, in one `MC` module: `component` is chosen in `Init`, a
  step is one of that component, and the others rest in an initial state. As no component can see another, this
  is what separate runs would check; the number of states is the sum and not the product.

## The modules

`X.tla` is a component, `MCX.tla` with a `.cfg` its instance or a batch of instances for TLC, `XProofs.tla`
theorems. Names of the source are kept: `acquire`, `start_one`, `number_of_unused_threads_`. Actions with a
capital letter are steps inside a function of the source; their comments and the map in `PROJECT.json` say which
lines.

### Threads and life cycles (MCThreads, MCTaskRunner)

**CountingSemaphore, Semaphore.** `CountingSemaphore` is the promise: a counter, pending callers, and a unit
taken by any of them in one step. `Semaphore` is the code: `count_`, the wait set, the woken threads, and who
waits with a deadline. `acquire`, `timed_acquire`, `try_acquire` and `release` are one critical section each;
`Resume` is a woken thread that has the mutex again and repeats the loop; `Timeout` ends a timed wait, which
looks at the count a last time. The refinement maps pending callers to waiting and woken threads together.

**ThreadRunner.** One client calls `start`, `start_one`, `wait_for_completion` (the header calls them thread
unsafe) while the created threads run. `Create` and `InterruptStart` are a successful and a failing
`pthread_create`, which may be that of any thread of the group; `AcquireGate`, `ReleaseGate`, `EnterWork`,
`LeaveWork` are the steps of `thread_func_`; `Join` and `Completed` those of the joining loop. A `start()` that
fails at its first thread leaves the unit of its error path in the gate; `leaked` is the history of these.

**TaskRunner.** Producers in `enqueue_task` (`Push`, `Overflow`, `SignalNewTask`, then the growth `EnterAdding`,
`Reserve`, `CheckRunning`, `CheckFull`, `start_one`, `CountOne`, `LeaveAdding`, with `UndoReserve` on failure),
threads in `work` (`PassGate`, `WorkTop`, `WorkWoken`, `SignalNotFull`, `Execute`) and a controller
(`activate_object`, `deactivate_object`, `terminate`, `wait_object`, `clear`). The life cycle is that of
`ActiveObjectCommonImpl`, reduced to one controller. `wait_object()` joins thread by thread and reads
`number_running_` at each turn (`Join`), then closes the gate (`CloseGate`) and resets the table (`Complete`), and
a producer's `start_one()`, which takes no lock, may come between any two of these steps. A thread that is created
behind the loop is not joined: it stays before the closed gate, or it has passed the gate and goes on working.

**ActiveObject, ActiveObjectCommonImpl.** `ActiveObject` is the promise of the interface: three states in
their order, and nothing that runs for the object when it is `AS_NOT_ACTIVE` again. `ActiveObjectCommonImpl`
has several callers with `work_mutex_` and `termination_mutex_`, and the thread table of `ThreadRunner` as the
callers see it half-way: handles, `number_running_` and the gate change in separate steps. Growers are
`TaskRunner`'s producers in `add_thread_i_`.

**CompositeActiveObject.** `SimpleActiveObject`'s life cycle with the composite's hooks. A caller loops over a
list of children (`list`, `it`): activation (`ActivateNext`, with the error path `ActivateFails`, `Undo...`),
deactivation in reverse order (`DeactivateNext`, `SyncWait` with `SYNCHRONOUS_`), waiting on a copy
(`CopyChildren`, `WaitNext`, `WaitDone`), adding and clearing. A child is an abstract active object which stops
some time after it was told to. It is in two batches. In MCThreads children may fail to start, `wait_object()` and
`activate_object()` do not overlap, and the composite is shown to implement `ActiveObject`, with the children as
what runs. In MCUtilities children may also throw when they are told to stop (`thrown` remembers which have) and
all calls overlap; what is left of the children's consistency then is `ConsistentChildren`.

### Schedulers, pools and caches (MCGenerics)

**Planner.** `schedule` inserts into the sorted list, sets the predicate if the new message is first, and
signals after unlocking (`SignalNewEvent`). The thread reads the clock (`ReadClock`), takes overdue messages or
chooses its wake-up time (`Pump`), and waits in a second critical section (`Sleep`); `Adjust` is the adaptation
of the delivery shift, `Deliver` one goal. `unschedule` keeps the messages of other goals in their order: it
says so by the increasing map from their new to their old places.

**TaskPool.** `enqueue_task` takes a position from the wrapping atomic counter, `Push` puts the task into that
queue, `SignalNewTask` follows. Deactivation sets the flag of each processor (`MakeTerminate`) before it
broadcasts to it (`terminate`).

**Periodic.** The loop of `PeriodicTask::run` step by step (`BeginWait`, `EndWait`, `TestQuit`, `Quit`,
`TestStart`, `Break`, `run_once`), because the flags are read and reset without the mutex, and the operations of
`PeriodicRunner`.

**FileCache.** `get` on a cache, directly or through the manager (`LockManager` first, held until the end):
unchanged file, missing file, changed file with and without holders, and the way after the wait
(`GetWoken`). `remove_ref_no_delete_` is the release, whose last one broadcasts. `Write` is the outside world
changing a file.

### gRPC (MCGrpc, MCUtilities)

**RpcImpl.** The server: one object per call and the pool that owns them. Operations given to gRPC are `tags`;
their completions (`Connection`, `Read`, `Write`, `Finish`, `Done`), events of other threads (`EventQueue`) and
the user's sends from its own and from other threads are actions. `TryClose` is the one place where an object
leaves the pool; `ExecuteQueue` gives the next queued write or the finish. `Deactivate` and `Wait` stop the
pool.

**ClientImpl.** The client: one object per call and `FactoryImpl`. `Event` takes what other threads have asked
for, `Tag` the completions, `NeedRemove` is the factory's removal, `StopFactory` its stop. All four kinds of
streams are covered on either side.

**ClientCoro, ClientPoolCoro.** Coroutines that share a bidirectional stream, with promises by number, time
limits and the end of the stream; the pool that replaces ended streams, an array with a map from numbers to
places.

**QueueAtomic** (MCServices). The lock-free list under the event queues: a push exchanges `head_` and links in a
second step, the consumer keeps the last node with the help of `stub_`. One action per atomic operation; `fifo`
and `taken` are history.

### Services (MCServices, MCUtilities)

**FileManager, DataBaseManager.** Callers put operations into the event queue and count them in the eventfd
(`AddEvent`, `SemaphoreAdd`); one thread (`RunTop`, `OperationReady`, `SemaphoreReady`, `Drain`) moves them into
a submission ring of limited size and calls back. The destructor puts a close event. When the submission fails, the
operation is answered with an error but its entry stays in the ring: `stale` has the entries whose user data is
gone, and `StaleReady` is the completion of one, of which nothing is known. The eventfd is counted inside `assert()`,
so that the models have the parameter `NDEBUG`. The data base manager is the same loop written a second time, with
coroutines that are resumed several times; with lists of different lengths `multi_get` answers and goes on.

**FileReader.** `getline` into a string and into a view, `peek`, with the sentinel, moved and grown buffers, and a
file that breaks off with an error at any place.

**ProcessControl.** Requests with and without waiting, the semaphore (as the counter it implements), the job
that shuts the ORB down, the destructor.

**ObjectPool.** `get_object` with its policies, resolving under the object's own mutex, release as good or bad,
rest and new chance.

**HttpAsyncPool.** A request from `add_request` over the server's choice of a connection and the pool's choice
of an event thread to the task that tells the user; responses, failures, timers; closing of idle connections
and threads; deactivation. The policies count under their own mutex. A signal queue is a list and a pipe: `Push`
under the mutex and `Signal` after it are two steps, and so are reading the bytes of the pipe (`Reads`) and popping
one item for each of them (`PopThread`, `PopConnection`).

**FileLogger.** `publish` with its system calls one by one, each of which may fail, rotation by size and by time,
and another process that removes the file.

**PlainStorage.** The allocator, the chains of data of each key, the index of keys. An operation is a sequence
of stores (`log`), the process may end after each, and the map is then loaded. The header of a key is four stores,
after the one that counts it. `torn` says that the last end of a process left a counted header half stored.
(MCUtilities.)

**BoundedMap.** `container_` by key with the recorded and the present size of the data, `queue_` in order of use
with the time. Each operation uses the time its thread has read before (`ReadTime`). `insert`, `find`, `update`,
`insert_or_update`, `erase`, `clear`, `bound`, `statistics`; `Change` is a value growing or shrinking behind the
map.

### Numbers and texts (MCThreads)

**Decimal, SimpleDecimal.** The algorithms of both classes on elements of two digits in a byte: addition with
carries, multiplication with a temporary array, division by guessed and fixed quotients, all roundings,
conversions. A behaviour is a sequence of calls on one object of each class, and `exact` what they should hold.

**StringManip.** Each conversion as an operator, encoder and decoder. The program encodes a source, decodes the
outcome and compares.

## Runs

Distinct states and times are with two workers and TLC's coverage on. Liveness properties are checked under
[the fairness below](#fairness); runs check for deadlock where the row says so.

| Run | States | Shows |
|---|---|---|
| `threads` | 66627, 2 min | ThreadRunner, with failures of any `pthread_create`: the gate has exactly one unit while open and none otherwise, and one more for each `start()` that failed at its first thread (`GateInv`), all threads are joined (`NoThreadForgotten`), a failed start runs no job unless such a unit let it in (`NoJobAfterFailure`). ActiveObjectCommonImpl: handles to join are valid and distinct (`HandlesValid`). Composite: dependent children stop first (`StopOrder`). As long as calls do not overlap against the interface (`Overlap`), both objects implement `ActiveObject` (`ImplementsActiveObject`). Every call returns (`CallsReturn`). Texts: what is encoded is read back as it was, by the library's decoder or by a reader written from the standard (`CodecsExact`). Decimals equal integer arithmetic (`NumbersExact`). With deadlock check. |
| `task_runner` | 218082, 1½ min | `number_of_unused_threads_` covers the idle and the reserved threads (`UnusedCoversIdle`), no task and no producer sleeps without a wake-up under way (`NoTaskWithoutWakeup`, `NoProducerForgotten`), one grower at a time (`GrowersExcluded`); `wait_object()` returns, whatever producers start beside its loop (`WaitReturns`), queued tasks are taken and waiting producers lead to pushes (`WorkProceeds`). No deadlock check: when a runner has ended, producers may be left waiting for room. |
| `generics` | 249403, 3 min | Planner, TaskPool, Periodic, FileCache: nobody sleeps over work without a signal, a timeout or a holder that will wake them, and no thread of an active periodic runner ends (`SleepersWillWake`); no goal is early (`NeverEarly`); content does not change under a holder (`ContentStable`); a stop ends all threads (`ThreadsStop`); goals leave the schedule, tasks are executed, enforced starts happen, managed gets return (`RequestsServed`). With deadlock check. |
| `grpc` | 580502, 2 min | Server and client: gRPC has no operation of a destroyed call (`NoTagOfDestroyed`), the client's observer is told of the end once and before the destruction, nothing is written after WritesDone (`ClientInOrder`), one Finish per call and no Write beside or after it (`OneFinish`); pool and factory stop (`EndStops`), dead calls leave (`DeadCallsLeave`). No deadlock check: all calls may be over. |
| `services` | 256307, 3 min | Semaphore: every unit has a woken thread on its way while somebody sleeps (`NoLostWakeup`), the code implements the counting semaphore (`ImplementsCounting`). Queue, managers and HTTP pool: counters tell what there is (`CountsExact`), elements leave in order (`FifoOrder`), callbacks are called once, but for those of stale entries and of lists of different lengths (`CallbackOnce`). What was asked for comes (`CallsAnswered`), stops return (`StopsReturn`). No deadlock check: the requests of a behaviour are finitely many. |
| `utilities` | 643470, 3 min | BoundedMap, ObjectPool and ClientPoolCoro account for what they hold (`ResourcesAccounted`); a call of the map removes only outdated items, respects the bound and counts what it does (`MapStepsRight`); writers of a stream are not forgotten (`NobodyForgotten`); the children of a composite have the state of their owner whenever nobody changes it, but for those that have thrown in `deactivate_object()` (`ConsistentChildren`); log records stay in files with a name and files within their limits (`LogKept`); terminated lines are read as they are (`TerminatedLinesExact`). PlainStorage: wherever the process ends, all of the file is whole except a header that was counted and not completely stored (`BlocksInOrder`), and the map has its data unless it was loaded from such a file (`DataKept`). Safety only; symmetric in the keys of the map and in two threads. No deadlock check: calls are counted. |
| `task_runner_reactivated`, `file_reader`, `object_pool`, `thread_runner`, `plain_storage`, `decimal` | violated | One property each, of what a comment, an assertion or a test says: see [differences](#differences-between-comments-and-code). |

The type invariant of each module is part of its first invariant or is proved.

## Bounds and why they are enough

| Module | Bound | Why |
|---|---|---|
| Semaphore | 3 threads, count from -1 to `MaxCount` = 3 | A waiter with and one without a deadline beside a barging thread; the count crosses zero and exceeds the number of waiters. |
| ThreadRunner | 3 jobs, `MaxLeaks` = 1 | A group that fails at any of its threads, a partial start followed by growth, and restart, also after a failure at the first thread. More leaked units do what one does. |
| TaskRunner | 2 producers (one with a timeout), 1 task that is enqueued any number of times, 2 threads, queue of 2 | The queue fills with a producer still waiting; the second thread exists only by growth; two producers meet in the growth. No property tells tasks apart. A slot that holds a thread which was not joined is not used again. |
| ActiveObjectCommonImpl | 3 callers, 1 grower, 3 jobs of which 2 are started, 3 threads | Two waiters against one who deactivates; growth by one thread. |
| CompositeActiveObject | 2 callers, 2 children | Failure of the first or second child, at its start or when it is told to stop; order of two dependent children; a waiter beside one who changes. |
| Planner | 2 schedulers, 2 goals, `MaxTime` = 2, `MaxMessages` = 2 | An earlier message put before a later one while the thread goes to sleep; equal times. The clock stops at `MaxTime`, by then all messages are due. |
| TaskPool | 2 producers, 3 tasks, 2 queues, `PositionRange` = 4 | Position wraps; both producers at one queue; a task left for the next activation. |
| Periodic | 2 tasks | Tasks do not interact except through the runner's lists. |
| FileCache | 3 clients, 2 files, `MaxTime` = 2 | A holder, a waiter and a third that takes the buffer between; a file that changes while it is waited for. |
| BoundedMap | 2 threads, 3 keys, sizes 1 and 2, bounds 1 and 2, `MaxTime` = 2, `timeout_` = 1, `MaxInserts` = 3 | Two items must go for one; bound lowered below the size; times that arrive in the wrong order. |
| RpcImpl, ClientImpl | 2 calls, `MaxSends` = `MaxWrites` = 2; `FewSends` = 1 for liveness | One call is being destroyed while the next one lives; a finish queued behind a write and a write behind a finish. |
| ClientCoro, ClientPoolCoro | 3 writers; 3 places, 6 clients | An answer, a timeout and the end of the stream meet; every place is replaced, one of them again. |
| QueueAtomic | 2 producers, 3 nodes | Two half-linked pushes at once, with the stub in front, between and behind. |
| FileManager, DataBaseManager | 4 operations, rings of 2; 3 operations with failing submits or mismatched lists | More operations than the ring has room for, beside the read of the semaphore. `EventMax` = 1 makes the queue full. |
| FileReader | files of 4 bytes over two characters and the delimiter, buffer up to 6 | A line longer than the first buffer (of one byte), lines that end with it, and an unterminated last line. |
| ProcessControl | 3 callers | A waiting and a direct request with a third between. |
| ObjectPool | 3 users, 2 objects, use count 1 (2 in the violation) | Both objects bad, and somebody who waits for them. |
| HttpAsyncPool | 2 requests, 2 servers (1 for liveness), 3 connections, 2 threads, one per server and thread | The second request finds a connection that closes, or needs a new one; limits are reached. |
| FileLogger | 3 records, `MaxFailures` = 1, `MaxRemovals` = 1 | A rotation between any two records, with one failure and one removal in it. |
| PlainStorage | 2 keys, blocks of 1 or 2 units, data of 1 to 3 units, `MaxBlocks` = 8, `MaxCrashes` = 2 (1 with blocks of 1 unit) | Data of one and of two blocks, grown and shortened, a key block that fills up, the allocator that grows; an end of the process in an operation on a file that an earlier one has left. |
| Decimal | elements of 2 digits in a byte; 4 digits with 2, 5 with 1 and 5 with 3 behind the point; `MaxCalls` = 2 or 3 | The point between and inside elements, and a top element that is used in full or in part. |
| StringManip | texts of up to 3 symbols over 6 bytes or 8 code points, which take every length of an encoded character and the ends of the ranges that conversions test (2 symbols where a conversion forms no groups and keeps no state, those which CSV, XML, JSON and JS escape added); texts of up to 5 characters decoded in place; integers of 8 bits and buffers that are too small for them | Every residue of a group of three bytes; an escape before and behind other characters in a buffer that is overwritten while it is read; an encoded text that is cut within an escape; the limits of an integer. |

`MaxCount`, `MaxTime`, `MaxMessages`, `MaxInserts`, `MaxCalls`, `MaxSends`, `MaxWrites`, `MaxFailures`,
`MaxRemovals`, `MaxLeaks`, `MaxCrashes`, `FewSends`, `MaxResolves`, `MaxClients`, `MaxFile`, `MaxBuffer`, `MaxBlocks`, `MaxLength`, `NumberOfThreads`
of `ActiveObjectCommonImpl` and the sizes of sets are bounds of the models; `MaxPending`, `NumberOfJobs`,
`Bounds`, `timeout_`, `UseMax`, ring and queue sizes and the rest are parameters of the code. `PositionRange`
stands for 2^32. The theorems hold for all of their values.

## Fairness

Fairness is assumed only for steps that the operating system's scheduler or the contract of a callback owes:

* a thread inside a function goes on (weak fairness per thread), and so does a woken thread that wants the
  mutex back, because every critical section is finite;
* tasks, goals, jobs and the actions of periodic tasks return, and children that were told to stop do stop:
  these are the library's demands on its users;
* a controller that has called `deactivate_object()` goes on to `wait_object()`, as every user in the
  repository does;
* clocks advance and timed waits time out (`Planner`, `Periodic`);
* holders in `FileCache` release their buffers some time;
* gRPC completes the operations of a dead call, and initial and write operations of a live one; the kernel
  completes what was submitted to the ring; evhttp answers or fails a request.

Strong fairness is for a step that others switch off again and again: for a thread that competes for a
mutex (`WaitResumes`, `CopyChildren`, `WaitDone` of the composite, `LockManager` of the cache manager), and for a
completion of the ring, which the thread of a manager sees only between other work. POSIX does not promise the
former; the default Linux mutex provides it in practice, since an acquirer that sleeps is woken at each
release. Nobody has to call an operation: enqueueing, scheduling, activating, deactivating, clearing, sending
carry no fairness, and none is assumed of managers with failing submits or mismatched lists.

## Proofs

TLAPS proves the following for every value of the constants that the named assumptions of the modules allow
(finite sets of threads, producers and tasks where they are counted; natural numbers where the code has unsigned
ones). Every proof goes by an inductive invariant: types first, then one step per action. Each of the
invariants was checked with TLC on the instance of its run before it was proved.

**ThreadingProofs.** About `Semaphore`: `SemaphoreTypes`; `NoWakeupIsLost`: `SemaphoreSpec => []NoLostWakeup`;
`CountsAtomically`: `SemaphoreSpec => ImplementsCounting`. `NoLostWakeup` is inductive together with the types: a
release that makes the count positive moves one thread from waiting to woken, a woken thread leaves the set either
with a unit or when there is none, and a thread begins to wait only at count zero or less. The refinement needs
types only: every step is a step of the abstract semaphore or leaves its variables alone.

About `ThreadRunner`, whichever creations fail: `TypeCorrect`, `GateIsBalanced`, `FailedStartRunsNothing`,
`AllThreadsAreJoined`. The gate is balanced up to one unit for each `start()` that failed at its first thread, and a
failed start is known to run nothing as long as there is no such unit: run `thread_runner` shows that it may otherwise.
The inductive `Inv` adds to the properties: during creation, while no unit has leaked, all threads are before the
gate (`CreatingInv`), slots below the join index are empty and those between it and
`number_running_` are not (`SlotsInv`), and after a failure the interrupt flag stays up until all are joined
(`FailureInv`). Without `CreatingInv` one could not say that a failed start finds its threads before the test
of the flag, without `SlotsInv` not that the last join empties the gate.

**QueueAtomicProofs.** `FirstOut`: `QueueSpec => FifoOrder`, `FreedAlone`: `[]NoLinkToFreedNode`, `CounterRight`:
`[]CounterExact`, for any finite set of producers and any set of nodes. `QueueInv` says that there is a sequence of
nodes, the chain, that begins at `tail_`, ends at `head_` and is the abstract queue with the stub somewhere or nowhere in
it (`IsChain`); that each node points to the next one unless the push of the next one has yet to make the link, and that
whoever has a link to make has two neighbours of the chain as its ends (`Linked`); that each node is a producer's, the
chain's or the consumer's (`Owned`); and where the consumer knows `tail_` to be an element or the stub to be out of
the chain (`Consumer`). A push appends to the chain, the consumer removes its first node only when that points
to the next one, and such a node is nobody's former head any more (`LinkedTail`): so links can be made in any order, and
the last node is not given out before the stub is behind it.

**TaskRunnerProofs, TaskRunnerWakeups.** `Base` is types and the meaning of `adding_thread_` (it counts the producers
between its increment and its decrement, at most one of them got in, and the one that has created a thread finds
room for it). It gives `OneGrower`. On top of it, in `TaskRunnerWakeups`:

* `NoTaskStranded`. Inductive as it stands once the sets are counted: a push onto a sleeping pool either adds a
  signaller or the flag tells that enough threads are awake; taking a task uses up one woken thread.
* `CountersStayRight` (for a runner activated once, `~Reactivation`). The strengthening says that before the
  activation the counter also covers the threads that will be started, since the constructor sets it.
* `NoProducerStranded` (`~ClearWhileWaiting`). As for tasks, with the free places of the queue and the threads that took a task and
  have not signalled `not_full_` yet.

The properties of `TaskRunner` speak about cardinalities of sets of threads. The proofs use `Count(f, D, A)`,
the number of members of `D` that `f` takes into `A`, with one lemma on how it changes when one thread moves
(`CountMove`).

**ActiveObjectProofs.** `NothingJoinedTwice`: `HandlesValid`, and `KeepsPromise`: `ImplementsActiveObject`, for
any callers and any table of jobs, from `Discipline`: no calls that the interface calls thread unsafe overlap
(`~Overlap`; when they do, both are false, see [below](#assumptions-about-use)), `start()` has at least one thread to start and room for all, and at most one producer at a time
grows the pool, which `TaskRunner`'s `OneGrower` provides. The invariant is `Locks` (who can be where, from the
two mutexes), `Phases` (what each `active_state_` implies for the gate, the counter and whoever waits) and
`Handles`: the slots from the join counter to the last one written hold the living threads one to one. The last
is what is not obvious: `number_running_` is incremented after the slot was written, and joined handles stay in
the table. The refinement follows the three states; that a joining loop ends only when no thread is left needs
`Handles`.

**GrpcProofs** (over `MCGrpc`, from `RpcsAssumption`). `DestroyedLeaveNoTag`, `ClientsInOrder` and `FinishedOnce`
hold for any number of calls and messages. For the server: a call that was not accepted is idle or stopped, and a
Finish was given exactly if its tag is out or has come back; `Executed` says what `execute_queue()` may give.
For the client: what is being removed is still owned and has nothing out, the Finish of a started call is out
until the observer is told, and `writes_done`, if given, was given last. Without the middle one `try_close()` could
not be known to wait for the Finish.

**PlannerProofs** (over `MCGenerics`, from `GenericsAssumption`). `GoalsNeverEarly`: `NeverEarly`. The invariant
`PlannerInv` is also the planner's part of `SleepersWillWake`: while the thread goes to sleep or sleeps, its
timeout is not later than the first message or the predicate is set, and once it waits the predicate implies a
signaller. It needs that the schedule stays sorted, by `schedule` (`PlaceFound`, `Emplaced`) and `unschedule`, and
that `Overdue` takes what is due (`OverdueFound`). The places that these operations `CHOOSE` exist because a
non-empty set of numbers has a least one (`LeastNumber`, from the well-foundedness of `<`).

**GenericsProofs.** `NobodyOversleeps`: `SleepersWillWake`, with `PlannerInv`, `RunnerInv` (a stop sets `quit_` for
exactly the tasks that have a thread, and each thread takes its own flag back), `PoolInv` (`waiting_threads_`
tells a producer the truth) and `CacheInv` (who waits waits for a holder). The periodic runner needs
`Discipline`: its tasks are added and cleared only while it is not active. `HeldContentStable`: `ContentStable`,
from `CacheInv`.

Only model-checked, and why:

* all liveness (`CallsReturn`, `WaitReturns`, `WorkProceeds`, `ThreadsStop`, `RequestsServed`, `EndStops`,
  `DeadCallsLeave`, `CallsAnswered`, `StopsReturn`), which is outside the prover's reach as is `ENABLED`;
* what recursive definitions compute: `CodecsExact`, `NumbersExact`, `TerminatedLinesExact`, `BlocksInOrder`,
  `DataKept`, and the sums of `BoundedMap`;
* not proved yet: `ConsistentChildren`, `StopOrder` and the refinement of the composite (a loop over a list whose
  prefix must be related to the children's states), `CountsExact` (but for the queue's part), `CallbackOnce`, `ResourcesAccounted`, `MapStepsRight`, `NobodyForgotten`, `LogKept`.

## Assumptions about use

Some operations may be called in ways, or some things may happen, that break a property. Constants of the
modules switch these on; the passing runs have them off, so that the properties are about the disciplined use,
and this table tells what TLC finds when one of them is switched on.

| Switch | Off means | With it on |
|---|---|---|
| `Reactivation` (TaskRunner) | a runner is activated once | `AssertUnusedPositive` fails (run `task_runner_reactivated`) |
| `ClearWhileWaiting` (TaskRunner) | nobody waits for room when `clear()` is called | `NoProducerForgotten` fails: `clear()` does not signal `not_full_` (`TaskRunner.cpp:39`) |
| `Overlap` (ActiveObjectCommonImpl) | `wait_object()`, `activate_object()` and growth after the stop do not overlap | `HandlesValid` and `ImplementsActiveObject` fail: a handle is joined twice, a thread is left running, or forgotten, in an object that is `AS_NOT_ACTIVE` (`ActiveObject.cpp:238`, `TaskRunner.cpp:243`) |
| `Overlap` (CompositeActiveObject) | no `wait_object()` overlaps an `activate_object()`, in `threads` only | `ImplementsActiveObject` fails: a waiter of one activation ends the deactivation of the next (`ActiveObject.cpp:83`); `ConsistentChildren` holds (`utilities` has it on) |
| `DeactivationMayFail` (CompositeActiveObject) | children do not throw in `deactivate_object()`, in `threads` only | `ImplementsActiveObject` fails: the state goes back to `AS_ACTIVE` with some children stopped (`ActiveObject.cpp:66`); `ConsistentChildren`, which excepts children that have thrown, holds (`utilities` has it on) |
| `ClearWhileWaited` (CompositeActiveObject) | nobody is in `wait_object()` when `clear_children()` is called | `CallsReturn` fails: no broadcast (`CompositeActiveObject.hpp:390`) |
| `AddWhileActive` (Periodic) | tasks are added while the runner is not active | `SleepersWillWake` fails: the stop of a task without a thread stays set for the next activation (`Periodic.cpp:197`) |
| `ClearWhileActive` (Periodic) | `clear()` is called while the runner is not active | `ThreadsStop` fails: the forgotten threads are not told (`Periodic.cpp:343`) |
| `Nested` (FileCache) | a client holds one buffer at a time | `RequestsServed` fails: the manager's mutex is held while a cache waits for a holder that wants the mutex (`FileCache.hpp:966`) |
| `DestroyedEarly` (ProcessControl) | the object is destroyed after its thread has ended or when no request is under way | `CallsAnswered` fails: the request's unit goes to a semaphore that is gone (`ProcessControlImpl.cpp:139`) |
| `RERESOLVE` (ObjectPool) | objects are resolved once | `ReleaseFindsPlace` fails (run `object_pool`) |
| `SameTimes` (FileLogger) | records that rotate have different times | `LogKept` fails: an archive is named by its time and replaces that of the same time (`FileLogger.cpp:185`) |
| `NDEBUG` (FileManager, DataBaseManager) | `assert(semaphore_->add())` is executed, as in every build of the repository (`cmake/SetupEnvironment.cmake:16-19`) | `CallsAnswered` fails: nobody wakes the thread (`FileManager.ipp:256`, `DataBaseManager.ipp:58`) |
| `LargeKeys` (PlainStorage) | a key fits into a block | `DataKept` fails: the exception comes after `first_keys_block_` was replaced |

## Differences between comments and code

Six runs show one each; `PROJECT.json` quotes the lines under `findings`.

* `task_runner_reactivated`: `TaskRunnerJob::started()` has `//number_of_unused_threads_ = threads;` commented out
  (`TaskRunner.cpp:36`), every thread that ends has decremented the counter, and in a second activation a thread
  takes a task with the counter at zero, against the assertion at `TaskRunner.cpp:193`.
* `file_reader`: the tests read until `getline()` fails and expect the file's text. When the last line has no
  delimiter and made `getline(string_view)` grow the buffer, the buffer is not cut, and further calls return an
  empty line and bytes that the file does not have (`FileReader.ipp:309`).
* `object_pool`: `ObjectPool.hpp:1320` is called unreachable; the release of a reference whose object was resolved
  again meanwhile gets there.
* `thread_runner`: "If creation of a thread fails, no jobs will run." (`ThreadRunner.hpp:152-153`). The error path puts a
  unit into the gate to let the created threads end (`ThreadRunner.cpp:213`). If there are none, nobody takes it back,
  and a thread of the next `start()` passes before its group is complete; when the creation of a later one fails, its
  job has run.
* `plain_storage`: `init_value_()` promises a size of zero (`Map.hpp:1178`), but a block that is used again keeps the
  size in its header, and `load_key()` sums the sizes.
* `decimal`: the constructor promises `Overflow` for values that are too big (`Decimal.hpp:120`); where the point lies
  in the last element, the top is not compared.

Others, met while reading and modelled as the code has them, with no run of their own:

* `TaskRunner.hpp:86` says "NULL timeout means no wait."; `timed_wait(NULL)` is an untimed wait
  (`TaskRunner.cpp:80`). Producers outside `TimedProducers` wait for ever.
* `TaskRunner.hpp:69` says of the initial number of threads "(0 - all)"; the constructor takes
  `std::max(start_threads, 1u)` (`TaskRunner.cpp:284`), so 0 starts one. The run uses 0.
* `Periodic.hpp:72` says "Notifies to break the main cycle"; a notification that comes before the wait is
  noticed only when the rest of the period is over (`Periodic.cpp:101`).
* `CompositeActiveObject.hpp:71-72` says that the children are active or not together with the composite; when a child
  throws in `deactivate_object()`, the others may have been stopped and the state goes back to `AS_ACTIVE`
  (`ActiveObject.cpp:66`). `thrown` is the exception in `ConsistentChildren`.
* A thread that a producer creates behind the loop of `wait_for_completion()` is not joined (`TaskRunner.cpp:243`).
* "Logic error... Client is null" (`ClientPoolCoro.hpp:515`) is reached by a client that ends before the coroutine
  that created it has put it into the pool. The place is filled again all the same (`PoolKeepsSize`).
* A submit that fails calls back and leaves its entry in the ring, with user data that is freed
  (`FileManager.ipp:566-593`); `multi_get` with lists of different lengths calls back and queues the operation
  (`DataBaseManager.ipp:550-580`), which calls back again.
* `save_()` of the storage's index counts a header in the size of its block (line 109 of
  `DefaultSyncIndexStrategy.tpp`) before it stores the header (lines 111-118). If the process ends between, the map
  takes up what the place has had before, be it an erased key.
* `FileCache.hpp:301` promises new content after the wait; a woken `get()` that finds the buffer lent again
  lends the old content (`FileCache.hpp:904`), and a change whose `update()` failed is not reported again
  (`FileCache.hpp:669`).
* `BoundedMap.hpp:29` relates removals to insertions; `statistics(true)` resets the counters while the items
  stay (`BoundedMap.hpp:1416`), so it holds between resets. The queue is ordered by the order of the calls, not of
  the times, which are read before the lock (`BoundedMap.hpp:1046`).
* Decimal: `DMR_CEIL` judges by one element of what is cut off; `+=`, `-=` and `ceil` store before they throw
  `Overflow`; with one digit behind the point the text "5." is read as 0.5 (`CommonDecimal.hpp:319`).
* Texts: `is_correct_utf8_sequence` looks at `src[3]` but not at `src[2]` of four bytes (`UTF8Handler.hpp:159`);
  `js_unicode_decode` takes U+D700 to U+D7FF for high surrogates, appends to its result without clearing it, and of
  a text that ends within an escape reads one character past the end (`size - i >= 5`, `StringManip.cpp:1186-1193`);
  Base64 counts blanks it has skipped as if they were of the padded group.

## Not modelled

Inside the modelled parts: the destructors that stop an object that was not stopped; `set_period`;
`RemovableActiveObject` and the set-ordered composite; the eviction of caches from the manager's map, the delayed
check and `FileAccessCache`; the counters `insert_existing`, `not_inserted` and `replaced` of `BoundedMap`;
`wait_for_queue_exhausting`, which polls and changes nothing; HTTP policies that limit requests or throw, failing
writes to the pipes of its signal queues (the end that is written blocks, and the queue owns both ends) and the loop
of a connection that goes on reading after it has closed itself (`HttpAsyncPoolInternals.ipp:143-151`); the start of the gRPC server and its coroutine services, channel states; `QueueGranular`; the pool over
`FileManager`; `erase` in `PlainStorage` never gives data blocks back, and is modelled so, but the end of the
process while an empty file gets its head and writers kept over `close()` are left out, as is `insert(ValueType)`,
which cannot be instantiated; floating-point conversions, `narrow_decimal`, streams and hashes of decimals;
`flatten`, `mark`, `Translit` and the copies of C strings. Exceptions of the pthread wrappers themselves (a failing
`pthread_mutex_lock`) are left out everywhere.

Whole parts, with the reason for each in `PROJECT.json`: wrappers of pthread calls (a critical section is an
atomic action here), adapters of ACE/TAO, userver, NetSNMP, XML and compression libraries, whose behaviour is
not in the repository, hashes, times and random numbers, tables of Unicode (a quarter of all lines) and
command-line tools.
