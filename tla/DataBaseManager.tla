-------------------------- MODULE DataBaseManager --------------------------
(***************************************************************************)
(* RocksDB::DataBaseManager (src/UServerUtils/RocksDB/                     *)
(* DataBaseManager.ipp): the same event queue, semaphore and loop as in    *)
(* FileManager, written again for RocksDB requests.  A request is a        *)
(* coroutine which the thread starts and resumes: it goes to the end at    *)
(* once, or waits for a file page that the ring reads for it, once or more *)
(* often.  RocksDB's asynchronous calls are external.                      *)
(***************************************************************************)
EXTENDS FileManager

CONSTANT Mismatched             \* multi_get() may get two lists of different length

VARIABLE mismatched             \* the operations that have got them

\* The queue, the semaphore and the thread start as in FileManager.
DbInit == FileInit /\ mismatched = {}

\* get(), put(), erase(), multi_get(), with set_error() for a full queue.
DbAddEvent(o) == AddEvent(o) /\ UNCHANGED mismatched
DbSemaphoreAdd(o) == SemaphoreAdd(o) /\ UNCHANGED mismatched

\* multi_get() with lists of different length answers, and goes on all the same.
MultiGetMismatched(o) ==
    /\ Mismatched
    /\ asked[o] = "no" /\ destructor = "no"
    /\ mismatched' = mismatched \cup {o}
    /\ \/ /\ Len(event_queue_) > EventMax
          /\ called' = [called EXCEPT ![o] = @ + 2]
          /\ asked' = [asked EXCEPT ![o] = "refused"]
          /\ UNCHANGED event_queue_
       \/ /\ Len(event_queue_) <= EventMax
          /\ Callback(o)
          /\ event_queue_' = Append(event_queue_, o)
          /\ asked' = [asked EXCEPT ![o] = "queued"]
    /\ UNCHANGED <<semaphore_, ring, loop, flags, destructor>>

\* The unit of the destructor is added within an assertion, too.
DbDestroy == DestroyAdding(AssertedAdd) /\ UNCHANGED mismatched
DbRunTop == RunTop /\ UNCHANGED mismatched
DbSemaphoreReady == SemaphoreReady /\ UNCHANGED mismatched

\* The operation counts when it waits, not while it runs.
MutWork(o, remain) ==
    \/ /\ Callback(o)
       /\ number_remain_operaions' = remain - 1
       /\ kernel' = kernel \ {o}
    \/ /\ kernel' = kernel \cup {o}
       /\ number_remain_operaions' = 0
       /\ UNCHANGED called

\* do_async_work() for o from where it is: to the end, with the callback and
\* one operation less, or to its next page.
Work(o, remain) ==
    \/ /\ Callback(o)
       /\ number_remain_operaions' = remain - 1
       /\ kernel' = kernel \ {o}
    \/ /\ kernel' = kernel \cup {o}
       /\ number_remain_operaions' = remain
       /\ UNCHANGED called

DbDrain ==
    /\ loop.at = "drain" /\ event_queue_ # << >>
    /\ loop' = [at |-> IF loop.count = 1 THEN "top" ELSE "drain", count |-> loop.count - 1]
    /\ event_queue_' = Tail(event_queue_)
    /\ \/ /\ Head(event_queue_) = Close
          /\ is_stopped' = TRUE
          /\ UNCHANGED <<kernel, called, number_remain_operaions>>
       \/ /\ Head(event_queue_) # Close
          /\ Work(Head(event_queue_), number_remain_operaions + 1)
          /\ UNCHANGED is_stopped
    /\ UNCHANGED <<asked, semaphore_, sq, stale, is_semaphore_set, destructor, mismatched>>

\* A page is there: the coroutine is resumed.
Resume(o) ==
    /\ loop.at = "wait" /\ o \in kernel
    /\ Work(o, number_remain_operaions)
    /\ loop' = [loop EXCEPT !.at = "top"]
    /\ UNCHANGED <<asked, event_queue_, semaphore_, sq, stale, is_stopped, is_semaphore_set,
                   destructor, mismatched>>

DbNext ==
    \/ \E o \in FileOps : DbAddEvent(o) \/ MultiGetMismatched(o) \/ DbSemaphoreAdd(o) \/ Resume(o)
    \/ DbDestroy \/ DbRunTop \/ DbSemaphoreReady \/ DbDrain
=============================================================================
