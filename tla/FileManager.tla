---------------------------- MODULE FileManager ----------------------------
(***************************************************************************)
(* FileManager (src/UServerUtils/FileManager/FileManager.ipp): reads and   *)
(* writes are put into an event queue and counted in an eventfd semaphore; *)
(* one thread moves them from the queue to an io_uring, learning of new    *)
(* ones by a read of the semaphore that it keeps in the same ring, and     *)
(* calls their callbacks.  A synchronous call waits for its callback.      *)
(*                                                                         *)
(* The queue is the abstract one of QueueAtomic.  The ring, a kernel       *)
(* interface, is modelled from its use: an entry stays in the submission   *)
(* ring until a submit succeeds, which takes all that are there; the       *)
(* kernel completes entries in any order.  The code frees the user data of *)
(* an entry whose submit has failed and leaves the entry in the ring: when *)
(* a later submit takes it along and the kernel completes it, run() works  *)
(* with freed memory, and nothing is known of the thread from then on.     *)
(***************************************************************************)
EXTENDS Integers, Sequences, FiniteSets

CONSTANTS
    FileOps,                    \* the reads and writes of the run
    EventMax,                   \* event_queue_max_size
    SqSize, CqSize,             \* places of the two rings
    SubmitMayFail,              \* io_uring_submit() may return an error
    NDEBUG                      \* assert() is compiled to nothing

WordSize == 65536               \* for 2^32: more than any count of a run
Word(x) == x % WordSize
SemaphoreRead == "semaphore"
Close == "close"

VARIABLES
    asked,                      \* asked[o]: where the call for o is
    event_queue_, semaphore_,
    sq,                         \* entries that failed submits have left in the ring
    kernel,                     \* entries the kernel has
    stale,                      \* those of them whose user data is freed
    called,                     \* called[o]: how often the callback was called
    loop,                       \* where the thread is in run()
    is_stopped, is_semaphore_set, number_remain_operaions,
    destructor

fileVars == <<asked, event_queue_, semaphore_, sq, kernel, stale, called, loop,
              is_stopped, is_semaphore_set, number_remain_operaions, destructor>>
ring == <<sq, kernel, stale>>
flags == <<is_stopped, is_semaphore_set, number_remain_operaions>>

\* The constructor has put a semaphore read into the ring and started run().
FileInit ==
    /\ asked = [o \in FileOps |-> "no"]
    /\ event_queue_ = << >> /\ semaphore_ = 0
    /\ sq = << >> /\ kernel = {SemaphoreRead} /\ stale = << >>
    /\ called = [o \in FileOps |-> 0]
    /\ loop = [at |-> "top", count |-> 0]
    /\ is_stopped = FALSE /\ is_semaphore_set = TRUE /\ number_remain_operaions = 0
    /\ destructor = "no"

Callback(o) == called' = [called EXCEPT ![o] = @ + 1]

-----------------------------------------------------------------------------
(* The callers. *)

\* After the refusal the event is queued all the same.
MutAddEvent(o) ==
    /\ asked[o] = "no" /\ destructor = "no"
    /\ IF Len(event_queue_) > EventMax THEN Callback(o) ELSE UNCHANGED called
    /\ event_queue_' = Append(event_queue_, o)
    /\ asked' = [asked EXCEPT ![o] = "queued"]
    /\ UNCHANGED <<semaphore_, ring, loop, flags, destructor>>

\* write(), read(): a full queue cancels the operation at once.
AddEvent(o) ==
    /\ asked[o] = "no" /\ destructor = "no"
    /\ \/ /\ Len(event_queue_) > EventMax
          /\ Callback(o)
          /\ asked' = [asked EXCEPT ![o] = "refused"]
          /\ UNCHANGED event_queue_
       \/ /\ Len(event_queue_) <= EventMax
          /\ event_queue_' = Append(event_queue_, o)
          /\ asked' = [asked EXCEPT ![o] = "queued"]
          /\ UNCHANGED called
    /\ UNCHANGED <<semaphore_, ring, loop, flags, destructor>>

\* assert(semaphore_->add()), which adds nothing where assertions are off.
AssertedAdd == IF NDEBUG THEN semaphore_ ELSE semaphore_ + 1

\* The second half of add_event_to_queue(), after the event is in the queue.
SemaphoreAdd(o) ==
    /\ asked[o] = "queued"
    /\ semaphore_' = AssertedAdd
    /\ asked' = [asked EXCEPT ![o] = "added"]
    /\ UNCHANGED <<event_queue_, ring, called, loop, flags, destructor>>

\* The destructor, when no call is under way: it tries until the queue takes
\* its event, adds to the semaphore, which comes to count, and joins the thread.
DestroyAdding(count) ==
    /\ \A o \in FileOps : asked[o] # "queued"
    /\ \/ /\ destructor = "no" /\ Len(event_queue_) <= EventMax
          /\ event_queue_' = Append(event_queue_, Close)
          /\ destructor' = "queued"
          /\ UNCHANGED semaphore_
       \/ /\ destructor = "queued"
          /\ semaphore_' = count
          /\ destructor' = "join"
          /\ UNCHANGED event_queue_
       \/ /\ destructor = "join" /\ loop.at = "end"
          /\ destructor' = "done"
          /\ UNCHANGED <<event_queue_, semaphore_>>
    /\ UNCHANGED <<asked, ring, called, loop, flags>>

Destroy == DestroyAdding(semaphore_ + 1)

-----------------------------------------------------------------------------
(* The thread. *)

\* io_uring_submit() with entry e added to those that are left there.
Submitted(e) == sq' = << >> /\ kernel' = kernel \cup {e} /\ stale' = stale \o sq

\* It fails: the user data of e is freed, e stays.
SubmitFailed(e) == SubmitMayFail /\ sq' = Append(sq, e) /\ UNCHANGED <<kernel, stale>>

\* The top of the loop, with create_semaphore_event().
RunTop ==
    /\ loop.at = "top"
    /\ \/ /\ is_stopped /\ number_remain_operaions = 0
          /\ loop' = [loop EXCEPT !.at = "end"]
          /\ UNCHANGED <<is_semaphore_set, ring>>
       \/ /\ ~(is_stopped /\ number_remain_operaions = 0)
          /\ loop' = [loop EXCEPT !.at = "wait"]
          /\ \/ is_semaphore_set /\ UNCHANGED <<is_semaphore_set, ring>>
             \/ /\ ~is_semaphore_set /\ Len(sq) < SqSize
                /\ Submitted(SemaphoreRead)
                /\ is_semaphore_set' = TRUE
             \/ /\ ~is_semaphore_set /\ Len(sq) < SqSize
                /\ SubmitFailed(SemaphoreRead)
                /\ UNCHANGED is_semaphore_set
             \/ /\ ~is_semaphore_set /\ Len(sq) = SqSize
                /\ UNCHANGED <<is_semaphore_set, ring>>
    /\ UNCHANGED <<asked, event_queue_, semaphore_, called, is_stopped,
                   number_remain_operaions, destructor>>

\* A read or a write has been completed.
OperationReady(o) ==
    /\ loop.at = "wait" /\ o \in kernel
    /\ kernel' = kernel \ {o}
    /\ number_remain_operaions' = number_remain_operaions - 1
    /\ Callback(o)
    /\ loop' = [loop EXCEPT !.at = "top"]
    /\ UNCHANGED <<asked, event_queue_, semaphore_, sq, stale, is_stopped, is_semaphore_set,
                   destructor>>

\* An entry is completed whose user data is freed.
StaleReady(i) ==
    /\ loop.at = "wait" /\ i \in DOMAIN stale
    /\ \/ stale[i] # SemaphoreRead /\ UNCHANGED semaphore_
       \/ stale[i] = SemaphoreRead /\ semaphore_ > 0 /\ semaphore_' = semaphore_ - 1
    /\ stale' = [j \in 1 .. Len(stale) - 1 |-> stale[IF j < i THEN j ELSE j + 1]]
    /\ loop' = [loop EXCEPT !.at = "undefined"]
    /\ UNCHANGED <<asked, event_queue_, sq, kernel, called, flags, destructor>>

\* The kernel has read a unit of the semaphore; on_semaphore_ready() takes as
\* many more as the rings have places for, in unsigned arithmetic.
TakeLimit ==
    LET sq_limit == Word(SqSize - Len(sq) - 1)
        cq_limit == Word(CqSize - number_remain_operaions - 1)
    IN  IF sq_limit < cq_limit THEN sq_limit ELSE cq_limit

\* The unit that woke the thread is not counted with those it takes after it.
MutSemaphoreReady ==
    /\ loop.at = "wait" /\ SemaphoreRead \in kernel /\ semaphore_ > 0
    /\ kernel' = kernel \ {SemaphoreRead}
    /\ is_semaphore_set' = FALSE
    /\ LET more == IF semaphore_ < TakeLimit THEN semaphore_ ELSE TakeLimit
       IN  /\ semaphore_' = semaphore_ - more
           /\ loop' = [at |-> "drain", count |-> 1 + more]
    /\ UNCHANGED <<asked, event_queue_, sq, stale, called, is_stopped, number_remain_operaions,
                   destructor>>

SemaphoreReady ==
    /\ loop.at = "wait" /\ SemaphoreRead \in kernel /\ semaphore_ > 0
    /\ kernel' = kernel \ {SemaphoreRead}
    /\ is_semaphore_set' = FALSE
    /\ LET more == IF semaphore_ - 1 < TakeLimit THEN semaphore_ - 1 ELSE TakeLimit
       IN  /\ semaphore_' = semaphore_ - 1 - more
           /\ loop' = [at |-> "drain", count |-> 1 + more]
    /\ UNCHANGED <<asked, event_queue_, sq, stale, called, is_stopped, number_remain_operaions,
                   destructor>>

\* One turn of the inner loop of on_semaphore_ready() that finds an event.
Drain ==
    /\ loop.at = "drain" /\ event_queue_ # << >>
    /\ loop' = [at |-> IF loop.count = 1 THEN "top" ELSE "drain", count |-> loop.count - 1]
    /\ event_queue_' = Tail(event_queue_)
    /\ LET event == Head(event_queue_)
       IN  \/ /\ event = Close
              /\ is_stopped' = TRUE
              /\ UNCHANGED <<ring, called, number_remain_operaions>>
           \/ /\ event # Close /\ Len(sq) < SqSize
              /\ Submitted(event)
              /\ number_remain_operaions' = number_remain_operaions + 1
              /\ UNCHANGED <<called, is_stopped>>
           \/ /\ event # Close
              /\ \/ Len(sq) = SqSize /\ UNCHANGED ring
                 \/ Len(sq) < SqSize /\ SubmitFailed(event)
              /\ Callback(event)
              /\ UNCHANGED <<is_stopped, number_remain_operaions>>
    /\ UNCHANGED <<asked, semaphore_, is_semaphore_set, destructor>>

FileNext ==
    \/ \E o \in FileOps : AddEvent(o) \/ SemaphoreAdd(o) \/ OperationReady(o)
    \/ \E i \in 1 .. SqSize : StaleReady(i)
    \/ Destroy \/ RunTop \/ SemaphoreReady \/ Drain

-----------------------------------------------------------------------------
\* Unless run() has met freed user data: a callback is called once at most,
\* or twice for the operations that multi_get() has answered before (twice),
\* and for the last time not while the kernel has the operation from a submit
\* that succeeded, since the buffer is the caller's again after it; when the
\* thread ends, and with it the destructor, every operation asked for has had
\* its callback.  The entry of an operation whose submit has failed stays in
\* the ring after the callback (FileManager.ipp:566-593).
CallbackOnce(twice) ==
    LET Answers(o) == IF o \in twice THEN 2 ELSE 1
    IN  loop.at # "undefined" =>
            /\ \A o \in FileOps :
                   called[o] <= Answers(o) /\ (called[o] = Answers(o) => o \notin kernel)
            /\ loop.at = "end" => \A o \in FileOps : asked[o] # "no" => called[o] = Answers(o)

\* Unless run() has met freed user data: every event in the queue is announced
\* by a unit of the semaphore that the thread has or will read, or by a caller
\* about to add it, and no unit is without its event, so that run() never spins
\* in on_semaphore_ready() for one that nobody sends.
UnitPerEvent ==
    loop.at # "undefined" =>
        Len(event_queue_) =
            semaphore_ + loop.count + Cardinality({o \in FileOps : asked[o] = "queued"})
            + (IF destructor = "queued" THEN 1 ELSE 0)
=============================================================================
