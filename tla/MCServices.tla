----------------------------- MODULE MCServices -----------------------------
(***************************************************************************)
(* The semaphore and components that work with threads of their own.  They *)
(* share no state: a behaviour is one of the component chosen at its       *)
(* start, the others rest in an initial state.                             *)
(* The two managers of operations have the same variables.                 *)
(***************************************************************************)
EXTENDS Semaphore, QueueAtomic

CONSTANTS
    t1, t2, t3,                             \* Semaphore
    p1, p2, n1, n2, n3,                     \* QueueAtomic
    o1, o2, o3, o4,
    SqSize, CqSize,                         \* FileManager
    NConnections, NThreads, CONNECTIONS_PER_SERVER, CONNECTIONS_PER_THREADS

VARIABLES
    component,
    asked, event_queue_, semaphore_, sq, kernel, stale, called, loop, is_stopped,
    is_semaphore_set, number_remain_operaions, destructor, mismatched,
    shutdown_, sem_, job, orb, caller, destroyed,
    closure_delay_, active_, server_, server, conn, thread, entity, user, told, pool_lock,
    pool_mutex, jobs, stopper

\* A semaphore that is constructed with a negative count passes through every
\* count from there to MaxCount.
MCThreads == {t1, t2, t3}
MCInitCount == -1

\* No build of the repository defines NDEBUG (cmake/SetupEnvironment.cmake:16-19).
FM == INSTANCE FileManager WITH
        FileOps <- {o1, o2, o3, o4}, EventMax <- 1, SubmitMayFail <- FALSE, NDEBUG <- FALSE

FF == INSTANCE FileManager WITH
        FileOps <- {o1, o2, o3}, EventMax <- 1, SubmitMayFail <- TRUE, NDEBUG <- FALSE

DB == INSTANCE DataBaseManager WITH
        FileOps <- {o1, o2, o3, o4}, EventMax <- 1, SubmitMayFail <- FALSE, NDEBUG <- FALSE, Mismatched <- FALSE

DM == INSTANCE DataBaseManager WITH
        FileOps <- {o1, o2, o3}, EventMax <- 1, SubmitMayFail <- FALSE, NDEBUG <- FALSE, Mismatched <- TRUE

PC == INSTANCE ProcessControl WITH
        Callers <- 1 .. 3, DestroyedEarly <- FALSE

\* A pool that makes a second server while it is being stopped.
HP == INSTANCE HttpAsyncPool WITH
        Requests <- 1 .. 2, SendMayFail <- TRUE, NServers <- 2

\* One of which fairness is assumed, with one server.
HF == INSTANCE HttpAsyncPool WITH
        Requests <- 1 .. 2, SendMayFail <- TRUE, NServers <- 1

fmVars == <<asked, event_queue_, semaphore_, sq, kernel, stale, called, loop, is_stopped,
            is_semaphore_set, number_remain_operaions, destructor>>
managerVars == <<fmVars, mismatched>>
pcVars == <<shutdown_, sem_, job, orb, caller, destroyed>>
hpVars == <<closure_delay_, active_, server_, server, conn, thread, entity, user, told, pool_lock,
            pool_mutex, jobs, stopper>>

all == <<component, semaphoreVars, queueVars, managerVars, pcVars, hpVars>>

On(name_) == component = name_

ServicesInit ==
    /\ component \in {"Semaphore", "QueueAtomic", "FileManager", "FileManagerFailing", "DataBaseManager", "DataBaseMismatched", "ProcessControl",
        "HttpAsyncPool", "HttpAsyncPoolFair"}
    /\ IF On("ProcessControl") THEN TRUE ELSE shutdown_ = FALSE
    /\ IF On("HttpAsyncPoolFair") THEN TRUE ELSE closure_delay_ = FALSE
    /\ SemaphoreInit /\ QueueInit /\ DB!DbInit /\ PC!ControlInit /\ HP!HttpInit

ServicesNext ==
    /\ UNCHANGED component
    /\ \/ /\ On("Semaphore") /\ SemaphoreNext
          /\ UNCHANGED <<queueVars, managerVars, pcVars, hpVars>>
       \/ /\ On("QueueAtomic") /\ QueueNext
          /\ UNCHANGED <<semaphoreVars, managerVars, pcVars, hpVars>>
       \/ /\ On("FileManager") /\ FM!FileNext
          /\ UNCHANGED <<semaphoreVars, queueVars, mismatched, pcVars, hpVars>>
       \/ /\ On("FileManagerFailing") /\ FF!FileNext
          /\ UNCHANGED <<semaphoreVars, queueVars, mismatched, pcVars, hpVars>>
       \/ /\ On("DataBaseManager") /\ DB!DbNext
          /\ UNCHANGED <<semaphoreVars, queueVars, pcVars, hpVars>>
       \/ /\ On("DataBaseMismatched") /\ DM!DbNext
          /\ UNCHANGED <<semaphoreVars, queueVars, pcVars, hpVars>>
       \/ /\ On("ProcessControl") /\ PC!ControlNext
          /\ UNCHANGED <<semaphoreVars, queueVars, managerVars, hpVars>>
       \/ /\ On("HttpAsyncPool") /\ HP!HttpNext
          /\ UNCHANGED <<semaphoreVars, queueVars, managerVars, pcVars>>
       \/ /\ On("HttpAsyncPoolFair") /\ HF!HttpNext
          /\ UNCHANGED <<semaphoreVars, queueVars, managerVars, pcVars>>

Managing == On("FileManager") \/ On("DataBaseManager")

(* Threads run; the kernel, the disk and the network complete what they    *)
(* have.  Calls are finitely many, so fairness to all of a kind together   *)
(* is fairness to each.  Nobody need call, and no fairness is assumed of   *)
(* the managers with a failing submit or mismatched lists.                 *)
ServicesSpec ==
    /\ ServicesInit /\ [][ServicesNext]_all
    /\ WokenResume
    /\ WF_queueVars(On("QueueAtomic") /\ \E p \in Producers : Produce(p))
    /\ WF_queueVars(On("QueueAtomic") /\ (Consume \/ StartPop(FALSE)))
    /\ WF_fmVars(Managing /\ \E o \in {o1, o2, o3, o4} : FM!SemaphoreAdd(o))
    /\ SF_fmVars(\E o \in {o1, o2, o3, o4} :
                   \/ On("FileManager") /\ FM!OperationReady(o)
                   \/ On("DataBaseManager") /\ DB!Resume(o) /\ called' # called)
    /\ SF_fmVars(Managing /\ FM!SemaphoreReady)
    /\ WF_fmVars(\/ Managing /\ FM!RunTop
                 \/ On("FileManager") /\ FM!Drain
                 \/ On("DataBaseManager") /\ DB!DbDrain)
    /\ WF_fmVars(Managing /\ destructor # "no" /\ FM!Destroy)
    /\ WF_pcVars(On("ProcessControl") /\ PC!JobWork)
    /\ WF_pcVars(On("ProcessControl") /\ \E c \in 1 .. 3 : PC!Woken(c) \/ PC!ShutDown(c))
    /\ \A t \in HF!EventThreads : WF_hpVars(On("HttpAsyncPoolFair") /\ HF!EventStep(t))
    /\ WF_hpVars(/\ On("HttpAsyncPoolFair")
                 /\ HF!OtherStep \/ \E c \in HF!Connections : HF!Destroyed(c))

-----------------------------------------------------------------------------
(* What is counted is what there is.  The counter of a QueueAtomic is the  *)
(* number of its elements but for the calls that have not counted yet, and *)
(* a node is freed only when nobody will write to it any more.  Every      *)
(* event of a manager's queue has a unit of the semaphore that its thread  *)
(* has or will read, and no unit is without its event, also when a submit  *)
(* fails.  What the policies of the HTTP pool count for a connection or an *)
(* event thread is what was given to it and not taken back, and no         *)
(* connection is handed to an event thread that has left its loop.         *)
CountsExact ==
    /\ NoLinkToFreedNode /\ CounterExact
    /\ FM!UnitPerEvent
    /\ HP!CountExact /\ HP!NobodyStranded

(* A callback is called once.  Of an operation of a file or of the data    *)
(* base it is called when the kernel has the operation no more, and has    *)
(* been called when the manager has stopped; also when submits fail, but   *)
(* then the entry of the failed submit stays in the ring, and nothing is   *)
(* claimed once the kernel has completed it.  A multi_get() with lists of  *)
(* different length is answered twice: at once, since the lists differ,    *)
(* and again by the queue.  Of a request of the HTTP pool it is called     *)
(* unless add_request_() has thrown.                                       *)
CallbackOnce ==
    /\ FM!CallbackOnce(mismatched)
    /\ HP!CallbackAtMostOnce

Asked ==
    CASE On("Semaphore") -> count_ > 0 /\ waiting # {}
      [] On("QueueAtomic") -> n1 \in Nodes_(fifo)
      [] On("ProcessControl") -> caller[1].at # "none"
      [] On("HttpAsyncPoolFair") -> user[1].at = "added"
      [] OTHER -> Managing /\ asked[o1] = "queued"

Answered ==
    CASE On("Semaphore") -> count_ <= 0 \/ waiting = {}
      [] On("QueueAtomic") -> n1 \in Nodes_(taken)
      [] On("ProcessControl") -> ~orb
      [] On("HttpAsyncPoolFair") -> told[1] = 1
      [] OTHER -> called[o1] = 1

(* What has been asked for comes: units of the semaphore do not stay       *)
(* beside blocked threads, an element is popped, an operation of a file or *)
(* of the data base is called back, a request of the HTTP pool is told,    *)
(* and the ORB is shut down whatever other requests do to the flag.        *)
(* Elements, operations, requests and callers are interchangeable, so the  *)
(* formula is about the first of each.                                     *)
CallsAnswered == Asked ~> Answered

Stopping ==
    \/ Managing /\ destructor = "queued"
    \/ On("HttpAsyncPoolFair") /\ stopper.at = "loop"
    \/ \E c \in 1 .. 3 : caller[c].at # "none"

Stopped == destructor = "done" \/ stopper.at = "done" \/ job = "ended"

(* The destructor of a manager, deactivate_object() of the HTTP pool and,  *)
(* when the process has been asked to shut down, wait() of its control     *)
(* return.                                                                 *)
StopsReturn == Stopping ~> Stopped
=============================================================================
