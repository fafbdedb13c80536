---------------------------- MODULE MCUtilities ----------------------------
(***************************************************************************)
(* Components that share no state and are checked for safety: a behaviour  *)
(* is one of the component chosen at its start, the others rest in an      *)
(* initial state.                                                          *)
(***************************************************************************)
EXTENDS Integers, Sequences, FiniteSets, TLC

CONSTANTS
    t1, t2, t3, k1, k2, k3, x1, x2,
    MaxInserts,                             \* BoundedMap
    UseMax, Policies, RERESOLVE, MaxResolves, MaxCount,\* ObjectPool
    NRecords, Times, SameTimes, RotationSize, RotationTime, Day, StartTime, MaxFailures, MaxRemovals,
    MaxFile, MaxBuffer, Overloads,          \* FileReader
    number_async_client, MaxClients         \* ClientPoolCoro

VARIABLES
    component,
    bound_, size_, container_, queue_, stat_, clock, now,
    SYNCHRONOUS_, state_, child_objects_, lock, child, busy, pc, list, it, error, thrown,
    policy, object_once, all_bad_no_wait, object, resolve, is_bad, use_count, give_once,
    last_object_, obj_lock, user, resolved,
    log_policy, time, files, current, archives, outfile_, log_time_, log_create_time_, border_time_,
    last_create_time_, call, record, returned, discarded, failures, removals, unrenamed,
    file, broken, overload, reader, lines, rest,
    at, queue, requests_, promise, sent, is_stopped_,
    pool_clients, id_to_index, born, ended, task, holds, made,
    blocks, log, map, expected, doubt, torn, revived, crashes

BM == INSTANCE BoundedMap WITH
        Threads <- {t1, t2}, Keys <- {k1, k2, k3}, Sizes <- {1, 2}, Bounds <- {1, 2}, timeout_ <- 1,
        MaxTime <- 2

CO == INSTANCE CompositeActiveObject WITH
        Callers <- {t1, t2}, Children <- {x1, x2}, ActivationMayFail <- TRUE,
        DeactivationMayFail <- TRUE, ClearWhileWaited <- TRUE, Overlap <- TRUE

OP == INSTANCE ObjectPool WITH
        Users <- {t1, t2, t3}, Size <- 2

FL == INSTANCE FileLogger

FR == INSTANCE FileReader WITH
        Chars <- {x1, x2}

CC == INSTANCE ClientCoro WITH
        Writers <- 1 .. 3

CP == INSTANCE ClientPoolCoro

PS == INSTANCE PlainStorage WITH
        file <- blocks,
        NKeys <- 2, LargeKeys <- {}, Lengths <- {3}, BlockSize <- 2, ALLOCATE_PORTION <- 1,
        MaxBlocks <- 8, MaxCrashes <- 2

\* Blocks for one key or one unit of data, and data that becomes shorter.
PB == INSTANCE PlainStorage WITH
        file <- blocks,
        NKeys <- 2, LargeKeys <- {}, Lengths <- {1, 2}, BlockSize <- 1, ALLOCATE_PORTION <- 1,
        MaxBlocks <- 8, MaxCrashes <- 1

bmVars == <<bound_, size_, container_, queue_, stat_, clock, now>>
coVars == <<SYNCHRONOUS_, state_, child_objects_, lock, child, busy, pc, list, it, error, thrown>>
opVars == <<policy, object_once, all_bad_no_wait, object, resolve, is_bad, use_count, give_once,
            last_object_, obj_lock, user, resolved>>
flVars == <<log_policy, time, files, current, archives, outfile_, log_time_, log_create_time_,
            border_time_, last_create_time_, call, record, returned, discarded, failures, removals,
            unrenamed>>
frVars == <<file, broken, overload, reader, lines, rest>>
ccVars == <<at, queue, requests_, promise, sent, is_stopped_>>
cpVars == <<pool_clients, id_to_index, born, ended, task, holds, made>>
psVars == <<blocks, log, map, expected, doubt, torn, revived, crashes>>

all == <<component, bmVars, coVars, opVars, flVars, frVars, ccVars, cpVars, psVars>>

On(name_) == component = name_

Init ==
    /\ component \in {"BoundedMap", "CompositeActiveObject", "ObjectPool", "FileLogger",
        "FileReader", "ClientCoro", "ClientPoolCoro", "PlainStorage", "PlainStorageShort"}
    /\ IF On("BoundedMap") THEN TRUE ELSE bound_ = 2
    /\ IF On("CompositeActiveObject") THEN TRUE ELSE SYNCHRONOUS_ = TRUE /\ child = [x \in {x1, x2} |-> "AS_NOT_ACTIVE"]
    /\ IF On("ObjectPool") THEN TRUE ELSE policy = "loop" /\ object_once = TRUE /\ all_bad_no_wait = TRUE
    /\ IF On("FileLogger") THEN TRUE ELSE log_policy = "size" /\ time = [r \in 0 .. NRecords |-> r + 4] /\ files = << << >> >>
    /\ IF On("FileReader") THEN TRUE ELSE file = << >> /\ broken = 0 /\ overload = "view" /\ reader = [buffer |-> FR!WithSentinel(FR!Zeros(1), 1), size |-> 1, position |-> 1, state |-> "good", file_state |-> "good", file_position |-> 0]
    /\ BM!Init /\ CO!Init /\ OP!ObjectInit /\ FL!LogInit /\ FR!ReaderInit
    /\ CC!CoroInit /\ CP!PoolInit
    /\ IF On("PlainStorageShort") THEN PB!StorageInit ELSE PS!StorageInit

Next ==
    /\ UNCHANGED component
    /\ \/ /\ On("BoundedMap") /\ BM!Next
          /\ UNCHANGED <<coVars, opVars, flVars, frVars, ccVars, cpVars, psVars>>
       \/ /\ On("CompositeActiveObject") /\ CO!Next
          /\ UNCHANGED <<bmVars, opVars, flVars, frVars, ccVars, cpVars, psVars>>
       \/ /\ On("ObjectPool") /\ OP!ObjectNext
          /\ UNCHANGED <<bmVars, coVars, flVars, frVars, ccVars, cpVars, psVars>>
       \/ /\ On("FileLogger") /\ FL!LogNext
          /\ UNCHANGED <<bmVars, coVars, opVars, frVars, ccVars, cpVars, psVars>>
       \/ /\ On("FileReader") /\ FR!ReaderNext
          /\ UNCHANGED <<bmVars, coVars, opVars, flVars, ccVars, cpVars, psVars>>
       \/ /\ On("ClientCoro") /\ CC!CoroNext
          /\ UNCHANGED <<bmVars, coVars, opVars, flVars, frVars, cpVars, psVars>>
       \/ /\ On("ClientPoolCoro") /\ CP!PoolNext
          /\ UNCHANGED <<bmVars, coVars, opVars, flVars, frVars, ccVars, psVars>>
       \/ /\ \/ On("PlainStorage") /\ PS!StorageNext
             \/ On("PlainStorageShort") /\ PB!StorageNext
          /\ UNCHANGED <<bmVars, coVars, opVars, flVars, frVars, ccVars, cpVars>>

Spec == Init /\ [][Next]_all

\* The keys of the bounded map; two of the threads.
Alike == Permutations({k1, k2, k3}) \union Permutations({t1, t2})

-----------------------------------------------------------------------------
(* What is recorded is what there is: the container, the queue and the     *)
(* size of a bounded map agree; no object of a pool is in use by more      *)
(* threads than its reference allows, and the place of every handler given *)
(* out is found at its release; the map of a client pool gives the place   *)
(* of every client, and every place holds one or has a coroutine that is   *)
(* going to fill it.                                                       *)
ResourcesAccounted ==
    /\ BM!Consistent
    /\ OP!UseMaxRespected /\ OP!ReleaseFindsPlace
    /\ CP!IndexExact /\ CP!PoolKeepsSize

(* What one call changes in a bounded map is right: it removes another     *)
(* item only if that one has not been used for the timeout, it does not    *)
(* grow the map beyond the bound, and it counts what it has put in and     *)
(* taken out.                                                              *)
MapStepsRight == BM!NoRecentItemRemoved /\ BM!GrowsWithinBound /\ BM!StatisticsAddUp

(* Nobody waits for what will not come: of a coroutine's write() no        *)
(* promise is left behind, and none is left pending when the stream has    *)
(* ended.                                                                  *)
NobodyForgotten == CC!NoPromiseLeft /\ CC!EndReachesWriters

(* Whenever nobody is in the middle of a change, however calls overlap: an *)
(* active composite has only active children, unless one has thrown in     *)
(* deactivate_object(); one that is not active has no active child but     *)
(* such as have thrown; one that is being deactivated has none, whoever    *)
(* has thrown.                                                             *)
ConsistentChildren == CO!ConsistentChildren

(* A record whose publish() has returned is in a file that has a name,     *)
(* through rotations, failures of them and the removal of the file by      *)
(* others, and a file does not outgrow the size or the period of its       *)
(* policy.                                                                 *)
LogKept == FL!RecordKept /\ FL!FileBounded

(* getline() returns the lines of a file whole and in order, however its   *)
(* buffer is moved, grown and filled on the way.                           *)
TerminatedLinesExact == FR!TerminatedLinesExact

(* Wherever a process ends, no more of the file of a PlainStorage::Map     *)
(* is damaged than the header of the key that save_() is about to store:   *)
(* without it, or at any other time, the file can be loaded, and the       *)
(* chains of free blocks, of keys and of data are whole and apart from     *)
(* each other.                                                             *)
BlocksInOrder == IF On("PlainStorageShort") THEN PB!BlocksInOrder ELSE PS!BlocksInOrder

(* The map has the keys that were put into it and not erased, with the     *)
(* data written last, through growth, loading and ends of the process,     *)
(* until a file is loaded whose last header was half stored: load() may    *)
(* take up an erased key from it.                                          *)
DataKept == IF On("PlainStorageShort") THEN PB!DataKept ELSE PS!DataKept
=============================================================================
