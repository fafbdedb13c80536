--------------------------- MODULE ProcessControl ---------------------------
(***************************************************************************)
(* CORBACommons::ProcessControlImpl                                        *)
(* (src/CORBA/CORBACommons/ProcessControlImpl.cpp): callers ask a process  *)
(* to shut down.  One that wants to wait for completion must not shut the  *)
(* ORB down itself, inside a call of the ORB: it leaves this to a thread   *)
(* that waits on a semaphore for the flag shutdown_, which is not guarded. *)
(* Nothing waits for the end of the calls when the object is destroyed.    *)
(***************************************************************************)
EXTENDS Naturals

CONSTANTS
    Callers,
    DestroyedEarly              \* the object may go before its thread has ended

VARIABLES
    shutdown_, sem_,
    job,                        \* ShutdownJob::work()
    orb,                        \* whether the ORB still runs
    caller,                     \* [at, wait] of each call of shutdown()
    destroyed

controlVars == <<shutdown_, sem_, job, orb, caller, destroyed>>

ControlInit ==
    /\ shutdown_ \in BOOLEAN    \* uninitialised
    /\ sem_ = 0
    /\ job = "acquire"
    /\ orb = TRUE
    /\ caller = [c \in Callers |-> [at |-> "none", wait |-> FALSE]]
    /\ destroyed = FALSE

\* shutdown() sets the flag, ...
Called(c, wait) ==
    /\ caller[c].at = "none" /\ ~destroyed
    /\ caller' = [caller EXCEPT ![c] = [at |-> "flagged", wait |-> wait]]
    /\ shutdown_' = wait
    /\ UNCHANGED <<sem_, job, orb, destroyed>>

MutWakesOnly(c) ==
    /\ caller[c].at = "flagged"
    /\ sem_' = sem_ + 1
    /\ caller' = [caller EXCEPT ![c].at = "returned"]
    /\ UNCHANGED <<shutdown_, job, orb, destroyed>>

MutShutsOnly(c) ==
    /\ caller[c].at = "flagged"
    /\ sem_' = IF caller[c].wait THEN sem_ + 1 ELSE sem_
    /\ caller' = [caller EXCEPT ![c].at = IF caller[c].wait THEN "returned" ELSE "shutting"]
    /\ UNCHANGED <<shutdown_, job, orb, destroyed>>

\* ... wakes the thread, ...
Woken(c) ==
    /\ caller[c].at = "flagged"
    /\ sem_' = sem_ + 1
    /\ caller' = [caller EXCEPT ![c].at = IF caller[c].wait THEN "returned" ELSE "shutting"]
    /\ UNCHANGED <<shutdown_, job, orb, destroyed>>

\* ... and shuts the ORB down without waiting unless the thread shall.
ShutDown(c) ==
    /\ caller[c].at = "shutting"
    /\ orb' = FALSE
    /\ caller' = [caller EXCEPT ![c].at = "returned"]
    /\ UNCHANGED <<shutdown_, sem_, job, destroyed>>

\* The destructor's wake(false).
DestroyControl ==
    /\ ~destroyed /\ destroyed' = TRUE
    /\ job = "ended" \/ DestroyedEarly \/ \A c \in Callers : caller[c].at = "none"
    /\ shutdown_' = FALSE
    /\ sem_' = sem_ + 1
    /\ UNCHANGED <<job, orb, caller>>

\* work(): the flag is read after the semaphore has been taken.
JobWork ==
    /\ \/ /\ job = "acquire" /\ sem_ > 0
          /\ sem_' = sem_ - 1
          /\ job' = "check"
          /\ UNCHANGED orb
       \/ /\ job = "check"
          /\ job' = IF shutdown_ THEN "shutdown" ELSE "ended"
          /\ UNCHANGED <<sem_, orb>>
       \/ /\ job = "shutdown"
          /\ orb' = FALSE
          /\ job' = "ended"
          /\ UNCHANGED sem_
    /\ UNCHANGED <<shutdown_, caller, destroyed>>

ControlNext ==
    \/ JobWork
    \/ DestroyControl
    \/ \E c \in Callers : (\E wait \in BOOLEAN : Called(c, wait)) \/ Woken(c) \/ ShutDown(c)
=============================================================================
