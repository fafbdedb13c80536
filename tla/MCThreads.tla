------------------------------ MODULE MCThreads ------------------------------
(***************************************************************************)
(* A ThreadRunner of three jobs, the active object that is built on it, a  *)
(* composite of active objects, the conversions of texts and the decimal   *)
(* numbers, each alone: a behaviour is one of the component chosen at its  *)
(* start, the others rest in an initial state.  The decimals have elements *)
(* of one byte, and differ in where the point is and in how far the last   *)
(* element is used.                                                        *)
(***************************************************************************)
EXTENDS ThreadRunner, StringManip, FiniteSets

CONSTANTS
    c1, c2, c3, g1, x1, x2,
    StartThreads, NumberOfThreads, Overlap  \* ActiveObjectCommonImpl

VARIABLES
    component,
    active_state_, terminating_, work_mutex_, termination_mutex_, ao_running, jobs_, ao_semaphore,
    ao_thread, ao_pc, ao_i,
    SYNCHRONOUS_, state_, child_objects_, lock, child, busy, co_pc, list, it, error, thrown,
    decimal, simple, exact, calls

aoVars == <<active_state_, terminating_, work_mutex_, termination_mutex_, ao_running, jobs_,
            ao_semaphore, ao_thread, ao_pc, ao_i>>
coVars == <<SYNCHRONOUS_, state_, child_objects_, lock, child, busy, co_pc, list, it, error, thrown>>
deVars == <<decimal, simple, exact, calls>>

AO == INSTANCE ActiveObjectCommonImpl WITH
        Callers <- {c1, c2, c3}, Growers <- {g1},
        number_running_ <- ao_running, start_semaphore_ <- ao_semaphore, thread <- ao_thread,
        pc <- ao_pc, i_ <- ao_i

CO == INSTANCE CompositeActiveObject WITH
        Callers <- {c1, c2}, Children <- {x1, x2}, pc <- co_pc,
        ActivationMayFail <- TRUE, DeactivationMayFail <- FALSE, ClearWhileWaited <- FALSE

D42 == INSTANCE Decimal WITH
        MAX_ELEMENT <- 255, DIGITS_PER_ELEMENT <- 2, TOTAL_RANK <- 4, FRACTION_RANK <- 2, MaxCalls <- 3,
        IntegerParts <- {0, 1, 50, 99, 100}, FractionParts <- {0, 1, 99, 100},
        Numerators <- {0, 1, 99, 9999}

D51 == INSTANCE Decimal WITH
        MAX_ELEMENT <- 255, DIGITS_PER_ELEMENT <- 2, TOTAL_RANK <- 5, FRACTION_RANK <- 1, MaxCalls <- 3,
        IntegerParts <- {0, 1, 9999, 10000}, FractionParts <- {0, 1, 9, 10},
        Numerators <- {0, 1, 99, 9999}

D53 == INSTANCE Decimal WITH
        MAX_ELEMENT <- 255, DIGITS_PER_ELEMENT <- 2, TOTAL_RANK <- 5, FRACTION_RANK <- 3, MaxCalls <- 2,
        IntegerParts <- {0, 1, 9, 50, 99, 100}, FractionParts <- {0, 1, 199, 500, 999, 1000},
        Numerators <- {0, 1, 99, 9999}

On(name) == component = name

MCInit ==
    /\ component \in {"ThreadRunner", "ActiveObject", "CompositeActiveObject", "StringManip",
                      "Decimal42", "Decimal51", "Decimal53"}
    /\ Init /\ AO!Init /\ CO!Init /\ StringInit
    /\ ~On("CompositeActiveObject") => SYNCHRONOUS_ /\ busy = {}
    /\ ~On("StringManip") => text = Nothing("hex", FALSE)
    /\ IF On("Decimal51") THEN D51!DecimalInit
       ELSE IF On("Decimal53") THEN D53!DecimalInit ELSE D42!DecimalInit

MCNext ==
    /\ UNCHANGED component
    /\ \/ On("ThreadRunner") /\ Next /\ UNCHANGED <<aoVars, coVars, text, deVars>>
       \/ On("ActiveObject") /\ AO!Next /\ UNCHANGED <<vars, coVars, text, deVars>>
       \/ On("CompositeActiveObject") /\ CO!Next /\ UNCHANGED <<vars, aoVars, text, deVars>>
       \/ On("StringManip") /\ StringNext /\ UNCHANGED <<vars, aoVars, coVars, deVars>>
       \/ /\ \/ On("Decimal42") /\ D42!DecimalNext
             \/ On("Decimal51") /\ D51!DecimalNext
             \/ On("Decimal53") /\ D53!DecimalNext
          /\ UNCHANGED <<vars, aoVars, coVars, text>>

(* A call in progress goes on, created threads are scheduled and every job *)
(* comes to its end; children finish, and whoever wants the lock of the    *)
(* composite to end its wait gets it at last.  Nobody has to call.         *)
FairSpecs ==
    /\ MCInit /\ [][MCNext]_<<component, vars, aoVars, coVars, text, deVars>>
    /\ WF_vars(On("ThreadRunner") /\ Client)
    /\ \A i \in Jobs : WF_vars(On("ThreadRunner") /\ thread_func_(i))
    /\ \A c \in {c1, c2, c3} : /\ WF_aoVars(On("ActiveObject") /\ AO!Activating(c))
                               /\ WF_aoVars(On("ActiveObject") /\ AO!Waiting(c))
    /\ \A t \in AO!Threads : WF_aoVars(On("ActiveObject") /\ AO!Running(t))
    /\ \A c \in {c1, c2} :
         /\ WF_coVars(On("CompositeActiveObject") /\ CO!Continue(c))
         /\ SF_coVars(/\ On("CompositeActiveObject")
                      /\ CO!WaitResumes(c) \/ CO!CopyChildren(c) \/ CO!WaitDone(c))
    /\ \A x \in {x1, x2} : WF_coVars(On("CompositeActiveObject") /\ CO!ChildFinishes(x))

-----------------------------------------------------------------------------
(* The variables have their types, and while calls that ThreadRunner.hpp   *)
(* names "Thread unsafe" do not meet (~Overlap), every handle that         *)
(* wait_for_completion() of an active object has still to join is that of  *)
(* an existing thread, none of them there twice: nothing is joined twice.  *)
HandlesValid == AO!HandlesValid

(* A child of a synchronous composite starts after all those before it in  *)
(* the list and has stopped before any of them is told to stop.            *)
StopOrder == CO!StopOrder

(* Whatever calls are made, Decimal and SimpleDecimal hold the number that *)
(* exact arithmetic gives, rounded as asked for, or throw Overflow exactly *)
(* when it has too many digits; comparisons, integer() and texts are right *)
(* for every number that is reached.                                       *)
NumbersExact ==
    /\ On("Decimal42") => D42!DecimalExact /\ D42!ConvertsExactly
    /\ On("Decimal51") => D51!DecimalExact /\ D51!ConvertsExactly
    /\ On("Decimal53") => D53!DecimalExact /\ D53!ConvertsExactly

(* ActiveObjectCommonImpl on ThreadRunner, and the composite with children *)
(* that can be told to stop, keep what ActiveObject promises to its users  *)
(* (see ActiveObject.tla) as long as no wait overlaps an activation and no *)
(* thread is added to an object that is not active: neither class excludes *)
(* these overlaps itself, and with them the promise is broken.             *)
ImplementsActiveObject == AO!ImplementsActiveObject /\ CO!ImplementsActiveObject

InCall(c) ==
    \/ On("ThreadRunner") /\ pc # "idle"
    \/ On("ActiveObject") /\ ao_pc[c] \in AO!InWait /\ active_state_ = "AS_DEACTIVATING"

Returned(c) == IF On("ThreadRunner") THEN pc = "idle" ELSE ao_pc[c] \notin AO!InWait

(* Every start() and wait_for_completion() of ThreadRunner returns, when   *)
(* jobs do; whoever waits for an active object that is being deactivated   *)
(* returns, however many callers wait and deactivate, and so does whoever  *)
(* waits for a composite that has left AS_ACTIVE for good.                 *)
CallsReturn == (\A c \in {c1, c2, c3} : InCall(c) ~> Returned(c)) /\ CO!WaitersReturn
=============================================================================
