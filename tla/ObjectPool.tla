----------------------------- MODULE ObjectPool -----------------------------
(***************************************************************************)
(* CORBACommons::ObjectPool (src/CORBA/CORBACommons/ObjectPool.hpp):       *)
(* threads take CORBA objects from a pool and give them back, as good or   *)
(* as bad.  A bad object rests for a time; then it is tried again, by one  *)
(* thread first if object_once is set.  An object is resolved, under its   *)
(* own mutex, when it is taken for the first time, and with RERESOLVE also *)
(* when it is tried again.  A handler given out holds only the resolved    *)
(* reference, by which its release finds the place in the pool.            *)
(***************************************************************************)
EXTENDS Integers, FiniteSets

CONSTANTS
    Users,                      \* threads
    Size,                       \* of objects_
    UseMax,                     \* RefAndNumber::count, 0 for no limit
    Policies,                   \* the choose policies of the run
    RERESOLVE,
    MaxResolves,                \* bound of the references made
    MaxCount                    \* bound of use_count

Objects == 1 .. Size

VARIABLES
    policy, object_once, all_bad_no_wait,
    object,                     \* resolved reference of each, 0 for nil
    resolve, is_bad, use_count, give_once,
    last_object_,               \* of LoopPolicy
    obj_lock,                   \* the user that resolves each, or "nobody"
    user,                       \* [at, conn, ref] of each thread
    resolved                    \* references made so far

objectVars == <<policy, object_once, all_bad_no_wait, object, resolve, is_bad, use_count, give_once,
                last_object_, obj_lock, user, resolved>>

Idle == [at |-> "idle", conn |-> 0, ref |-> 0]

ObjectInit ==
    /\ policy \in Policies /\ object_once \in BOOLEAN /\ all_bad_no_wait \in BOOLEAN
    /\ object = [o \in Objects |-> 0]
    /\ resolve = [o \in Objects |-> FALSE]
    /\ is_bad = [o \in Objects |-> FALSE]
    /\ use_count = [o \in Objects |-> 0]
    /\ give_once = [o \in Objects |-> "others"]
    /\ last_object_ = 1
    /\ obj_lock = [o \in Objects |-> "nobody"]
    /\ user = [u \in Users |-> Idle]
    /\ resolved = 0

-----------------------------------------------------------------------------
(* get_object() under lock_. *)

\* ChoosePolicy::usable(), for the values of give_once in give.
MutBusy(o, give) == give[o] = "first" \/ (UseMax > 0 /\ use_count[o] > UseMax)

Busy(o, give) == give[o] = "first" \/ (UseMax > 0 /\ use_count[o] >= UseMax)

Bad == {o \in Objects : is_bad[o]}

\* soft_suitable() when the objects in rested have just been made good.
Suitable(rested, give) == {o \in Objects \ (Bad \ rested) : ~Busy(o, give)}

\* check_bad_refs_(): the objects in rested are tried again, by one user first
\* if object_once is set.
GiveOnceAfter(rested) ==
    [o \in Objects |-> IF o \in rested /\ object_once THEN "not_given" ELSE give_once[o]]

CheckBadRefs(rested) ==
    /\ is_bad' = [o \in Objects |-> is_bad[o] /\ o \notin rested]
    /\ resolve' = [o \in Objects |-> resolve[o] \/ (RERESOLVE /\ o \in rested)]

\* ChoosePolicy::cycle_next(): the nearest suitable one after i.
CycleNext(i, good) ==
    LET distance(o) == (o - i - 1) % Size
    IN  CHOOSE o \in good : \A p \in good : distance(o) <= distance(p)

\* get_valid_object() of the policies for any key: the object and last_object_.
\* "rand" stands for the persistent policy, too.  SwitchOnBadPolicy leaves an
\* object that has just been made good, a precise choice does not look whether
\* the object is busy.
Chosen(good, rested) ==
    LET loop == CycleNext(last_object_, good)
    IN  CASE policy = "loop" -> {<<loop, loop>>}
          [] policy = "bad_switch" ->
               {IF last_object_ \in good \ rested THEN <<last_object_, last_object_>> ELSE <<loop, loop>>}
          [] policy = "rand" ->
               {<<IF i \in good THEN i ELSE CycleNext(i, good), last_object_>> : i \in Objects}
          [] policy = "precise" ->
               {<<loop, loop>>} \cup {<<o, last_object_>> : o \in Objects \ (Bad \ rested)}

\* The objects in expired have been bad long enough.  With all_bad_no_wait bad
\* ones are tried again at once when there are no others, and good ones that
\* are all busy end the call before anything is changed.
GetObject(u, expired) ==
    /\ user[u].at = "idle" /\ expired \subseteq Bad
    /\ all_bad_no_wait => Bad = Objects \/ Suitable({}, give_once) # {}
    /\ LET rested == IF all_bad_no_wait /\ Bad = Objects THEN Objects ELSE expired
           give == GiveOnceAfter(rested)
           good == Suitable(rested, give)
       IN  /\ CheckBadRefs(rested)
           /\ \/ \* NoGoodReference, NoFreeObject, BadObject
                 /\ good = {} \/ (policy = "precise" /\ Bad \ rested # {})
                 /\ give_once' = give
                 /\ UNCHANGED <<use_count, last_object_, user>>
              \/ /\ good # {}
                 /\ \E <<o, last>> \in Chosen(good, rested) :
                      /\ use_count[o] < MaxCount
                      /\ give_once' = [give EXCEPT ![o] = IF @ = "not_given" THEN "first" ELSE @]
                      /\ use_count' = [use_count EXCEPT ![o] = @ + 1]
                      /\ last_object_' = last
                      /\ user' = [user EXCEPT ![u] = [at |-> "chosen", conn |-> o, ref |-> 0]]
    /\ UNCHANGED <<policy, object_once, all_bad_no_wait, object, obj_lock, resolved>>

-----------------------------------------------------------------------------
(* get_object() under obj_lock. *)

\* release_object_() of a place, as bad or as good.
ReleaseConn(o, bad) ==
    /\ use_count' = [use_count EXCEPT ![o] = @ - 1]
    /\ is_bad' = [is_bad EXCEPT ![o] = @ \/ bad]
    /\ give_once' = [give_once EXCEPT ![o] = IF bad THEN @ ELSE "others"]

MutNeedsResolve(o) == TRUE

NeedsResolve(o) == (RERESOLVE /\ resolve[o]) \/ object[o] = 0

\* An object that has become bad since it was chosen is not given out, and its
\* use_count stays as it is; one that has to be resolved keeps the lock.
Locked(u) ==
    /\ user[u].at = "chosen"
    /\ LET o == user[u].conn
       IN  /\ obj_lock[o] = "nobody"
           /\ \/ /\ is_bad[o] \* InvalidReference
                 /\ user' = [user EXCEPT ![u] = Idle]
                 /\ UNCHANGED <<obj_lock, resolve>>
              \/ /\ ~is_bad[o] /\ NeedsResolve(o)
                 /\ user' = [user EXCEPT ![u].at = "resolving"]
                 /\ obj_lock' = [obj_lock EXCEPT ![o] = u]
                 /\ resolve' = [resolve EXCEPT ![o] = FALSE]
              \/ /\ ~is_bad[o] /\ ~NeedsResolve(o)
                 /\ user' = [user EXCEPT ![u] = [@ EXCEPT !.at = "holding", !.ref = object[o]]]
                 /\ UNCHANGED <<obj_lock, resolve>>
    /\ UNCHANGED <<policy, object_once, all_bad_no_wait, object, is_bad, use_count, give_once,
                   last_object_, resolved>>

\* The resolver returns a new reference or fails.
Resolved(u) ==
    /\ user[u].at = "resolving"
    /\ LET o == user[u].conn
       IN  /\ obj_lock' = [obj_lock EXCEPT ![o] = "nobody"]
           /\ \/ /\ resolved < MaxResolves
                 /\ resolved' = resolved + 1
                 /\ object' = [object EXCEPT ![o] = resolved + 1]
                 /\ user' = [user EXCEPT ![u] = [@ EXCEPT !.at = "holding", !.ref = resolved + 1]]
                 /\ UNCHANGED <<is_bad, use_count, give_once>>
              \/ /\ object' = [object EXCEPT ![o] = 0]
                 /\ user' = [user EXCEPT ![u] = Idle]
                 /\ ReleaseConn(o, TRUE)
                 /\ UNCHANGED resolved
    /\ UNCHANGED <<policy, object_once, all_bad_no_wait, resolve, last_object_>>

\* release() and release_bad() of a handler: get_conndata_() looks for its
\* reference.
Release(u, bad) ==
    /\ user[u].at = "holding"
    /\ \E o \in Objects : object[o] = user[u].ref /\ ReleaseConn(o, bad)
    /\ user' = [user EXCEPT ![u] = Idle]
    /\ UNCHANGED <<policy, object_once, all_bad_no_wait, object, resolve, last_object_, obj_lock,
                   resolved>>

ObjectNext ==
    \E u \in Users :
      \/ \E expired \in SUBSET Objects : GetObject(u, expired)
      \/ Locked(u) \/ Resolved(u)
      \/ \E bad \in BOOLEAN : Release(u, bad)

ObjectSpec == ObjectInit /\ [][ObjectNext]_objectVars

-----------------------------------------------------------------------------
Holders(o) == {u \in Users : user[u].at = "holding" /\ user[u].conn = o}

\* No object is in use by more threads than its reference allows, whatever the
\* policy that looks whether it is busy, and however releases, failures to
\* resolve and new chances fall together.
UseMaxRespected ==
    UseMax > 0 /\ policy # "precise" => \A o \in Objects : Cardinality(Holders(o)) <= UseMax

\* get_conndata_() finds the place of every handler given out: "we should newer
\* reach this code..." it says behind the search, and asserts FALSE.
ReleaseFindsPlace ==
    \A u \in Users : user[u].at = "holding" => \E o \in Objects : object[o] = user[u].ref
=============================================================================
