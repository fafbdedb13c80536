------------------------------ MODULE FileCache -----------------------------
(***************************************************************************)
(* Generics::Cache with the file strategies, and the CacheManager over     *)
(* several of them (src/Generics/FileCache.hpp).                           *)
(*                                                                         *)
(* A cache lends its one buffer to any number of holders.  A get() that    *)
(* finds the file changed waits for all holders to let go, then reloads.   *)
(* CacheManager::get() keeps its own mutex_ while Cache::get() waits.      *)
(*                                                                         *)
(* The file is its modification time: every write increases it and is the  *)
(* content of that time.  Eviction from the manager's map is left out.     *)
(***************************************************************************)
EXTENDS Naturals

CONSTANTS
    Clients,
    Names,          \* the files, each with a cache of its own
    MaxTime,        \* bound on the writes of a file
    Nested,         \* does a client call get() while it holds another buffer?
    UpdateMayFail   \* may open() or read() fail in update()?

VARIABLES
    managed,                    \* are the caches used through one CacheManager?
    st_mtime,                   \* st_mtime[n]: of the file
    last_modification_time_,    \* of the cache's checker
    content_,                   \* of the cache's updater: the time it was read at
    refs,                       \* refs[c]: the names whose buffer c holds
    pc,                         \* pc[c]: where c is in get()
    name,                       \* name[c]: the argument of get()
    mutex_                      \* the clients (one or none) that own the manager's mutex

vars == <<managed, st_mtime, last_modification_time_, content_, refs, pc, name, mutex_>>

Times == 0 .. MaxTime

TypeOK ==
    /\ managed \in BOOLEAN
    /\ st_mtime \in [Names -> Times]
    /\ last_modification_time_ \in [Names -> Times]
    /\ content_ \in [Names -> Times]
    /\ refs \in [Clients -> SUBSET Names]
    /\ pc \in [Clients -> {"idle", "manager", "get", "waiting", "woken"}]
    /\ name \in [Clients -> Names]
    /\ mutex_ \subseteq Clients /\ \A c, d \in mutex_ : c = d
    /\ \A c \in Clients : managed /\ pc[c] \in {"get", "waiting", "woken"} => c \in mutex_

Init ==
    /\ managed \in BOOLEAN
    /\ st_mtime \in [Names -> {1}]
    /\ last_modification_time_ = [n \in Names |-> 0]
    /\ content_ = [n \in Names |-> 0]
    /\ refs = [c \in Clients |-> {}]
    /\ pc = [c \in Clients |-> "idle"]
    /\ name \in [Clients -> {CHOOSE n \in Names : TRUE}]
    /\ mutex_ = {}

Holders(n) == {c \in Clients : n \in refs[c]}

(* The file is written (by somebody else). *)
Write(n) ==
    /\ st_mtime[n] < MaxTime
    /\ st_mtime' = [st_mtime EXCEPT ![n] = @ + 1]
    /\ UNCHANGED <<managed, last_modification_time_, content_, refs, pc, name, mutex_>>

-----------------------------------------------------------------------------
(* CacheManager::get() up to its mutex_; without a manager, Cache::get(). *)
get(c, n) ==
    /\ pc[c] = "idle" /\ n \notin refs[c]
    /\ Nested \/ refs[c] = {}
    /\ pc' = [pc EXCEPT ![c] = IF managed THEN "manager" ELSE "get"]
    /\ name' = [name EXCEPT ![c] = n]
    /\ UNCHANGED <<managed, st_mtime, last_modification_time_, content_, refs, mutex_>>

LockManager(c) ==
    /\ pc[c] = "manager" /\ mutex_ = {}
    /\ pc' = [pc EXCEPT ![c] = "get"]
    /\ mutex_' = {c}
    /\ UNCHANGED <<managed, st_mtime, last_modification_time_, content_, refs, name>>

(* get() ends: with the buffer, or with an exception. *)
Leave(c) ==
    /\ pc' = [pc EXCEPT ![c] = "idle"]
    /\ mutex_' = mutex_ \ {c}

Lend(c) == Leave(c) /\ refs' = [refs EXCEPT ![c] = @ \cup {name[c]}]

Throw(c) == Leave(c) /\ UNCHANGED refs

(* update(), then the buffer is lent; or update() throws. *)
UpdateAndLend(c) ==
    LET n == name[c] IN
    \/ content_' = [content_ EXCEPT ![n] = st_mtime[n]] /\ Lend(c)
    \/ UpdateMayFail /\ UNCHANGED content_ /\ Throw(c)

(* object_is_changed() says no: the buffer is lent as it is. *)
GetUnchanged(c) ==
    LET n == name[c] IN
    /\ pc[c] = "get"
    /\ last_modification_time_[n] >= st_mtime[n]
    /\ Lend(c)
    /\ UNCHANGED <<managed, st_mtime, last_modification_time_, content_, name>>

(* stat() fails *)
GetNoFile(c) ==
    /\ pc[c] = "get"
    /\ Throw(c)
    /\ UNCHANGED <<managed, st_mtime, last_modification_time_, content_, name>>

(* An update under the eyes of the holders. *)
GetChangedNoWait(c) ==
    LET n == name[c] IN
    /\ pc[c] = "get"
    /\ last_modification_time_[n] < st_mtime[n]
    /\ last_modification_time_' = [last_modification_time_ EXCEPT ![n] = st_mtime[n]]
    /\ UpdateAndLend(c)
    /\ UNCHANGED <<managed, st_mtime, name>>

(* object_is_changed() says yes, and forgets that it did. *)
GetChanged(c) ==
    LET n == name[c] IN
    /\ pc[c] = "get"
    /\ last_modification_time_[n] < st_mtime[n]
    /\ last_modification_time_' = [last_modification_time_ EXCEPT ![n] = st_mtime[n]]
    /\ \/ Holders(n) = {} /\ UpdateAndLend(c)
       \/ /\ Holders(n) # {}
          /\ pc' = [pc EXCEPT ![c] = "waiting"]
          /\ UNCHANGED <<content_, refs, mutex_>>
    /\ UNCHANGED <<managed, st_mtime, name>>

(* wait() returns, also without a reason. *)
SpuriousWakeup(c) ==
    /\ pc[c] = "waiting"
    /\ pc' = [pc EXCEPT ![c] = "woken"]
    /\ UNCHANGED <<managed, st_mtime, last_modification_time_, content_, refs, name, mutex_>>

(* After wait(), with the lock: there is one wait and no loop. *)
GetWoken(c) ==
    /\ pc[c] = "woken"
    /\ \/ Holders(name[c]) = {} /\ UpdateAndLend(c)
       \/ Holders(name[c]) # {} /\ Lend(c) /\ UNCHANGED content_
    /\ UNCHANGED <<managed, st_mtime, last_modification_time_, name>>

(* A last release that wakes nobody. *)
ReleaseSilently(c, n) ==
    /\ pc[c] = "idle" /\ n \in refs[c]
    /\ refs' = [refs EXCEPT ![c] = @ \ {n}]
    /\ UNCHANGED <<managed, st_mtime, last_modification_time_, content_, pc, name, mutex_>>

(* BufferHolder::remove_ref_no_delete_() and, for the last reference,       *)
(* reset_buffer_() with its broadcast.                                      *)
remove_ref_no_delete_(c, n) ==
    /\ pc[c] = "idle" /\ n \in refs[c]
    /\ refs' = [refs EXCEPT ![c] = @ \ {n}]
    /\ pc' = [d \in Clients |->
                 IF Holders(n) = {c} /\ pc[d] = "waiting" /\ name[d] = n THEN "woken" ELSE pc[d]]
    /\ UNCHANGED <<managed, st_mtime, last_modification_time_, content_, name, mutex_>>

-----------------------------------------------------------------------------
Next ==
    \/ \E n \in Names : Write(n)
    \/ \E c \in Clients : \/ \E n \in Names : get(c, n) \/ remove_ref_no_delete_(c, n)
                          \/ LockManager(c) \/ GetUnchanged(c) \/ GetNoFile(c) \/ GetChanged(c)
                          \/ SpuriousWakeup(c) \/ GetWoken(c)

Spec == Init /\ [][Next]_vars

-----------------------------------------------------------------------------
(* update() invalidates the references get() has lent, so the content must  *)
(* not change while somebody holds the buffer.                              *)
ContentStable ==
    [][\A n \in Names : Holders(n) # {} => content_'[n] = content_[n]]_vars

(* A get() waits only while there is a holder whose release will wake it.   *)
(* The variables have their types.                                          *)
SomebodyWillWake ==
    /\ TypeOK
    /\ \A c \in Clients : pc[c] = "waiting" => Holders(name[c]) # {}

(* Is c inside a get() of the manager? *)
InGet(c) == managed /\ pc[c] # "idle"
=============================================================================
