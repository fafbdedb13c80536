--------------------------- MODULE ClientPoolCoro ---------------------------
(***************************************************************************)
(* ClientPoolCoro (src/UServerUtils/Grpc/Client/ClientPoolCoro.hpp): keeps *)
(* number_async_client streams.  When one ends, the observer of the        *)
(* factory starts a coroutine that takes it out of the pool and puts a new *)
(* one in, once the channel is ready.  The pool is an array with a map     *)
(* from client numbers to places.                                          *)
(***************************************************************************)
EXTENDS Integers, Sequences, FiniteSets

CONSTANTS
    number_async_client,
    MaxClients                  \* bound of the clients ever created, numbered 1 ..

VARIABLES
    pool_clients,               \* clients_, client numbers
    id_to_index,                \* a function on some of the numbers, from 0
    born,                       \* clients created by the factory
    ended,                      \* clients the factory has removed
    task,                       \* coroutines: that of initialize(), 0, and that
                                \* started by the end of each client
    holds,                      \* the client each has created
    made                        \* turns of the loop of initialize()

poolVars == <<pool_clients, id_to_index, born, ended, task, holds, made>>

ClientIds == 1 .. MaxClients

PoolInit ==
    /\ pool_clients = << >> /\ id_to_index = [c \in {} |-> 0] /\ born = 0 /\ ended = {}
    /\ task = [t \in 0 .. MaxClients |-> IF t = 0 THEN "create" ELSE "none"]
    /\ holds = [t \in 0 .. MaxClients |-> 0] /\ made = 0

InPool(c) == c \in DOMAIN id_to_index

\* factory->create(): the client runs from now on.
CreateClient(t) ==
    /\ task[t] = "create" /\ born < MaxClients
    /\ born' = born + 1
    /\ holds' = [holds EXCEPT ![t] = born + 1]
    /\ task' = [task EXCEPT ![t] = "emplace"]
    /\ UNCHANGED <<pool_clients, id_to_index, ended, made>>

\* ClientPoolCoroImpl::emplace(); initialize() makes number_async_client of them.
Emplace(t) ==
    /\ task[t] = "emplace"
    /\ id_to_index' = [c \in DOMAIN id_to_index \cup {holds[t]} |->
                         IF c = holds[t] THEN Len(pool_clients) ELSE id_to_index[c]]
    /\ pool_clients' = Append(pool_clients, holds[t])
    /\ made' = IF t = 0 THEN made + 1 ELSE made
    /\ task' = [task EXCEPT ![t] = IF t = 0 /\ made' < number_async_client THEN "create" ELSE "none"]
    /\ UNCHANGED <<born, ended, holds>>

\* The stream of c ends, possibly before c is in the pool; need_remove() of
\* FactoryImpl calls the observer.
End(c) ==
    /\ c <= born /\ c \notin ended
    /\ ended' = ended \cup {c}
    /\ task' = [task EXCEPT ![c] = "remove"]
    /\ UNCHANGED <<pool_clients, id_to_index, born, holds, made>>

\* ClientPoolCoroImpl::remove(): the last one takes the place.
MutRemove(c) ==
    /\ InPool(c)
    /\ LET size == Len(pool_clients)
           index == id_to_index[c]
           last == pool_clients[size]
       IN  /\ pool_clients' = SubSeq([pool_clients EXCEPT ![index + 1] = last], 1, size - 1)
           /\ id_to_index' = [i \in DOMAIN id_to_index \ {c} |-> id_to_index[i]]

Remove(c) ==
    /\ InPool(c)
    /\ LET size == Len(pool_clients)
           index == id_to_index[c]
           last == pool_clients[size]
       IN  /\ pool_clients' = SubSeq([pool_clients EXCEPT ![index + 1] = last], 1, size - 1)
           /\ id_to_index' = [i \in DOMAIN id_to_index \ {c} |->
                                IF i = last THEN index ELSE id_to_index[i]]

\* The coroutine of the observer: without a client to take out it gives up.
MutReplace(c) ==
    /\ task[c] = "remove"
    /\ \/ InPool(c) /\ Remove(c)
       \/ ~InPool(c) /\ UNCHANGED <<pool_clients, id_to_index>>
    /\ task' = [task EXCEPT ![c] = "none"]
    /\ UNCHANGED <<born, ended, holds, made>>

Replace(c) ==
    /\ task[c] = "remove"
    /\ \/ /\ InPool(c) /\ Remove(c)
          /\ task' = [task EXCEPT ![c] = "create"]
       \/ /\ ~InPool(c)
          /\ task' = [task EXCEPT ![c] = "none"]
          /\ UNCHANGED <<pool_clients, id_to_index>>
    /\ UNCHANGED <<born, ended, holds, made>>

PoolNext ==
    \/ \E t \in 0 .. MaxClients : CreateClient(t) \/ Emplace(t)
    \/ \E c \in ClientIds : End(c) \/ Replace(c)

PoolSpec == PoolInit /\ [][PoolNext]_poolVars

-----------------------------------------------------------------------------
\* The map gives the place of every client in the array, after any order of
\* emplacing and removing.
IndexExact ==
    /\ Cardinality(DOMAIN id_to_index) = Len(pool_clients)
    /\ \A c \in DOMAIN id_to_index : id_to_index[c] < Len(pool_clients) /\ pool_clients[id_to_index[c] + 1] = c

\* The pool keeps its size: every one of its number_async_client places holds a
\* client, or a coroutine that is going to fill it.  The client may have ended:
\* one that has ended before it was put into the pool, which the code reports as
\* "Logic error... Client is null" (ClientPoolCoro.hpp:515), is not replaced.
PoolKeepsSize ==
    task[0] = "none" =>
      Len(pool_clients) + Cardinality({t \in ClientIds : task[t] \in {"create", "emplace"}})
        = number_async_client
=============================================================================
