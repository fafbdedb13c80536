----------------------------- MODULE ClientImpl -----------------------------
(***************************************************************************)
(* The asynchronous gRPC client: ClientImpl (src/UServerUtils/Grpc/Client/ *)
(* ClientImpl.ipp), one object per call, and FactoryImpl (Factory.hpp),    *)
(* which owns them.  As on the server side, all events of a call are       *)
(* handled by the one thread of its completion queue, and start(),         *)
(* write(), writes_done() and stop() of other threads reach it as events.  *)
(* gRPC is external: a call is dead when the server has ended it, it has   *)
(* been cancelled or the connection is lost.                               *)
(***************************************************************************)
EXTENDS Integers, Sequences

CONSTANTS
    Clients,
    MaxWrites                   \* bound of the writes asked for

VARIABLES
    client_type,                \* of the method called
    clients_,                   \* of the factory
    factory,                    \* "open", then stop(): "waiting", "stopped"
    client_state, pending,      \* rpc_state_ and pending_queue_ of each
    operations,                 \* those gRPC has, which is_pending() tells
    events,                     \* sent by other threads
    call_dead,
    removing,                   \* within need_remove()
    initialized, told,          \* observer_->on_finish() will come; has come, times
    given,                      \* what gRPC has been given to write
    writes

clientVars == <<client_type, clients_, factory, client_state, pending, operations, events,
                call_dead, removing, initialized, given, told, writes>>

ClientInit ==
    /\ client_type \in {"unary", "client_streaming", "server_streaming", "bidi_streaming"}
    /\ clients_ = {} /\ factory = "open" /\ removing = {} /\ writes = 0
    /\ client_state = [c \in Clients |-> "none"]
    /\ pending = [c \in Clients |-> << >>]
    /\ operations = [c \in Clients |-> {}]
    /\ events = [c \in Clients |-> << >>]
    /\ call_dead = [c \in Clients |-> FALSE]
    /\ initialized = [c \in Clients |-> FALSE]
    /\ given = [c \in Clients |-> << >>]
    /\ told = [c \in Clients |-> 0]

ReadsStream == client_type \in {"server_streaming", "bidi_streaming"}
WritesStream == client_type \in {"client_streaming", "bidi_streaming"}

-----------------------------------------------------------------------------
(* FactoryImpl. *)

\* create(): into the map, then start().
Create(c) ==
    /\ client_state[c] = "none" /\ factory = "open"
    /\ client_state' = [client_state EXCEPT ![c] = "idle"]
    /\ clients_' = clients_ \cup {c}
    /\ events' = [events EXCEPT ![c] = <<"start">>]
    /\ UNCHANGED <<client_type, factory, pending, operations, call_dead, removing, initialized,
                   given, told, writes>>

\* stop(): all clients are told, and the map has to become empty.
StopFactory ==
    /\ factory = "open"
    /\ factory' = IF clients_ = {} THEN "stopped" ELSE "waiting"
    /\ events' = [c \in Clients |-> IF c \in clients_ THEN Append(events[c], "stop") ELSE events[c]]
    /\ UNCHANGED <<client_type, clients_, client_state, pending, operations, call_dead, removing,
                   initialized, given, told, writes>>

\* The second half of need_remove(), after the observer of the factory: the
\* object is destroyed, and the last one wakes stop().
NeedRemove(c) ==
    /\ c \in removing
    /\ removing' = removing \ {c}
    /\ clients_' = clients_ \ {c}
    /\ factory' = IF factory = "waiting" /\ clients_' = {} THEN "stopped" ELSE factory
    /\ UNCHANGED <<client_type, client_state, pending, operations, events, call_dead, initialized,
                   given, told, writes>>

-----------------------------------------------------------------------------
(* ClientImpl: the events of a call that is not being removed. *)

\* try_close(), which ends every event, and the first half of need_remove().
MutClientTryClose(c, state, left) ==
    removing' = IF state \in {"finish", "stop"} /\ left \ {"initialize"} = {}
                THEN removing \cup {c} ELSE removing

ClientTryClose(c, state, left) ==
    removing' = IF state \in {"finish", "stop"} /\ left = {} THEN removing \cup {c} ELSE removing

\* The state, the operations gRPC has and the queue after a handler.
Becomes(c, state, left, queue) ==
    /\ client_state' = [client_state EXCEPT ![c] = state]
    /\ operations' = [operations EXCEPT ![c] = left]
    /\ pending' = [pending EXCEPT ![c] = queue]
    /\ ClientTryClose(c, state, left)

Cancelled(c) == call_dead' = [call_dead EXCEPT ![c] = TRUE]
Tell(c) == told' = [told EXCEPT ![c] = @ + 1]

\* execute_queue() on a call in the state "initialize" that has no write: one
\* item goes to gRPC.
MutStateAfter(queue) == "initialize"

StateAfter(queue) == IF queue # << >> /\ Head(queue) = "writes_done" THEN "writes_done"
                                                                      ELSE "initialize"
Taken(queue) == IF queue = << >> THEN {} ELSE {"write"}
Left(queue) == IF queue = << >> THEN << >> ELSE Tail(queue)
Gives(c, queue) ==
    given' = [given EXCEPT ![c] = IF queue = << >> THEN @ ELSE Append(@, Head(queue))]

Ignored(c, left) ==
    Becomes(c, client_state[c], left, pending[c]) /\ UNCHANGED <<call_dead, initialized, given, told>>

\* on_error(): a method of gRPC has thrown, and left is what it has.
Error(c, left) ==
    Becomes(c, "error", left, pending[c]) /\ Cancelled(c) /\ UNCHANGED <<given, told>>

\* on_initialize(): Finish is given at once, then the first write and read.  The
\* unary call comes here from on_start().
Initialized(c, ok, left) ==
    LET queue == IF WritesStream THEN pending[c] ELSE << >>
        read == IF ReadsStream THEN {"read"} ELSE {}
    IN  \/ /\ ok /\ Gives(c, queue)
           /\ Becomes(c, StateAfter(queue), left \cup {"finish"} \cup Taken(queue) \cup read,
                      Left(queue))
           /\ initialized' = [initialized EXCEPT ![c] = TRUE]
           /\ UNCHANGED <<call_dead, told>>
        \/ /\ ~ok /\ Tell(c)
           /\ Becomes(c, "finish", left, pending[c])
           /\ UNCHANGED <<call_dead, initialized, given>>
        \/ /\ ok
           /\ \E done \in {{}, {"finish"}, {"finish"} \cup Taken(queue)} :
                 /\ Error(c, left \cup done)
                 /\ initialized' = [initialized EXCEPT ![c] = done # {}]

\* on_start()
Start(c) ==
    \/ /\ client_state[c] # "idle" /\ Ignored(c, operations[c])
    \/ /\ client_state[c] = "idle" /\ client_type = "unary" /\ Initialized(c, TRUE, {})
    \/ /\ client_state[c] = "idle" /\ client_type # "unary"
       /\ Becomes(c, "idle", {"initialize"}, pending[c])
       /\ UNCHANGED <<call_dead, initialized, given, told>>
    \/ /\ client_state[c] = "idle" /\ Error(c, {}) /\ UNCHANGED initialized

\* on_stop()
MutStop(c) ==
    /\ Becomes(c, IF client_state[c] = "idle" THEN "idle" ELSE "stop", operations[c], pending[c])
    /\ Cancelled(c)
    /\ UNCHANGED <<initialized, given, told>>

Stop(c) ==
    /\ Becomes(c, "stop", operations[c], pending[c])
    /\ Cancelled(c)
    /\ UNCHANGED <<initialized, given, told>>

\* on_event_queue(): writes wait for the initialization and for each other.
Queue(c, item) ==
    \/ /\ client_state[c] = "idle"
       /\ pending' = [pending EXCEPT ![c] = Append(@, item)]
       /\ UNCHANGED <<client_state, operations, removing, call_dead, initialized, given, told>>
    \/ /\ client_state[c] = "initialize"
       /\ LET queue == Append(pending[c], item)
          IN  \/ /\ "write" \in operations[c]
                 /\ Becomes(c, client_state[c], operations[c], queue)
                 /\ UNCHANGED <<call_dead, initialized, given, told>>
              \/ /\ "write" \notin operations[c]
                 /\ Becomes(c, StateAfter(queue), operations[c] \cup Taken(queue), Tail(queue))
                 /\ Gives(c, queue)
                 /\ UNCHANGED <<call_dead, initialized, told>>
              \/ /\ "write" \notin operations[c]
                 /\ Error(c, operations[c]) /\ UNCHANGED initialized
    \/ /\ client_state[c] \notin {"idle", "initialize"}
       /\ UNCHANGED <<client_state, operations, pending, removing, call_dead, initialized, given, told>>

\* An event of another thread, if the object still exists.
Event(c) ==
    /\ events[c] # << >> /\ c \notin removing
    /\ events' = [events EXCEPT ![c] = Tail(@)]
    /\ \/ /\ c \in clients_
          /\ CASE Head(events[c]) = "start" -> Start(c)
               [] Head(events[c]) = "stop" -> Stop(c)
               [] OTHER -> Queue(c, Head(events[c]))
       \/ /\ c \notin clients_
          /\ UNCHANGED <<client_state, operations, pending, removing, call_dead, initialized, given, told>>
    /\ UNCHANGED <<client_type, clients_, factory, writes>>

\* on_initialize(); ok means that the call has gone to the wire.
InitializeTag(c, ok) ==
    /\ "initialize" \in operations[c]
    /\ LET left == operations[c] \ {"initialize"}
       IN  IF client_state[c] = "idle" THEN Initialized(c, ok, left) ELSE Ignored(c, left)

\* on_read() and request_new_read()
ReadTag(c, ok) ==
    /\ "read" \in operations[c]
    /\ LET left == operations[c] \ {"read"}
           ignored == ~ok \/ client_state[c] \notin {"initialize", "writes_done"}
       IN  \/ Ignored(c, IF ignored THEN left ELSE operations[c])
           \/ ~ignored /\ Error(c, left) /\ UNCHANGED initialized

\* on_write() and execute_queue()
WriteTag(c, ok) ==
    /\ "write" \in operations[c] /\ (~ok => call_dead[c])
    /\ LET left == operations[c] \ {"write"}
           ignored == ~ok \/ client_state[c] # "initialize"
       IN  \/ ignored /\ Ignored(c, left)
           \/ /\ ~ignored
              /\ Becomes(c, StateAfter(pending[c]), left \cup Taken(pending[c]), Left(pending[c]))
              /\ Gives(c, pending[c])
              /\ UNCHANGED <<call_dead, initialized, told>>
           \/ /\ ~ignored /\ pending[c] # << >>
              /\ Error(c, left) /\ UNCHANGED initialized

\* on_finish()
MutFinishTag(c) ==
    /\ "finish" \in operations[c] /\ call_dead[c]
    /\ LET ignored == client_state[c] \in {"finish", "error", "stop"}
       IN  /\ Becomes(c, IF ignored THEN client_state[c] ELSE "finish", operations[c] \ {"finish"},
                      pending[c])
           /\ told' = [told EXCEPT ![c] = IF ignored THEN @ ELSE @ + 1]
    /\ UNCHANGED <<call_dead, initialized, given>>

FinishTag(c) ==
    /\ "finish" \in operations[c] /\ call_dead[c]
    /\ Becomes(c, "finish", operations[c] \ {"finish"}, pending[c])
    /\ told' = [told EXCEPT ![c] = IF client_state[c] = "finish" THEN @ ELSE @ + 1]
    /\ UNCHANGED <<call_dead, initialized, given>>

Tag(c) ==
    /\ c \notin removing
    /\ \/ \E ok \in BOOLEAN : InitializeTag(c, ok) \/ ReadTag(c, ok) \/ WriteTag(c, ok)
       \/ FinishTag(c)
    /\ UNCHANGED <<client_type, clients_, factory, events, writes>>

-----------------------------------------------------------------------------
\* write() and writes_done() of a client stream.
Post(c, item) ==
    /\ WritesStream /\ c \in clients_ /\ writes < MaxWrites
    /\ writes' = writes + 1
    /\ events' = [events EXCEPT ![c] = Append(@, item)]
    /\ UNCHANGED <<client_type, clients_, factory, client_state, pending, operations, call_dead,
                   removing, initialized, given, told>>

\* The server ends the call, or the connection is lost.
CallEnds(c) ==
    /\ operations[c] # {} /\ ~call_dead[c]
    /\ Cancelled(c)
    /\ UNCHANGED <<client_type, clients_, factory, client_state, pending, operations, events,
                   removing, initialized, given, told, writes>>

ClientNext ==
    \/ \E c \in Clients :
         \/ Create(c) \/ NeedRemove(c) \/ Event(c) \/ Tag(c) \/ CallEnds(c)
         \/ \E item \in {"write", "writes_done"} : Post(c, item)
    \/ StopFactory

-----------------------------------------------------------------------------
\* gRPC has no operation of a client that the factory has destroyed
\* (ClientImpl::try_close()).
NoOperationOfDestroyed ==
    \A c \in Clients : client_state[c] # "none" /\ c \notin clients_ => operations[c] = {}

\* The observer of a call is told of its end once, whether the server ends it,
\* it cannot be started or the factory stops it; it has been told before the
\* client is destroyed, if the call has been started.
ToldOnce ==
    \A c \in Clients : /\ told[c] <= 1
                       /\ initialized[c] /\ c \notin clients_ => told[c] = 1

\* gRPC is given nothing more to write after WritesDone, whatever order write()
\* and writes_done() are called in and whenever they reach the thread.
WritesDoneLast ==
    \A c \in Clients : \A i \in 1 .. Len(given[c]) - 1 : given[c][i] # "writes_done"
=============================================================================
