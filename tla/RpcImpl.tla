------------------------------ MODULE RpcImpl ------------------------------
(***************************************************************************)
(* The asynchronous gRPC server: Server::RpcImpl (src/UServerUtils/Grpc/   *)
(* Server/RpcImpl.ipp), one object per call, and RpcPoolImpl, which owns   *)
(* them and stops them.  The object of an accepted call makes the one that *)
(* waits for the next call.                                                *)
(*                                                                         *)
(* Operations given to gRPC come back as events of the completion queue,   *)
(* which one thread handles; other threads reach that thread by events of  *)
(* their own.  gRPC is external: a call is dead when the client has gone,  *)
(* a Finish has been given, or the server is shut down; then its           *)
(* operations fail, and the Done event comes, but only for a call that has *)
(* been accepted.                                                          *)
(***************************************************************************)
EXTENDS Integers, Sequences, FiniteSets

CONSTANTS
    Rpcs,                       \* the RpcImpl objects of the run, 1 .. n
    MaxSends                    \* bound of the writes and finishes asked for

Types == {"unary", "client_streaming", "server_streaming", "bidi_streaming"}

VARIABLES
    rpc_type,                   \* of the method served
    rpcs_,                      \* the pool
    pool_state,                 \* "active", "deactivated", "waited"
    rpc_state, pending_queue_, is_finished_, is_stopped_,
    tags,                       \* operations gRPC has, which is_pending() tells
    notified,                   \* events other threads have sent
    dead,                       \* the call will not go on
    finishes, sends             \* Finish operations given; bound of sends

rpcVars == <<rpc_type, rpcs_, pool_state, rpc_state, pending_queue_, is_finished_, is_stopped_,
             tags, notified, dead, finishes, sends>>

\* create() and initialize(): gRPC has the request for a call and the wish for
\* the Done event.
Created(r, set) == tags' = [set EXCEPT ![r] = {"connection", "done"}]

RpcInit ==
    /\ rpc_type \in Types
    /\ rpcs_ = {1} /\ pool_state = "active"
    /\ rpc_state = [r \in Rpcs |-> "idle"]
    /\ pending_queue_ = [r \in Rpcs |-> << >>]
    /\ is_finished_ = [r \in Rpcs |-> FALSE] /\ is_stopped_ = [r \in Rpcs |-> FALSE]
    /\ tags = [r \in Rpcs |-> IF r = 1 THEN {"connection", "done"} ELSE {}]
    /\ notified = [r \in Rpcs |-> << >>]
    /\ dead = [r \in Rpcs |-> FALSE]
    /\ finishes = [r \in Rpcs |-> 0] /\ sends = 0

StreamsIn == rpc_type \in {"client_streaming", "bidi_streaming"}
StreamsOut == rpc_type \in {"server_streaming", "bidi_streaming"}
Used == {r \in Rpcs : r \in rpcs_ \/ rpc_state[r] # "idle" \/ tags[r] # {}}

-----------------------------------------------------------------------------
\* try_close(): a closed call leaves the pool, and is destroyed, when gRPC has
\* nothing of it.
MutTryClose(r, state, left) ==
    rpcs_' = IF state = "closed" /\ left \cap {"write", "finish", "done"} = {}
             THEN rpcs_ \ {r} ELSE rpcs_

TryClose(r, state, left) ==
    rpcs_' = IF state = "closed" /\ left \cap {"read", "write", "finish", "done"} = {}
             THEN rpcs_ \ {r} ELSE rpcs_

\* execute_queue() takes the front of queue; left are the operations gRPC has.
\* The object that still waits for a call takes what comes next as well, but its
\* queue never holds more than the one item just put into it.
Executable(r, queue, left) ==
    rpc_state[r] # "stopped" /\ {"write", "finish"} \cap left = {} /\ queue # << >>

Give(r, operation, left) ==
    /\ tags' = [tags EXCEPT ![r] = left \cup {operation}]
    /\ finishes' = [finishes EXCEPT ![r] = @ + (IF operation = "finish" THEN 1 ELSE 0)]
    /\ dead' = [dead EXCEPT ![r] = @ \/ operation = "finish"]

Keep(r, left) == tags' = [tags EXCEPT ![r] = left] /\ UNCHANGED <<finishes, dead>>

\* Nothing may be given to gRPC after the Finish, or before there is a call.
MutSpent(r) == rpc_state[r] = "idle"
Spent(r) == is_finished_[r] \/ rpc_state[r] = "idle"

ExecuteQueue(r, queue, left) ==
    \/ /\ ~Executable(r, queue, left)
       /\ pending_queue_' = [pending_queue_ EXCEPT ![r] = queue]
       /\ Keep(r, left)
       /\ UNCHANGED <<rpc_state, is_stopped_>>
    \/ /\ Executable(r, queue, left) /\ Head(queue) = "stop"
       /\ pending_queue_' = [pending_queue_ EXCEPT ![r] = Tail(queue)]
       /\ rpc_state' = [rpc_state EXCEPT ![r] = "stopped"]
       /\ is_stopped_' = [is_stopped_ EXCEPT ![r] = TRUE]
       /\ Keep(r, left)
    \/ /\ Executable(r, queue, left) /\ Head(queue) # "stop"
       /\ pending_queue_' = [pending_queue_ EXCEPT ![r] = Tail(queue)]
       /\ IF Spent(r) THEN Keep(r, left)
          ELSE Give(r, IF StreamsOut THEN Head(queue) ELSE "finish", left)
       /\ UNCHANGED <<rpc_state, is_stopped_>>

-----------------------------------------------------------------------------
(* The events of the completion queue, each ending in try_close(). *)

MutClosing(r) ==
    [rpc_state EXCEPT ![r] = IF @ = "stopped" \/ ~is_finished_[r] THEN @ ELSE "closed"]

Closing(r) == [rpc_state EXCEPT ![r] = IF @ = "stopped" THEN @ ELSE "closed"]

\* RpcPoolImpl::add() sends stop() to an object that comes after the
\* deactivation: a Finish and a Stop.
MutAdded(n) == notified

Added(n) == IF pool_state = "active" THEN notified
            ELSE [notified EXCEPT ![n] = <<"finish", "stop">>]

\* on_connection() without a call: the server has been shut down.
ConnectionFails(r) ==
    /\ "connection" \in tags[r] /\ pool_state = "waited"
    /\ tags' = [tags EXCEPT ![r] = @ \ {"connection"}]
    /\ rpc_state' = Closing(r)
    /\ TryClose(r, rpc_state'[r], tags'[r])
    /\ UNCHANGED <<rpc_type, pool_state, pending_queue_, is_finished_, is_stopped_, notified, dead,
                   finishes, sends>>

\* on_connection(): the handler, the object n for the next call, which add()
\* stops if the pool is no longer active, and the first read.  n = 0: the next
\* object cannot be made.
Connection(r, n) ==
    /\ "connection" \in tags[r]
    /\ LET left == tags[r] \ {"connection"}
       IN  \/ /\ rpc_state[r] = "stopped" /\ n = 0
              /\ tags' = [tags EXCEPT ![r] = left]
              /\ UNCHANGED <<rpcs_, rpc_state, notified>>
           \/ /\ rpc_state[r] # "stopped" /\ n = 0
              /\ rpc_state' = [rpc_state EXCEPT ![r] = "connected"]
              /\ tags' = [tags EXCEPT ![r] = left]
              /\ UNCHANGED <<rpcs_, notified>>
           \/ /\ rpc_state[r] # "stopped" /\ n \in Rpcs \ Used
              /\ rpc_state' = [rpc_state EXCEPT ![r] = "connected"]
              /\ rpcs_' = rpcs_ \cup {n}
              /\ Created(n, [tags EXCEPT ![r] = IF StreamsIn THEN left \cup {"read"} ELSE left])
              /\ notified' = Added(n)
    /\ UNCHANGED <<rpc_type, pool_state, pending_queue_, is_finished_, is_stopped_, dead, finishes,
                   sends>>

\* on_read(): a message, and the next read; or the end of the stream.
Read(r, ok) ==
    /\ "read" \in tags[r]
    /\ LET again == ok /\ rpc_state[r] \notin {"closed", "stopped"}
           left == IF again THEN tags[r] ELSE tags[r] \ {"read"}
       IN  /\ tags' = [tags EXCEPT ![r] = left]
           /\ TryClose(r, rpc_state[r], left)
    /\ UNCHANGED <<rpc_type, pool_state, rpc_state, pending_queue_, is_finished_, is_stopped_,
                   notified, dead, finishes, sends>>

\* on_write(): the next item, if this one has gone to the wire.
Write(r, ok) ==
    /\ "write" \in tags[r] /\ (~ok => dead[r])
    /\ LET left == tags[r] \ {"write"}
       IN  \/ /\ ok /\ rpc_state[r] # "stopped"
              /\ ExecuteQueue(r, pending_queue_[r], left)
           \/ /\ ~ok \/ rpc_state[r] = "stopped"
              /\ Keep(r, left)
              /\ UNCHANGED <<rpc_state, pending_queue_, is_stopped_>>
    /\ TryClose(r, rpc_state'[r], tags'[r])
    /\ UNCHANGED <<rpc_type, pool_state, is_finished_, notified, sends>>

Finish(r) ==
    /\ "finish" \in tags[r]
    /\ tags' = [tags EXCEPT ![r] = @ \ {"finish"}]
    /\ is_finished_' = [is_finished_ EXCEPT ![r] = TRUE]
    /\ TryClose(r, rpc_state[r], tags'[r])
    /\ UNCHANGED <<rpc_type, pool_state, rpc_state, pending_queue_, is_stopped_, notified, dead,
                   finishes, sends>>

Done(r) ==
    /\ "done" \in tags[r] /\ "connection" \notin tags[r] /\ dead[r]
    /\ tags' = [tags EXCEPT ![r] = @ \ {"done"}]
    /\ rpc_state' = Closing(r)
    /\ TryClose(r, rpc_state'[r], tags'[r])
    /\ UNCHANGED <<rpc_type, pool_state, pending_queue_, is_finished_, is_stopped_, notified, dead,
                   finishes, sends>>

\* on_event_queue(): what another thread has sent, if the object still exists.
EventQueue(r) ==
    /\ notified[r] # << >>
    /\ notified' = [notified EXCEPT ![r] = Tail(@)]
    /\ \/ /\ r \in rpcs_ /\ rpc_state[r] \notin {"closed", "stopped"}
          /\ ExecuteQueue(r, Append(pending_queue_[r], Head(notified[r])), tags[r])
       \/ /\ r \notin rpcs_ \/ rpc_state[r] \in {"closed", "stopped"}
          /\ UNCHANGED <<rpc_state, pending_queue_, is_stopped_, tags, finishes, dead>>
    /\ UNCHANGED <<rpc_type, rpcs_, pool_state, is_finished_, sends>>

-----------------------------------------------------------------------------
(* write() and finish(), by the thread of the queue and by others. *)

SendHere(r, item) ==
    /\ r \in rpcs_ /\ rpc_state[r] # "idle" /\ sends < MaxSends
    /\ sends' = sends + 1
    /\ ExecuteQueue(r, Append(pending_queue_[r], item), tags[r])
    /\ UNCHANGED <<rpc_type, rpcs_, pool_state, is_finished_, notified>>

SendFromAfar(r, item) ==
    /\ r \in rpcs_ /\ rpc_state[r] # "idle" /\ sends < MaxSends
    /\ sends' = sends + 1
    /\ notified' = [notified EXCEPT ![r] = Append(@, item)]
    /\ UNCHANGED <<rpc_type, rpcs_, pool_state, rpc_state, pending_queue_, is_finished_, is_stopped_,
                   tags, dead, finishes>>

\* The client cancels, ends its call or is lost.
ClientGone(r) ==
    /\ rpc_state[r] # "idle" \/ "connection" \notin tags[r]
    /\ "done" \in tags[r] /\ ~dead[r]
    /\ dead' = [dead EXCEPT ![r] = TRUE]
    /\ UNCHANGED <<rpc_type, rpcs_, pool_state, rpc_state, pending_queue_, is_finished_, is_stopped_,
                   tags, notified, finishes, sends>>

-----------------------------------------------------------------------------
(* RpcPoolImpl. *)

\* deactivate_object_() sends stop() to all: a Finish and a Stop.
Deactivate ==
    /\ pool_state = "active"
    /\ pool_state' = "deactivated"
    /\ notified' = [r \in Rpcs |-> IF r \in rpcs_ THEN notified[r] \o <<"finish", "stop">>
                                                  ELSE notified[r]]
    /\ UNCHANGED <<rpc_type, rpcs_, rpc_state, pending_queue_, is_finished_, is_stopped_, tags, dead,
                   finishes, sends>>

\* wait_object_() has found all of them stopped; Server::deactivate_object_()
\* then shuts the server down, which ends the calls that are left.
Wait ==
    /\ pool_state = "deactivated"
    /\ \A r \in rpcs_ : is_stopped_[r]
    /\ pool_state' = "waited"
    /\ dead' = [r \in Rpcs |-> dead[r] \/ r \in Used]
    /\ UNCHANGED <<rpc_type, rpcs_, rpc_state, pending_queue_, is_finished_, is_stopped_, tags,
                   notified, finishes, sends>>

Handle(r) ==
    \/ ConnectionFails(r)
    \/ \E ok \in BOOLEAN : Read(r, ok) \/ Write(r, ok)
    \/ Finish(r) \/ Done(r) \/ EventQueue(r)

RpcNext ==
    \/ \E r \in Rpcs :
         \/ Handle(r) \/ ClientGone(r)
         \/ \E n \in Rpcs \cup {0} : Connection(r, n)
         \/ \E item \in {"write", "finish"} : SendHere(r, item) \/ SendFromAfar(r, item)
    \/ Deactivate \/ Wait

-----------------------------------------------------------------------------
\* gRPC has no operation of a call that has left the pool, whose object and
\* event tags are gone (try_close()).
NoTagOfDestroyed == \A r \in Rpcs : r \notin rpcs_ => tags[r] = {}

\* gRPC is given one Finish per call at most, never while it has a Write, and no
\* Write while it has another or after the Finish, whoever asks for them and in
\* whatever order.
OneFinish ==
    [][\A r \in Rpcs :
         /\ finishes'[r] <= 1
         /\ "write" \in tags'[r] => "finish" \notin tags'[r]
         /\ "write" \in tags'[r] \ tags[r] => finishes[r] = 0]_rpcVars
=============================================================================
