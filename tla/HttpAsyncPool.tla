---------------------------- MODULE HttpAsyncPool ----------------------------
(***************************************************************************)
(* HTTP::HttpInternals (src/HTTP/HttpAsyncPool.cpp,                        *)
(* HttpAsyncPoolInternals.ipp) with the policies of HttpAsyncPolicies.cpp: *)
(* users add requests; a Server (one per address, here one address) gives  *)
(* each to a Connection, a new one is placed in an EventThread, which runs *)
(* its callbacks.  Results are told by tasks of a task runner.  What a     *)
(* connection has not done when it is closed is sent again, except for the *)
(* first.  Idle connections and threads close themselves; deactivate_      *)
(* object() closes all.  The policy counts requests and connections under  *)
(* a mutex of its own and must not close what another thread has chosen.   *)
(* A signal queue is its items and the set of bytes in its pipe: an item   *)
(* is pushed first and signalled then, the pipe is read first and the      *)
(* items are popped then, one by one.  A write to a pipe succeeds: its     *)
(* write end blocks, and both ends belong to the queue.                    *)
(***************************************************************************)
EXTENDS Integers, Sequences, FiniteSets, SequencesExt

CONSTANTS
    Requests,
    NServers, NConnections, NThreads,   \* bounds of what is created
    CONNECTIONS_PER_SERVER, CONNECTIONS_PER_THREADS,
    SendMayFail                 \* evhttp may reject a request's headers

Servers == 1 .. NServers
Connections == 1 .. NConnections
EventThreads == NConnections + 1 .. NConnections + NThreads

VARIABLES
    closure_delay_,             \* whether the policy waits before it closes
    active_,
    server_,                    \* the one in servers_, 0 for none
    server,                     \* [made, deactivating, released, connections, lock] of each
    conn,                       \* the connections, see NoConnection
    thread,                     \* the event threads, see NoThread
    entity,                     \* what the policy keeps of each of them
    user,                       \* what the thread that adds each request does
    told,                       \* how often the result of each went to its callback's task
    pool_lock, pool_mutex,      \* users of EventThreadPool::mutex_, HttpAsyncPool::mutex_
    jobs,                       \* of the task runner
    stopper                     \* deactivate_object(): [at, what]

httpVars == <<closure_delay_, active_, server_, server, conn, thread, entity, user, told,
              pool_lock, pool_mutex, jobs, stopper>>

NoConnection == [server |-> 0, queue |-> <<>>, pipe |-> {}, requests |-> <<>>,
                 terminating |-> FALSE, timer |-> FALSE, term |-> FALSE]

NoThread == [at |-> "none", what |-> 0, reading |-> 0, seen |-> {}, quit |-> FALSE, final |-> FALSE,
             queue |-> <<>>, pipe |-> {}, connections |-> {}, timer |-> FALSE, list |-> "out"]

Fresh == [state |-> "ACTIVE_AWAITING", items |-> 0, full |-> FALSE]

NoUser == [at |-> "none", server |-> 0, conn |-> 0, thread |-> 0, again |-> FALSE]

HttpInit ==
    /\ closure_delay_ \in BOOLEAN
    /\ active_ = TRUE
    /\ server_ = 0
    /\ server = [s \in Servers |->
                   [made |-> FALSE, deactivating |-> FALSE, released |-> FALSE, connections |-> {}, lock |-> FALSE]]
    /\ conn = [c \in Connections |-> NoConnection]
    /\ thread = [t \in EventThreads |-> NoThread]
    /\ entity = [e \in Connections \cup EventThreads |-> Fresh]
    /\ user = [r \in Requests |-> NoUser]
    /\ told = [r \in Requests |-> 0]
    /\ pool_lock = FALSE /\ pool_mutex = FALSE
    /\ jobs = {}
    /\ stopper = [at |-> "none", what |-> 0]

-----------------------------------------------------------------------------
(* The policy: PoolPolicySimpleDecider and the Empty policies. *)

Choice == {t \in EventThreads : thread[t].list = "choice"}

Least(set) == CHOOSE x \in set : \A y \in set : x <= y

MutWhenClose(e, map) ==
    IF entity[e].items = 0 THEN <<"CLOSING", "yes">> ELSE <<entity[e].state, "no">>

\* when_close_entity() among the entities of its map: the new state and
\* whether to close ("yes"), to ask again later or not.
WhenClose(e, map) ==
    LET others == map \ {e}
        alone == \A o \in map : entity[o].state \notin {"ACTIVE", "ACTIVE_AWAITING"}
    IN  CASE entity[e].state = "CLOSURE_ON_NEXT_TRY" -> <<"CLOSING", "yes">>
          [] entity[e].state = "ACTIVE" /\ entity[e].items = 0 ->
               IF \/ ~closure_delay_
                  \/ /\ \E o \in others : ~entity[o].full
                     /\ \E o \in others : entity[o].state = "CLOSURE_AWAITING"
               THEN <<"CLOSING", "yes">> ELSE <<"CLOSURE_AWAITING", "later">>
          [] entity[e].state = "CLOSURE_AWAITING" ->
               <<IF alone THEN "CLOSURE_ON_NEXT_TRY" ELSE "CLOSURE_AWAITING", "later">>
          [] OTHER -> <<entity[e].state, "no">>

\* choose_connection() of a server: an empty one, or, when there may be no
\* more, one with the fewest requests; 0 for a new one.
ChooseConnection(s) ==
    LET all == server[s].connections
        good == {c \in all : entity[c].state # "CLOSING"}
        best == {c \in good : \A d \in good : entity[c].items <= entity[d].items}
    IN  IF best = {} \/ (Cardinality(all) < CONNECTIONS_PER_SERVER /\ entity[Least(best)].items > 0)
        THEN 0 ELSE Least(best)

\* choose_thread(): the first one that is not full, 0 for a new one.
ChooseThread ==
    LET free == {t \in Choice : entity[t].state # "CLOSING" /\ entity[t].items < CONNECTIONS_PER_THREADS}
    IN  IF free = {} THEN 0 ELSE Least(free)

\* It marks the full ones it meets on its way.
Passed(t) == {p \in Choice : entity[p].state # "CLOSING" /\ (t = 0 \/ p < t)}

-----------------------------------------------------------------------------
(* HttpAsyncPool::add_request_() and Server::add_request(). *)

\* SignalQueue::add() pushes the item and, if it is the first, signals.
Push(q, item) == [q EXCEPT !.queue = Append(@, item)]

Signal(q) == [q EXCEPT !.pipe = @ \cup {"data"}]

\* add_task_on_error_() and add_task_on_response(): the task calls back.
AddTasks(requests) == told' = [r \in Requests |-> told[r] + (IF r \in requests THEN 1 ELSE 0)]

Refuse(r) ==
    /\ user' = [user EXCEPT ![r] = [NoUser EXCEPT !.at = IF user[r].again THEN "added" ELSE "refused"]]
    /\ AddTasks(IF user[r].again THEN {r} ELSE {})

IsActive(r) ==
    /\ user[r].at = "none"
    /\ active_
    /\ user' = [user EXCEPT ![r].at = "checked"]
    /\ UNCHANGED <<closure_delay_, active_, server_, server, conn, thread, entity, told,
                   pool_lock, pool_mutex, jobs, stopper>>

\* The server of the address is found or made.
FindServer(r) ==
    /\ user[r].at = "checked" /\ ~pool_mutex
    /\ server_ # 0 \/ \E n \in Servers : ~server[n].made
    /\ LET s == IF server_ # 0 THEN server_ ELSE Least({n \in Servers : ~server[n].made})
       IN  /\ server_' = s
           /\ server' = [server EXCEPT ![s].made = TRUE]
           /\ user' = [user EXCEPT ![r] = [@ EXCEPT !.at = "found", !.server = s]]
    /\ UNCHANGED <<closure_delay_, active_, conn, thread, entity, told, pool_lock,
                   pool_mutex, jobs, stopper>>

\* Under Server::mutex_ until Counted.
Choose(r) ==
    /\ user[r].at = "found"
    /\ LET s == user[r].server
           c == ChooseConnection(s)
           fresh == Least({n \in Connections : conn[n].server = 0})
       IN  /\ ~server[s].lock
           /\ \/ /\ server[s].deactivating
                 /\ Refuse(r)
                 /\ UNCHANGED <<server, conn, entity>>
              \/ /\ ~server[s].deactivating /\ c # 0
                 /\ entity' = [entity EXCEPT ![c].state = "ACTIVE_AWAITING"]
                 /\ server' = [server EXCEPT ![s].lock = TRUE]
                 /\ user' = [user EXCEPT ![r] = [@ EXCEPT !.at = "chosen", !.conn = c]]
                 /\ UNCHANGED <<conn, told>>
              \/ /\ ~server[s].deactivating /\ c = 0
                 /\ conn' = [conn EXCEPT ![fresh].server = s]
                 /\ server' = [server EXCEPT ![s].lock = TRUE, ![s].connections = @ \cup {fresh}]
                 /\ user' = [user EXCEPT ![r] = [@ EXCEPT !.at = "placing", !.conn = fresh]]
                 /\ UNCHANGED <<entity, told>>
    /\ UNCHANGED <<closure_delay_, active_, server_, thread, pool_lock, pool_mutex,
                   jobs, stopper>>

\* EventThreadPool::add_connection() chooses a thread, or starts one, ...
Place(r) ==
    /\ user[r].at = "placing" /\ ~pool_lock
    /\ LET s == user[r].server
           t == ChooseThread
           fresh == Least({n \in EventThreads :
                             thread[n].at = "none" /\ \A u \in Requests : user[u].thread # n})
           full(f) == [e \in DOMAIN entity |->
                         IF e \in Passed(t) THEN [f[e] EXCEPT !.full = TRUE] ELSE f[e]]
       IN  \/ /\ ~active_
              /\ server' = [server EXCEPT ![s].lock = FALSE, ![s].connections = @ \ {user[r].conn}]
              /\ Refuse(r)
              /\ UNCHANGED <<thread, entity, pool_lock>>
           \/ /\ active_ /\ t # 0
              /\ entity' = full([entity EXCEPT ![t].state = "ACTIVE_AWAITING"])
              /\ user' = [user EXCEPT ![r] = [@ EXCEPT !.at = "placed", !.thread = t]]
              /\ pool_lock' = TRUE
              /\ UNCHANGED <<server, thread, told>>
           \/ /\ active_ /\ t = 0
              /\ entity' = full(entity)
              /\ thread' = [thread EXCEPT ![fresh].at = "idle", ![fresh].list = "choice"]
              /\ user' = [user EXCEPT ![r] = [@ EXCEPT !.at = "placed", !.thread = fresh]]
              /\ pool_lock' = TRUE
              /\ UNCHANGED <<server, told>>
    /\ UNCHANGED <<closure_delay_, active_, server_, conn, pool_mutex, jobs, stopper>>

\* ... counts the connection ...
Placed(r) ==
    /\ user[r].at = "placed"
    /\ entity' = [entity EXCEPT ![user[r].thread] = [@ EXCEPT !.items = @ + 1, !.state = "ACTIVE"]]
    /\ pool_lock' = FALSE
    /\ user' = [user EXCEPT ![r].at = "handing"]
    /\ UNCHANGED <<closure_delay_, active_, server_, server, conn, thread, told, pool_mutex, jobs,
                   stopper>>

\* ... and hands it to the thread, without a lock.
HandOver(r) ==
    LET t == user[r].thread
    IN  /\ user[r].at = "handing"
        /\ thread' = [thread EXCEPT ![t] = Push(@, user[r].conn)]
        /\ user' = [user EXCEPT ![r] = IF thread[t].queue = <<>> THEN [@ EXCEPT !.at = "handed"]
                                       ELSE [@ EXCEPT !.at = "chosen", !.thread = 0]]
        /\ UNCHANGED <<closure_delay_, active_, server_, server, conn, entity, told, pool_lock,
                       pool_mutex, jobs, stopper>>

\* The thread may have ended without the signal.
SignalThread(r) ==
    LET t == user[r].thread
    IN  /\ user[r].at = "handed"
        /\ thread' = IF thread[t].at \in {"none", "ended"} THEN thread
                     ELSE [thread EXCEPT ![t] = Signal(@)]
        /\ user' = [user EXCEPT ![r] = [@ EXCEPT !.at = "chosen", !.thread = 0]]
        /\ UNCHANGED <<closure_delay_, active_, server_, server, conn, entity, told, pool_lock,
                       pool_mutex, jobs, stopper>>

MutCounted(r) ==
    /\ user[r].at = "chosen"
    /\ server' = [server EXCEPT ![user[r].server].lock = FALSE]
    /\ user' = [user EXCEPT ![r].at = "counted"]
    /\ UNCHANGED <<closure_delay_, active_, server_, conn, thread, entity, told,
                   pool_lock, pool_mutex, jobs, stopper>>

\* The connection's request is counted before the connection can have it.
Counted(r) ==
    /\ user[r].at = "chosen"
    /\ entity' = [entity EXCEPT ![user[r].conn] = [@ EXCEPT !.items = @ + 1, !.state = "ACTIVE"]]
    /\ server' = [server EXCEPT ![user[r].server].lock = FALSE]
    /\ user' = [user EXCEPT ![r].at = "counted"]
    /\ UNCHANGED <<closure_delay_, active_, server_, conn, thread, told, pool_lock,
                   pool_mutex, jobs, stopper>>

\* Connection::add_request(), by which time the connection may be closed.
Queued(r) ==
    /\ user[r].at = "counted"
    /\ conn' = [conn EXCEPT ![user[r].conn] = Push(@, r)]
    /\ user' = [user EXCEPT ![r] = IF conn[user[r].conn].queue = <<>> THEN [@ EXCEPT !.at = "queued"]
                                   ELSE [NoUser EXCEPT !.at = "added"]]
    /\ UNCHANGED <<closure_delay_, active_, server_, server, thread, entity, told,
                   pool_lock, pool_mutex, jobs, stopper>>

SignalConnection(r) ==
    /\ user[r].at = "queued"
    /\ conn' = [conn EXCEPT ![user[r].conn] = Signal(@)]
    /\ user' = [user EXCEPT ![r] = [NoUser EXCEPT !.at = "added"]]
    /\ UNCHANGED <<closure_delay_, active_, server_, server, thread, entity, told,
                   pool_lock, pool_mutex, jobs, stopper>>

-----------------------------------------------------------------------------
(* EventThread runs the callbacks of its queue, its connections and timers. *)

\* Where a thread goes on after a connection has been closed, or not.
Back(t) ==
    IF thread[t].reading # 0 THEN "popping" ELSE IF thread[t].final THEN "ending" ELSE "idle"

GoesBack(t) == [thread EXCEPT ![t] = [@ EXCEPT !.at = Back(t), !.what = 0]]

Goes(t, at, what) == [thread EXCEPT ![t] = [@ EXCEPT !.at = at, !.what = what]]

Reads(t, q, pipe) ==
    [thread EXCEPT ![t] = [@ EXCEPT !.at = "popping", !.reading = q, !.seen = pipe]]

\* handle_read_() of the thread's queue, whose items are connections, reads
\* the pipe ...
ReadThread(t) ==
    /\ thread[t].at = "idle" /\ thread[t].pipe # {}
    /\ thread' = [Reads(t, t, thread[t].pipe) EXCEPT ![t].pipe = {}]
    /\ UNCHANGED <<closure_delay_, active_, server_, server, conn, entity, user, told,
                   pool_lock, pool_mutex, jobs, stopper>>

\* ... and pops the items until it finds none, in the callback for data only.
PopThread(t) ==
    LET items == IF "data" \in thread[t].seen THEN thread[t].queue ELSE <<>>
    IN  /\ thread[t].at = "popping" /\ thread[t].reading = t
        /\ thread' = [thread EXCEPT ![t] =
               IF items # <<>>
               THEN [@ EXCEPT !.queue = Tail(@), !.connections = @ \cup {Head(items)}]
               ELSE [@ EXCEPT !.at = "idle", !.reading = 0, !.seen = {},
                              !.quit = @ \/ "quit" \in thread[t].seen]]
        /\ UNCHANGED <<closure_delay_, active_, server_, server, conn, entity, user, told,
                       pool_lock, pool_mutex, jobs, stopper>>

\* handle_read_() of a connection's queue: its requests are sent, or fail at
\* once; the connection is closed at the end if the pool stops.
ReadConnection(t, c) ==
    /\ thread[t].at = "idle" /\ c \in thread[t].connections
    /\ conn[c].pipe # {} /\ ~conn[c].terminating
    /\ thread' = Reads(t, c, conn[c].pipe)
    /\ conn' = [conn EXCEPT ![c].pipe = {}]
    /\ UNCHANGED <<closure_delay_, active_, server_, server, entity, user, told, pool_lock,
                   pool_mutex, jobs, stopper>>

\* process_request_(): evhttp takes the request or does not.
Send(t, c) ==
    LET r == Head(conn[c].queue)
    IN  \/ /\ conn' = [conn EXCEPT ![c] = [@ EXCEPT !.queue = Tail(@), !.requests = Append(@, r)]]
           /\ UNCHANGED <<entity, told, thread>>
        \/ /\ SendMayFail
           /\ conn' = [conn EXCEPT ![c].queue = Tail(@)]
           /\ entity' = [entity EXCEPT ![c].items = @ - 1]
           /\ AddTasks({r})
           /\ thread' = IF conn[c].requests = <<>> THEN Goes(t, "trying", c) ELSE thread

PopConnection(t) ==
    LET c == thread[t].reading
    IN  /\ thread[t].at = "popping" /\ c \in Connections
        /\ IF "data" \in thread[t].seen /\ conn[c].queue # <<>>
           THEN Send(t, c)
           ELSE /\ thread' = [IF "quit" \in thread[t].seen THEN Goes(t, "closing", c)
                              ELSE Goes(t, "idle", 0)
                              EXCEPT ![t].reading = 0, ![t].seen = {}]
                /\ UNCHANGED <<conn, entity, told>>
        /\ UNCHANGED <<closure_delay_, active_, server_, server, user, pool_lock, pool_mutex, jobs,
                       stopper>>

\* process_response_() of an answer, in the order of the requests.
Response(t, c) ==
    /\ thread[t].at = "idle" /\ c \in thread[t].connections
    /\ conn[c].requests # <<>> /\ ~conn[c].terminating
    /\ conn' = [conn EXCEPT ![c].requests = Tail(@)]
    /\ entity' = [entity EXCEPT ![c].items = @ - 1]
    /\ AddTasks({Head(conn[c].requests)})
    /\ thread' = IF Len(conn[c].requests) = 1 THEN Goes(t, "trying", c) ELSE thread
    /\ UNCHANGED <<closure_delay_, active_, server_, server, user, pool_lock,
                   pool_mutex, jobs, stopper>>

\* process_response_() of a failure: evhttp tells it without a request, or as
\* an answer without a code, when the connection must be freed later.
Failure(t, c) ==
    /\ thread[t].at = "idle" /\ c \in thread[t].connections
    /\ conn[c].requests # <<>> /\ ~conn[c].terminating
    /\ \E at \in {"closing", "partly"} : thread' = Goes(t, at, c)
    /\ UNCHANGED <<closure_delay_, active_, server_, server, conn, entity, user, told,
                   pool_lock, pool_mutex, jobs, stopper>>

\* try_close_event_ and term_event_
Timer(t) ==
    /\ thread[t].at = "idle"
    /\ \/ /\ thread[t].timer
          /\ thread' = [thread EXCEPT ![t] = [@ EXCEPT !.timer = FALSE, !.at = "trying", !.what = t]]
          /\ UNCHANGED conn
       \/ \E c \in thread[t].connections :
            \/ /\ conn[c].timer
               /\ conn' = [conn EXCEPT ![c].timer = FALSE]
               /\ thread' = Goes(t, "trying", c)
            \/ /\ conn[c].term
               /\ conn' = [conn EXCEPT ![c].term = FALSE]
               /\ thread' = Goes(t, "closing", c)
    /\ UNCHANGED <<closure_delay_, active_, server_, server, entity, user, told,
                   pool_lock, pool_mutex, jobs, stopper>>

\* Connection::try_close_() and EventThread::try_close_() ask the policy.
TryClose(t) ==
    LET e == thread[t].what
        map == IF e = t THEN Choice ELSE server[conn[e].server].connections
        answer == WhenClose(e, map)
        pending == IF e = t THEN thread[t].timer ELSE conn[e].timer
        later == answer[2] = "later"
    IN  /\ thread[t].at = "trying"
        /\ IF pending \/ e \notin map
           THEN thread' = GoesBack(t) /\ UNCHANGED <<conn, entity>>
           ELSE /\ entity' = [entity EXCEPT ![e].state = answer[1]]
                /\ conn' = IF later /\ e # t THEN [conn EXCEPT ![e].timer = TRUE] ELSE conn
                /\ thread' = [IF answer[2] = "yes" THEN Goes(t, IF e = t THEN "leaving" ELSE "closing", e)
                                                   ELSE GoesBack(t)
                              EXCEPT ![t].timer = @ \/ (later /\ e = t)]
        /\ UNCHANGED <<closure_delay_, active_, server_, server, user, told, pool_lock,
                       pool_mutex, jobs, stopper>>

MutExcludeFromServer(c) ==
    LET s == conn[c].server
    IN  /\ ~server[s].lock
        /\ server' = [server EXCEPT ![s].connections = @ \ {c}]
        /\ entity' = [entity EXCEPT ![c] = Fresh]

\* Server::exclude_connection(); the policy forgets the connection.  Nobody
\* acquires the semaphore of a server that has been removed.
ExcludeFromServer(c) ==
    LET s == conn[c].server
        rest == server[s].connections \ {c}
    IN  /\ ~server[s].lock
        /\ server' = [server EXCEPT ![s] = [@ EXCEPT
               !.connections = rest,
               !.released = @ \/ (server[s].deactivating /\ rest = {} /\ s = server_)]]
        /\ entity' = [entity EXCEPT ![c] = Fresh]

Flushed(c) ==
    [conn[c] EXCEPT !.requests = @ \o conn[c].queue, !.queue = <<>>, !.pipe = {}, !.terminating = TRUE]

\* process_close() begins, or process_partial_close_() for now.  A connection
\* that closes itself while its queue is read has no request left, and the
\* reading is over: the loop goes on in the code, but with an empty queue.
CloseBegin(t) ==
    LET c == thread[t].what
    IN  /\ thread[t].at \in {"closing", "partly"}
        /\ ExcludeFromServer(c)
        /\ IF thread[t].at = "closing"
           THEN /\ thread' = [Goes(t, "closed", c) EXCEPT ![t].reading = 0, ![t].seen = {}]
                /\ conn' = [conn EXCEPT ![c].terminating = TRUE]
           ELSE thread' = GoesBack(t) /\ conn' = [conn EXCEPT ![c] = [Flushed(c) EXCEPT !.term = TRUE]]
        /\ UNCHANGED <<closure_delay_, active_, server_, user, told, pool_lock,
                       pool_mutex, jobs, stopper>>

\* process_close() flushes the queue and leaves the thread.
CloseEnd(t) ==
    LET c == thread[t].what
        rest == thread[t].connections \ {c}
    IN  /\ thread[t].at = "closed"
        /\ conn' = [conn EXCEPT ![c] = [Flushed(c) EXCEPT !.timer = FALSE, !.term = FALSE]]
        /\ entity' = IF c \in thread[t].connections /\ t \in Choice
                     THEN [entity EXCEPT ![t] = [@ EXCEPT !.items = @ - 1, !.full = FALSE]] ELSE entity
        /\ thread' = [IF rest = {} THEN Goes(t, "trying", t) ELSE GoesBack(t) EXCEPT ![t].connections = rest]
        /\ UNCHANGED <<closure_delay_, active_, server_, server, user, told, pool_lock,
                       pool_mutex, jobs, stopper>>

\* exclude_thread_from_choice_list(), and the end of the loop.
Leave(t) ==
    /\ thread[t].at = "leaving" /\ ~pool_lock
    /\ IF t \in Choice
       THEN /\ thread' = [thread EXCEPT ![t] = [@ EXCEPT
                   !.at = Back(t), !.what = 0, !.list = "leaving", !.quit = TRUE]]
            /\ entity' = [entity EXCEPT ![t] = Fresh]
            /\ jobs' = jobs \cup {<<"join", t>>}
       ELSE thread' = GoesBack(t) /\ UNCHANGED <<entity, jobs>>
    /\ UNCHANGED <<closure_delay_, active_, server_, server, conn, user, told,
                   pool_lock, pool_mutex, stopper>>

\* The end of thread_proc_(): what is left is closed.
Ending(t) ==
    \/ /\ thread[t].at = "idle" /\ thread[t].quit
       /\ thread' = [thread EXCEPT ![t] = [@ EXCEPT
              !.at = "ending", !.final = TRUE, !.queue = <<>>, !.pipe = {},
              !.connections = @ \cup Range(thread[t].queue)]]
       /\ UNCHANGED <<closure_delay_, active_, server_, server, conn, entity, user, told,
                      pool_lock, pool_mutex, jobs, stopper>>
    \/ /\ thread[t].at = "ending"
       /\ thread' = IF thread[t].connections = {}
                    THEN [thread EXCEPT ![t] = [NoThread EXCEPT !.at = "ended", !.list = thread[t].list]]
                    ELSE Goes(t, "closing", Least(thread[t].connections))
       /\ UNCHANGED <<closure_delay_, active_, server_, server, conn, entity, user, told,
                      pool_lock, pool_mutex, jobs, stopper>>

Unreferenced(c) ==
    /\ conn[c].server # 0
    /\ c \notin UNION {server[s].connections : s \in Servers}
    /\ \A t \in EventThreads : c \notin thread[t].connections \cup Range(thread[t].queue)
    /\ \A r \in Requests : user[r].conn # c

MutDestroyed(c) ==
    LET left == conn[c].requests
    IN  /\ Unreferenced(c)
        /\ conn' = [conn EXCEPT ![c] = NoConnection]
        /\ jobs' = IF left = <<>> THEN jobs ELSE jobs \cup {<<"transfer", conn[c].server, left>>}
        /\ UNCHANGED <<closure_delay_, active_, server_, server, thread, entity, user, told,
                       pool_lock, pool_mutex, stopper>>

\* ~Connection(), when the last reference goes, hands over what is left.
Destroyed(c) ==
    LET left == conn[c].requests \o conn[c].queue
    IN  /\ Unreferenced(c)
        /\ conn' = [conn EXCEPT ![c] = NoConnection]
        /\ jobs' = IF left = <<>> THEN jobs ELSE jobs \cup {<<"transfer", conn[c].server, left>>}
        /\ UNCHANGED <<closure_delay_, active_, server_, server, thread, entity, user, told,
                       pool_lock, pool_mutex, stopper>>

-----------------------------------------------------------------------------
(* The task runner. *)

MutResent(left) == Range(left)

\* RP_CANCEL_FIRST_RESEND_OTHERS
Resent(left) == Range(Tail(left))

\* RequestsTransferer::execute(), process_requests(): what has waited behind
\* the first is sent again unless the server stops.
Transfer(s, left) ==
    LET again == IF server[s].deactivating THEN {} ELSE Resent(left)
    IN  /\ <<"transfer", s, left>> \in jobs
        /\ jobs' = jobs \ {<<"transfer", s, left>>}
        /\ AddTasks({Head(left)} \cup (Range(left) \ again))
        /\ user' = [r \in Requests |->
                      IF r \in again
                      THEN [user[r] EXCEPT !.at = "found", !.server = s, !.again = TRUE] ELSE user[r]]
        /\ UNCHANGED <<closure_delay_, active_, server_, server, conn, thread, entity,
                       pool_lock, pool_mutex, stopper>>

\* EventThread::execute(), which does nothing for a thread that is joined.
Join(t) ==
    /\ <<"join", t>> \in jobs
    /\ thread[t].at = "ended" /\ thread[t].list = "leaving" /\ ~pool_lock
    /\ jobs' = jobs \ {<<"join", t>>}
    /\ thread' = [thread EXCEPT ![t] = NoThread]
    /\ UNCHANGED <<closure_delay_, active_, server_, server, conn, entity, user, told,
                   pool_lock, pool_mutex, stopper>>

-----------------------------------------------------------------------------
(* HttpAsyncPool::deactivate_object() *)

StopBegin ==
    /\ stopper.at = "none" /\ active_
    /\ stopper' = [at |-> "loop", what |-> 0]
    /\ UNCHANGED <<closure_delay_, active_, server_, server, conn, thread, entity, user, told,
                   pool_lock, pool_mutex, jobs>>

\* One server after the other, then the threads with the mutex held.
StopNext ==
    /\ stopper.at = "loop" /\ ~pool_mutex
    /\ IF server_ = 0
       THEN stopper' = [at |-> "threads", what |-> 0] /\ pool_mutex' = TRUE /\ UNCHANGED server
       ELSE /\ stopper' = [at |-> "server", what |-> server_]
            /\ server' = [server EXCEPT ![server_].deactivating = TRUE]
            /\ UNCHANGED pool_mutex
    /\ UNCHANGED <<closure_delay_, active_, server_, conn, thread, entity, user, told, pool_lock, jobs>>

\* Server::deactivate() asks the connections to quit and waits for the last.
StopServer ==
    LET s == stopper.what
        all == server[s].connections
    IN  /\ stopper.at = "server" /\ ~server[s].lock
        /\ conn' = [c \in Connections |->
                      IF c \in all THEN [conn[c] EXCEPT !.pipe = @ \cup {"quit"}] ELSE conn[c]]
        /\ stopper' = [stopper EXCEPT !.at = IF all = {} THEN "remove" ELSE "acquire"]
        /\ UNCHANGED <<closure_delay_, active_, server_, server, thread, entity, user, told,
                       pool_lock, pool_mutex, jobs>>

StopAcquire ==
    /\ stopper.at = "acquire" /\ server[stopper.what].released
    /\ stopper' = [stopper EXCEPT !.at = "remove"]
    /\ UNCHANGED <<closure_delay_, active_, server_, server, conn, thread, entity, user, told,
                   pool_lock, pool_mutex, jobs>>

\* remove_by_address()
StopRemove ==
    /\ stopper.at = "remove" /\ ~pool_mutex
    /\ server_' = 0
    /\ server' = [server EXCEPT ![server_].released = FALSE]
    /\ stopper' = [at |-> "loop", what |-> 0]
    /\ UNCHANGED <<closure_delay_, active_, conn, thread, entity, user, told, pool_lock,
                   pool_mutex, jobs>>

\* EventThreadPool::deactivate_object(): threads_, deactivating_threads_.
StopThreads ==
    LET leaving == {t \in EventThreads : thread[t].list = "leaving"}
        from == IF Choice # {} THEN Choice ELSE leaving
        t == Least(from)
    IN  /\ stopper.at = "threads" /\ ~pool_lock
        /\ IF from # {}
           THEN /\ thread' = [thread EXCEPT ![t] = [@ EXCEPT
                       !.list = "out", !.pipe = IF Choice # {} THEN @ \cup {"quit"} ELSE @]]
                /\ stopper' = [at |-> "join", what |-> t]
                /\ entity' = [entity EXCEPT ![t] = Fresh]
                /\ UNCHANGED <<active_, pool_mutex>>
           ELSE /\ active_' = FALSE /\ pool_mutex' = FALSE
                /\ stopper' = [at |-> "done", what |-> 0]
                /\ UNCHANGED <<thread, entity>>
        /\ UNCHANGED <<closure_delay_, server_, server, conn, user, told, pool_lock, jobs>>

StopJoin ==
    /\ stopper.at = "join" /\ thread[stopper.what].at = "ended"
    /\ stopper' = [at |-> "threads", what |-> 0]
    /\ thread' = [thread EXCEPT ![stopper.what] = NoThread]
    /\ jobs' = jobs \ {<<"join", stopper.what>>}
    /\ UNCHANGED <<closure_delay_, active_, server_, server, conn, entity, user, told, pool_lock,
                   pool_mutex>>

-----------------------------------------------------------------------------

UserStep(r) ==
    \/ FindServer(r) \/ Choose(r) \/ Place(r) \/ Placed(r) \/ HandOver(r) \/ SignalThread(r)
    \/ Counted(r) \/ Queued(r) \/ SignalConnection(r)

ThreadStep(t) ==
    \/ ReadThread(t) \/ PopThread(t) \/ PopConnection(t) \/ TryClose(t) \/ CloseBegin(t) \/ CloseEnd(t)
    \/ Leave(t) \/ Ending(t)
    \/ \E c \in Connections : ReadConnection(t, c)

StopStep ==
    StopNext \/ StopServer \/ StopAcquire \/ StopRemove \/ StopThreads \/ StopJoin

TransferStep == \E j \in jobs : j[1] = "transfer" /\ Transfer(j[2], j[3])

EventStep(t) ==
    \/ ThreadStep(t) \/ Timer(t)
    \/ \E c \in Connections : Response(t, c) \/ Failure(t, c)

\* What is done once and goes on.
OtherStep ==
    \/ \E r \in Requests : UserStep(r)
    \/ \E t \in EventThreads : Join(t)
    \/ TransferStep \/ StopStep

\* A destructor runs at once.
HttpNext ==
    \/ \E c \in Connections : Destroyed(c)
    \/ /\ \A c \in Connections : ~Unreferenced(c)
       /\ \/ \E r \in Requests : IsActive(r)
          \/ \E t \in EventThreads : EventStep(t)
          \/ StopBegin \/ OtherStep

-----------------------------------------------------------------------------

\* The callback of a request is called at most once, and never when
\* add_request_() has thrown: each request is in one place at a time, however
\* its connection ends.
CallbackAtMostOnce ==
    \A r \in Requests : told[r] <= (IF user[r].at = "refused" THEN 0 ELSE 1)

\* What the policy counts for a connection its server still has is what was
\* given to it and not answered: the choice by load and the decision to close
\* rest on the count, which user threads and the event thread both change.
CountExact ==
    \A s \in Servers : \A c \in server[s].connections :
      entity[c].items = Len(conn[c].queue) + Len(conn[c].requests)
                        + Cardinality({r \in Requests : user[r].conn = c /\ user[r].at = "counted"})

\* A connection is never handed to an event thread that has left its loop for
\* good: try_close_() must not win over a user who has chosen the thread.
NobodyStranded ==
    \A t \in EventThreads : thread[t].at \in {"none", "ended"} => thread[t].queue = <<>>
=============================================================================
