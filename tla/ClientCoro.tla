----------------------------- MODULE ClientCoro -----------------------------
(***************************************************************************)
(* ClientCoro (src/UServerUtils/Grpc/Client/ClientCoro.hpp): coroutines    *)
(* that call write() share one bidirectional gRPC stream.  Each registers  *)
(* a promise under a number with an event of the stream's completion       *)
(* queue, writes its request, and waits for the promise with a time limit. *)
(* The thread of the queue fulfils promises with the answers, which carry  *)
(* the number, and fails all of them when the stream ends.                 *)
(***************************************************************************)
EXTENDS Integers, Sequences

CONSTANT Writers                \* the calls of write(), each with its number

VARIABLES
    at,                         \* "new", "registered", "waiting", "ok", "timeout", "error"
    queue,                      \* the events of the completion queue, in order
    requests_,                  \* numbers with a promise
    promise,                    \* "pending", "value", "exception"
    sent,                       \* requests the server has and may answer
    is_stopped_                 \* on_finish() has been called

coroVars == <<at, queue, requests_, promise, sent, is_stopped_>>

CoroInit ==
    /\ at = [w \in Writers |-> "new"]
    /\ queue = << >> /\ requests_ = {} /\ sent = {} /\ is_stopped_ = FALSE
    /\ promise = [w \in Writers |-> "pending"]

Returned(w) == at[w] \in {"ok", "timeout", "error"}
Notify(event, w) == queue' = Append(queue, [event |-> event, of |-> w])

-----------------------------------------------------------------------------
(* write() *)

\* EventCoro takes the promise to the thread of the queue.
Register(w) ==
    /\ at[w] = "new"
    /\ at' = [at EXCEPT ![w] = "registered"]
    /\ Notify("register", w)
    /\ UNCHANGED <<requests_, promise, sent, is_stopped_>>

\* writer()->write(); if the stream is gone that is an error, and
\* EventTimeoutCoro takes the promise out again.
Write(w) ==
    /\ at[w] = "registered"
    /\ \/ /\ at' = [at EXCEPT ![w] = "waiting"]
          /\ Notify("write", w)
       \/ /\ at' = [at EXCEPT ![w] = "error"]
          /\ Notify("timeout", w)
    /\ UNCHANGED <<requests_, promise, sent, is_stopped_>>

\* wait_for(): the answer, or the limit or an exception and EventTimeoutCoro.
MutWait(w) ==
    /\ at[w] = "waiting"
    /\ at' = [at EXCEPT ![w] = IF promise[w] = "value" THEN "ok"
                               ELSE IF promise[w] = "pending" THEN "timeout" ELSE "error"]
    /\ IF promise[w] # "exception" THEN UNCHANGED queue ELSE Notify("timeout", w)
    /\ UNCHANGED <<requests_, promise, sent, is_stopped_>>

Wait(w) ==
    /\ at[w] = "waiting"
    /\ at' = [at EXCEPT ![w] = IF promise[w] = "value" THEN "ok"
                               ELSE IF promise[w] = "pending" THEN "timeout" ELSE "error"]
    /\ IF promise[w] = "value" THEN UNCHANGED queue ELSE Notify("timeout", w)
    /\ UNCHANGED <<requests_, promise, sent, is_stopped_>>

-----------------------------------------------------------------------------
(* The thread of the completion queue. *)

\* on_event(): a promise that comes after the end of the stream fails at once.
MutOnEvent(w) ==
    /\ requests_' = requests_ \cup {w}
    /\ UNCHANGED <<promise, sent>>

OnEvent(w) ==
    \/ /\ ~is_stopped_
       /\ requests_' = requests_ \cup {w}
       /\ UNCHANGED <<promise, sent>>
    \/ /\ is_stopped_
       /\ promise' = [promise EXCEPT ![w] = "exception"]
       /\ UNCHANGED <<requests_, sent>>

OnTimeout(w) == requests_' = requests_ \ {w} /\ UNCHANGED <<promise, sent>>

Handle ==
    /\ queue # << >>
    /\ queue' = Tail(queue)
    /\ CASE Head(queue).event = "register" -> OnEvent(Head(queue).of)
         [] Head(queue).event = "timeout" -> OnTimeout(Head(queue).of)
         [] OTHER -> /\ sent' = IF is_stopped_ THEN sent ELSE sent \cup {Head(queue).of}
                     /\ UNCHANGED <<requests_, promise>>
    /\ UNCHANGED <<at, is_stopped_>>

\* on_read(): an answer that comes after the time limit finds no promise.
OnRead(w) ==
    /\ w \in sent /\ ~is_stopped_
    /\ sent' = sent \ {w}
    /\ promise' = [promise EXCEPT ![w] = IF w \in requests_ THEN "value" ELSE @]
    /\ requests_' = requests_ \ {w}
    /\ UNCHANGED <<at, queue, is_stopped_>>

OnFinish ==
    /\ ~is_stopped_
    /\ is_stopped_' = TRUE
    /\ promise' = [w \in Writers |-> IF w \in requests_ THEN "exception" ELSE promise[w]]
    /\ requests_' = {}
    /\ UNCHANGED <<at, queue, sent>>

CoroNext ==
    \/ \E w \in Writers : Register(w) \/ Write(w) \/ Wait(w) \/ OnRead(w)
    \/ Handle \/ OnFinish

Queued(event, w) == \E i \in 1 .. Len(queue) : queue[i] = [event |-> event, of |-> w]

-----------------------------------------------------------------------------
\* Promises do not pile up: one whose caller has gone is about to be taken out,
\* in whatever order the answer, the time limit and the end of the stream come.
NoPromiseLeft == \A w \in Writers : w \in requests_ /\ Returned(w) => Queued("timeout", w)

\* Nobody waits out the time limit on a stream that has ended: each promise has
\* failed or is still on its way to the thread that will fail it.
EndReachesWriters ==
    \A w \in Writers : is_stopped_ /\ at[w] = "waiting" =>
                         promise[w] # "pending" \/ Queued("register", w)
=============================================================================
