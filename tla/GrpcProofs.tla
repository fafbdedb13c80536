----------------------------- MODULE GrpcProofs -----------------------------
(***************************************************************************)
(* The invariants of the gRPC server and client that MCGrpc checks, and    *)
(* the order of Write and Finish, for every number of calls and messages.  *)
(*                                                                         *)
(* Server: a call leaves the pool in try_close() when it is closed and     *)
(* gRPC has no read, write, finish or done of it.  That no request for a   *)
(* connection is left either needs Unaccepted: a call is closed only after *)
(* its connection has come.  FinishGiven ties the Finish operations given  *)
(* to the tag that is out and to is_finished_.                             *)
(*                                                                         *)
(* Client: an object that need_remove() is about to destroy has nothing    *)
(* with gRPC and handles no events (Places); the observer is told when the *)
(* Finish tag comes back or the call cannot be started, so a started call  *)
(* has either the tag or a told observer (FinishExpected); and once        *)
(* WritesDone is given the state has left "initialize" (WritesOpen).       *)
(***************************************************************************)
EXTENDS MCGrpc, SequenceTheorems, TLAPS

(* What gRPC may have of a call of the server, and what a queue may hold. *)
Operations == {"connection", "read", "write", "finish", "done"}
Items == {"write", "finish", "stop"}

ServerTypes ==
    /\ rpcs_ \subseteq Rpcs
    /\ rpc_state \in [Rpcs -> {"idle", "connected", "closed", "stopped"}]
    /\ pending_queue_ \in [Rpcs -> Seq(Items)]
    /\ notified \in [Rpcs -> Seq(Items)]
    /\ is_finished_ \in [Rpcs -> BOOLEAN]
    /\ tags \in [Rpcs -> SUBSET Operations]
    /\ finishes \in [Rpcs -> 0 .. 1]

(* A call that gRPC has not accepted yet is idle, or stopped before that. *)
Unaccepted == \A r \in Rpcs : "connection" \in tags[r] => rpc_state[r] \in {"idle", "stopped"}

(* A Finish was given exactly if its tag is out or has come back, and no   *)
(* Write is out beside it.                                                 *)
FinishGiven ==
    \A r \in Rpcs :
      /\ finishes[r] = 1 <=> "finish" \in tags[r] \/ is_finished_[r]
      /\ ~("write" \in tags[r] /\ "finish" \in tags[r])

(* The server's inductive invariant. *)
ServerInv == ServerTypes /\ Unaccepted /\ FinishGiven /\ RI!NoTagOfDestroyed

-----------------------------------------------------------------------------
(* What a client may be asked to write, and its states. *)
Posts == {"write", "writes_done"}
ClientStates == {"none", "idle", "initialize", "writes_done", "finish", "error", "stop"}

ClientTypes ==
    /\ clients_ \subseteq Clients
    /\ client_state \in [Clients -> ClientStates]
    /\ pending \in [Clients -> Seq(Posts)]
    /\ events \in [Clients -> Seq(Posts \cup {"start", "stop"})]
    /\ operations \in [Clients -> SUBSET {"initialize", "read", "write", "finish"}]
    /\ initialized \in [Clients -> BOOLEAN]
    /\ told \in [Clients -> 0 .. 1]
    /\ given \in [Clients -> Seq(Posts)]

(* What is being destroyed is still in the factory, and gRPC has nothing   *)
(* of it, as of all that has left the factory or was never there.          *)
Places ==
    /\ \A c \in removing : c \in clients_ /\ operations[c] = {}
    /\ \A c \in Clients : client_state[c] = "none" => c \notin clients_
    /\ \A c \in Clients : c \notin clients_ => operations[c] = {}

(* Nothing is out before the start; the observer is told at the end, once, *)
(* and until then the Finish tag of a started call is out.                 *)
FinishExpected ==
    \A c \in Clients :
      /\ client_state[c] \in {"none", "idle"} =>
           operations[c] \subseteq {"initialize"} /\ ~initialized[c] /\ told[c] = 0
      /\ client_state[c] = "finish" => told[c] = 1
      /\ told[c] = 1 => "finish" \notin operations[c]
      /\ initialized[c] /\ told[c] = 0 => "finish" \in operations[c]

(* WritesDone, if given, was given last, and the state shows it. *)
WritesOpen ==
    \A c \in Clients : \A i \in 1 .. Len(given[c]) :
      given[c][i] = "writes_done" =>
        i = Len(given[c]) /\ client_state[c] \notin {"none", "idle", "initialize"}

(* The client's inductive invariant. *)
ClientInv == ClientTypes /\ Places /\ FinishExpected /\ WritesOpen
-----------------------------------------------------------------------------
(* The front of a queue, and what is left of it. *)
LEMMA Front == ASSUME NEW S, NEW q \in Seq(S), q # << >>
               PROVE  Head(q) \in S /\ Tail(q) \in Seq(S)
  OBVIOUS

(* A queue with one more item. *)
LEMMA Back == ASSUME NEW S, NEW q \in Seq(S), NEW x \in S
              PROVE  Append(q, x) \in Seq(S) /\ Append(q, x) # << >>
  BY AppendProperties

(* execute_queue() of the server, after a write or without one: it may     *)
(* stop the call, and gives gRPC a Write or the one Finish only when       *)
(* neither is out and no Finish has been given.                            *)
LEMMA Executed ==
    ASSUME ServerInv, NEW r \in Rpcs, r \in rpcs_, NEW queue \in Seq(Items), NEW left,
           left \in {tags[r], tags[r] \ {"write"}},
           RI!ExecuteQueue(r, queue, left), UNCHANGED is_finished_
    PROVE  /\ rpc_state' \in [Rpcs -> {"idle", "connected", "closed", "stopped"}]
           /\ \A q \in Rpcs : rpc_state'[q] # rpc_state[q] => rpc_state'[q] = "stopped"
           /\ pending_queue_' \in [Rpcs -> Seq(Items)]
           /\ tags' \in [Rpcs -> SUBSET Operations]
           /\ \A q \in Rpcs \ {r} : tags'[q] = tags[q]
           /\ "connection" \in tags'[r] => "connection" \in tags[r]
           /\ finishes' \in [Rpcs -> 0 .. 1]
           /\ FinishGiven'
           /\ \A q \in Rpcs : "write" \in tags'[q] \ tags[q] => finishes[q] = 0
<1> USE DEF ServerInv, ServerTypes
<1>0. ASSUME RI!Keep(r, left)
      PROVE  /\ tags' \in [Rpcs -> SUBSET Operations]
             /\ \A q \in Rpcs \ {r} : tags'[q] = tags[q]
             /\ tags'[r] \subseteq tags[r]
             /\ finishes' = finishes
             /\ FinishGiven'
  <2>1. tags' = [tags EXCEPT ![r] = left] /\ finishes' = finishes
    BY <1>0 DEF RI!Keep
  <2>2. /\ tags' \in [Rpcs -> SUBSET Operations]
        /\ \A q \in Rpcs \ {r} : tags'[q] = tags[q]
        /\ tags'[r] \subseteq tags[r]
    BY <2>1
  <2>3. \A q \in Rpcs : ("finish" \in tags'[q]) = ("finish" \in tags[q])
    BY <2>1
  <2> QED
    BY <2>1, <2>2, <2>3 DEF FinishGiven
<1>1. CASE ~RI!Executable(r, queue, left)
  BY Zenon, <1>0, <1>1 DEF RI!ExecuteQueue, RI!Keep
<1>2. CASE RI!Executable(r, queue, left)
  <2> queue # << >> /\ left \cap {"write", "finish"} = {}
    BY <1>2 DEF RI!Executable
  <2> Head(queue) \in Items /\ Tail(queue) \in Seq(Items)
    BY Front
  <2>1. pending_queue_' = [pending_queue_ EXCEPT ![r] = Tail(queue)]
    BY <1>2 DEF RI!ExecuteQueue
  <2>2. /\ rpc_state' \in [Rpcs -> {"idle", "connected", "closed", "stopped"}]
        /\ \A q \in Rpcs : rpc_state'[q] # rpc_state[q] => rpc_state'[q] = "stopped"
    BY Zenon, <1>2 DEF RI!ExecuteQueue
  <2>3. CASE RI!Keep(r, left)
    BY Zenon, <1>0, <2>1, <2>2, <2>3
  <2>4. CASE ~RI!Keep(r, left)
    <3>1. ~is_finished_[r] /\ finishes[r] = 0
      BY <1>2, <2>4 DEF RI!ExecuteQueue, RI!Spent, FinishGiven
    <3>2. PICK operation \in {"write", "finish"} : RI!Give(r, operation, left)
      BY <1>2, <2>4 DEF RI!ExecuteQueue, Items
    <3>3. /\ tags' = [tags EXCEPT ![r] = left \cup {operation}]
          /\ finishes' = [finishes EXCEPT ![r] = IF operation = "finish" THEN 1 ELSE 0]
      BY <3>1, <3>2 DEF RI!Give
    <3>4. /\ tags' \in [Rpcs -> SUBSET Operations]
          /\ finishes' \in [Rpcs -> 0 .. 1]
          /\ \A q \in Rpcs \ {r} : tags'[q] = tags[q] /\ finishes'[q] = finishes[q]
          /\ "connection" \in tags'[r] => "connection" \in tags[r]
      <4>1. left \cup {operation} \in SUBSET Operations
        BY Zenon DEF Operations
      <4>2. tags' \in [Rpcs -> SUBSET Operations]
        BY <3>3, <4>1
      <4> QED
        BY <3>3, <4>2
    <3>5. /\ "finish" \in tags'[r] <=> operation = "finish"
          /\ "write" \in tags'[r] <=> operation = "write"
          /\ finishes'[r] = 1 <=> operation = "finish"
      BY <3>3
    <3>6. ASSUME NEW q \in Rpcs
          PROVE  /\ finishes'[q] = 1 <=> "finish" \in tags'[q] \/ is_finished_'[q]
                 /\ ~("write" \in tags'[q] /\ "finish" \in tags'[q])
      <4>1. CASE q = r
        BY <3>1, <3>5, <4>1
      <4>2. CASE q # r
        BY <3>4, <4>2 DEF FinishGiven
      <4> QED
        BY <4>1, <4>2
    <3>7. FinishGiven'
      BY <3>6 DEF FinishGiven
    <3> QED
      BY Zenon, <2>1, <2>2, <3>1, <3>4, <3>7
  <2> QED
    BY <2>3, <2>4
<1> QED
  BY <1>1, <1>2
(* The server that waits for its first call. *)
LEMMA ServerInit == RI!RpcInit => ServerInv
<1> SUFFICES ASSUME RI!RpcInit PROVE ServerInv
  OBVIOUS
<1> USE RpcsAssumption DEF RI!RpcInit
<1>1. ServerTypes
  BY DEF ServerTypes, Operations
<1>2. Unaccepted /\ RI!NoTagOfDestroyed
  BY DEF Unaccepted, RI!NoTagOfDestroyed
<1>3. FinishGiven
  BY DEF FinishGiven
<1> QED
  BY <1>1, <1>2, <1>3 DEF ServerInv

(* What a step of the server does right: the invariant, and that a Write   *)
(* is given only before the Finish.                                        *)
ServerRight == ServerInv' /\ \A r \in Rpcs : "write" \in tags'[r] \ tags[r] => finishes[r] = 0

(* Every step of the server is right. *)
LEMMA ServerStep ==
    ASSUME ServerInv, [RI!RpcNext]_riVars
    PROVE  ServerRight
<1> USE DEF ServerRight, ServerInv, ServerTypes
<1>1. ASSUME NEW r \in Rpcs, RI!ConnectionFails(r) PROVE ServerRight
  BY <1>1 DEF RI!ConnectionFails, RI!Closing, RI!TryClose, Unaccepted, FinishGiven,
     RI!NoTagOfDestroyed, Operations
<1>2. ASSUME NEW r \in Rpcs, NEW n \in Rpcs \cup {0}, RI!Connection(r, n) PROVE ServerRight
  <2> DEFINE left == tags[r] \ {"connection"}
             accepted == IF RI!StreamsIn THEN left \cup {"read"} ELSE left
  <2>1. /\ "connection" \in tags[r] /\ r \in rpcs_
        /\ UNCHANGED <<pending_queue_, is_finished_, finishes>>
    BY <1>2 DEF RI!Connection, RI!NoTagOfDestroyed
  <2>2. CASE tags' = [tags EXCEPT ![r] = left] /\ UNCHANGED <<rpcs_, notified>>
    <3>1. \/ UNCHANGED rpc_state
          \/ rpc_state' = [rpc_state EXCEPT ![r] = "connected"]
      BY <1>2 DEF RI!Connection
    <3> QED
      BY ZenonT(40), <2>1, <2>2, <3>1 DEF Unaccepted, FinishGiven, RI!NoTagOfDestroyed, Operations
  <2>3. CASE /\ n \in Rpcs \ RI!Used
             /\ rpc_state' = [rpc_state EXCEPT ![r] = "connected"]
             /\ rpcs_' = rpcs_ \cup {n}
             /\ RI!Created(n, [tags EXCEPT ![r] = accepted])
             /\ notified' = RI!Added(n)
    <3>1. n # r /\ tags[n] = {} /\ rpc_state[n] = "idle"
      BY <2>1, <2>3 DEF RI!Used
    <3>2. accepted \in SUBSET Operations /\ "connection" \notin accepted
      BY DEF Operations
    <3>3. tags' = [tags EXCEPT ![r] = accepted, ![n] = {"connection", "done"}]
      BY <2>3, <3>1 DEF RI!Created
    <3>4. /\ tags'[r] = accepted /\ tags'[n] = {"connection", "done"}
          /\ \A q \in Rpcs \ {r, n} : tags'[q] = tags[q]
      BY Zenon, <2>3, <3>1, <3>3
    <3>5. tags' \in [Rpcs -> SUBSET Operations]
      <4>1. {"connection", "done"} \in SUBSET Operations
        BY DEF Operations
      <4> QED
        BY Zenon, <3>2, <3>3, <4>1
    <3>6. <<"finish", "stop">> \in Seq(Items)
      BY DEF Items
    <3>7. notified' \in [Rpcs -> Seq(Items)]
      BY <2>3, <3>6 DEF RI!Added
    <3>8. Unaccepted' /\ RI!NoTagOfDestroyed'
      BY ZenonT(40), <2>1, <2>3, <3>1, <3>2, <3>4 DEF Unaccepted, RI!NoTagOfDestroyed
    <3>9. \A q \in Rpcs : /\ "finish" \in tags'[q] <=> "finish" \in tags[q]
                          /\ "write" \in tags'[q] <=> "write" \in tags[q]
      <4>1. /\ "finish" \in accepted <=> "finish" \in tags[r]
            /\ "write" \in accepted <=> "write" \in tags[r]
        OBVIOUS
      <4> HIDE DEF accepted
      <4>2. "finish" \notin tags'[n] /\ "write" \notin tags'[n]
        BY <3>4
      <4> QED
        BY <3>1, <3>4, <4>1, <4>2, Zenon
    <3>10. FinishGiven'
      BY <2>1, <3>9 DEF FinishGiven
    <3> QED
      BY Zenon, <2>1, <2>3, <3>5, <3>7, <3>8, <3>9, <3>10
  <2> QED
    BY SMTT(30), <1>2, <2>2, <2>3 DEF RI!Connection
<1>3. ASSUME NEW r \in Rpcs, NEW ok \in BOOLEAN, RI!Read(r, ok) PROVE ServerRight
  BY <1>3 DEF RI!Read, RI!TryClose, Unaccepted, FinishGiven, RI!NoTagOfDestroyed, Operations
<1>4. ASSUME NEW r \in Rpcs, NEW ok \in BOOLEAN, RI!Write(r, ok) PROVE ServerRight
  <2> DEFINE left == tags[r] \ {"write"}
  <2>1. "write" \in tags[r] /\ r \in rpcs_
    BY <1>4 DEF RI!Write, RI!NoTagOfDestroyed
  <2>2. UNCHANGED <<notified, is_finished_>> /\ RI!TryClose(r, rpc_state'[r], tags'[r])
    BY <1>4 DEF RI!Write
  <2>3. CASE RI!ExecuteQueue(r, pending_queue_[r], left)
    BY ZenonT(40), <2>1, <2>2, <2>3, Executed DEF RI!TryClose, Unaccepted, RI!NoTagOfDestroyed,
       Operations
  <2>4. CASE RI!Keep(r, left) /\ UNCHANGED <<rpc_state, pending_queue_, is_stopped_>>
    BY <2>1, <2>2, <2>4 DEF RI!Keep, RI!TryClose, Unaccepted, FinishGiven, RI!NoTagOfDestroyed,
       Operations
  <2> QED
    BY <1>4, <2>3, <2>4 DEF RI!Write
<1>5. ASSUME NEW r \in Rpcs, RI!Finish(r) PROVE ServerRight
  BY <1>5 DEF RI!Finish, RI!TryClose, Unaccepted, FinishGiven, RI!NoTagOfDestroyed, Operations
<1>6. ASSUME NEW r \in Rpcs, RI!Done(r) PROVE ServerRight
  BY <1>6 DEF RI!Done, RI!Closing, RI!TryClose, Unaccepted, FinishGiven, RI!NoTagOfDestroyed,
     Operations
<1>7. ASSUME NEW r \in Rpcs, RI!EventQueue(r) PROVE ServerRight
  <2> DEFINE queue == Append(pending_queue_[r], Head(notified[r]))
  <2>1. Head(notified[r]) \in Items /\ Tail(notified[r]) \in Seq(Items)
    BY <1>7, Front DEF RI!EventQueue
  <2>2. queue \in Seq(Items)
    BY <2>1, Back
  <2> HIDE DEF queue
  <2>3. notified' \in [Rpcs -> Seq(Items)] /\ UNCHANGED <<rpcs_, is_finished_>>
    BY <1>7, <2>1 DEF RI!EventQueue
  <2>4. CASE r \in rpcs_ /\ RI!ExecuteQueue(r, queue, tags[r])
    BY Zenon, <2>2, <2>3, <2>4, Executed DEF Unaccepted, RI!NoTagOfDestroyed
  <2>5. CASE UNCHANGED <<rpc_state, pending_queue_, is_stopped_, tags, finishes, dead>>
    BY <2>3, <2>5 DEF Unaccepted, FinishGiven, RI!NoTagOfDestroyed
  <2> QED
    BY Zenon, <1>7, <2>4, <2>5 DEF RI!EventQueue, queue
<1>8. ASSUME NEW r \in Rpcs, NEW item \in {"write", "finish"}, RI!SendHere(r, item)
      PROVE ServerRight
  <2> DEFINE queue == Append(pending_queue_[r], item)
  <2>1. queue \in Seq(Items)
    BY Back DEF Items
  <2>2. /\ r \in rpcs_ /\ RI!ExecuteQueue(r, queue, tags[r])
        /\ UNCHANGED <<rpcs_, is_finished_, notified>>
    BY <1>8 DEF RI!SendHere
  <2> HIDE DEF queue
  <2> QED
    BY Zenon, <2>1, <2>2, Executed DEF Unaccepted, RI!NoTagOfDestroyed
<1>9. ASSUME NEW r \in Rpcs, NEW item \in {"write", "finish"}, RI!SendFromAfar(r, item)
      PROVE ServerRight
  <2>1. Append(notified[r], item) \in Seq(Items)
    BY Back DEF Items
  <2> QED
    BY <1>9, <2>1 DEF RI!SendFromAfar, Unaccepted, FinishGiven, RI!NoTagOfDestroyed
<1>10. ASSUME NEW r \in Rpcs, RI!ClientGone(r) PROVE ServerRight
  BY <1>10 DEF RI!ClientGone, Unaccepted, FinishGiven, RI!NoTagOfDestroyed
<1>11. CASE RI!Deactivate
  <2>1. \A r \in Rpcs : notified[r] \o <<"finish", "stop">> \in Seq(Items)
    BY ConcatProperties DEF Items
  <2> QED
    BY <1>11, <2>1 DEF RI!Deactivate, Unaccepted, FinishGiven, RI!NoTagOfDestroyed
<1>12. CASE RI!Wait
  BY <1>12 DEF RI!Wait, Unaccepted, FinishGiven, RI!NoTagOfDestroyed
<1>13. CASE UNCHANGED riVars
  BY <1>13 DEF riVars, Unaccepted, FinishGiven, RI!NoTagOfDestroyed
<1> QED
  BY SMTT(30), <1>1, <1>2, <1>3, <1>4, <1>5, <1>6, <1>7, <1>8, <1>9, <1>10, <1>11, <1>12,
     <1>13 DEF RI!RpcNext, RI!Handle
-----------------------------------------------------------------------------
(* A factory without clients. *)
LEMMA ClientStart == CI!ClientInit => ClientInv
<1> SUFFICES ASSUME CI!ClientInit PROVE ClientInv
  OBVIOUS
<1> USE DEF CI!ClientInit
<1>1. ClientTypes
  BY DEF ClientTypes, ClientStates, Posts
<1>2. Places /\ FinishExpected
  BY DEF Places, FinishExpected
<1>3. WritesOpen
  BY DEF WritesOpen
<1> QED
  BY <1>1, <1>2, <1>3 DEF ClientInv

(* What a handler of the events of client c leaves behind. *)
Handled(c) ==
    /\ client_state' \in [Clients -> ClientStates]
    /\ pending' \in [Clients -> Seq(Posts)]
    /\ operations' \in [Clients -> SUBSET {"initialize", "read", "write", "finish"}]
    /\ initialized' \in [Clients -> BOOLEAN]
    /\ told' \in [Clients -> 0 .. 1]
    /\ given' \in [Clients -> Seq(Posts)]
    /\ \A d \in Clients \ {c} :
         /\ client_state'[d] = client_state[d] /\ operations'[d] = operations[d]
         /\ initialized'[d] = initialized[d] /\ told'[d] = told[d] /\ given'[d] = given[d]
    /\ client_state'[c] # "none"
    /\ removing' # removing => removing' = removing \cup {c} /\ operations'[c] = {}
    /\ client_state'[c] = "idle" =>
         operations'[c] \subseteq {"initialize"} /\ ~initialized'[c] /\ told'[c] = 0
    /\ client_state'[c] = "finish" => told'[c] = 1
    /\ told'[c] = 1 => "finish" \notin operations'[c]
    /\ initialized'[c] /\ told'[c] = 0 => "finish" \in operations'[c]
    /\ \A i \in 1 .. Len(given'[c]) :
         given'[c][i] = "writes_done" =>
           i = Len(given'[c]) /\ client_state'[c] \notin {"idle", "initialize"}

(* That keeps the invariant: handlers concern one client, and what they    *)
(* begin to destroy has nothing with gRPC.                                 *)
LEMMA HandledKeeps ==
    ASSUME ClientInv, NEW c \in clients_, c \notin removing, Handled(c),
           UNCHANGED clients_, events' \in [Clients -> Seq(Posts \cup {"start", "stop"})]
    PROVE  ClientInv'
<1> USE DEF ClientInv
<1>1. ClientTypes'
  BY DEF Handled, ClientTypes
<1>2. Places'
  BY Zenon DEF Handled, Places, ClientTypes
<1>3. FinishExpected'
  <2> SUFFICES ASSUME NEW d \in Clients
               PROVE  /\ client_state'[d] \in {"none", "idle"} =>
                           /\ operations'[d] \subseteq {"initialize"}
                           /\ ~initialized'[d] /\ told'[d] = 0
                      /\ client_state'[d] = "finish" => told'[d] = 1
                      /\ told'[d] = 1 => "finish" \notin operations'[d]
                      /\ initialized'[d] /\ told'[d] = 0 => "finish" \in operations'[d]
    BY DEF FinishExpected
  <2>1. CASE d = c
    BY <2>1 DEF Handled
  <2>2. CASE d # c
    BY ZenonT(40), <2>2 DEF Handled, FinishExpected
  <2> QED
    BY <2>1, <2>2
<1>4. WritesOpen'
  <2> SUFFICES ASSUME NEW d \in Clients, NEW i \in 1 .. Len(given'[d]),
                      given'[d][i] = "writes_done"
               PROVE  i = Len(given'[d]) /\ client_state'[d] \notin {"none", "idle", "initialize"}
    BY DEF WritesOpen
  <2>1. CASE d = c
    BY <2>1 DEF Handled
  <2>2. CASE d # c
    <3>1. given'[d] = given[d] /\ client_state'[d] = client_state[d]
      BY <2>2 DEF Handled
    <3> QED
      BY <3>1 DEF WritesOpen
  <2> QED
    BY <2>1, <2>2
<1> QED
  BY <1>1, <1>2, <1>3, <1>4
(* execute_queue() of the client gives gRPC the front of the queue; after  *)
(* WritesDone the state is no longer one that gives.                       *)
LEMMA GivenInOrder ==
    ASSUME ClientInv, NEW c \in Clients, client_state[c] \in {"idle", "initialize"},
           NEW queue \in Seq(Posts), CI!Gives(c, queue)
    PROVE  /\ CI!StateAfter(queue) \in {"initialize", "writes_done"}
           /\ CI!Taken(queue) \subseteq {"write"} /\ CI!Left(queue) \in Seq(Posts)
           /\ given' \in [Clients -> Seq(Posts)]
           /\ \A d \in Clients \ {c} : given'[d] = given[d]
           /\ \A i \in 1 .. Len(given'[c]) :
                given'[c][i] = "writes_done" =>
                  i = Len(given'[c]) /\ CI!StateAfter(queue) = "writes_done"
<1> USE DEF ClientInv, ClientTypes
<1>1. /\ CI!StateAfter(queue) \in {"initialize", "writes_done"}
      /\ CI!Taken(queue) \subseteq {"write"}
  BY DEF CI!StateAfter, CI!Taken
<1>2. \A i \in 1 .. Len(given[c]) : given[c][i] # "writes_done"
  BY DEF WritesOpen
<1>3. CASE queue = << >>
  BY <1>1, <1>2, <1>3 DEF CI!Gives, CI!Left
<1>4. CASE queue # << >>
  <2>1. Head(queue) \in Posts /\ Tail(queue) \in Seq(Posts)
    BY <1>4, Front
  <2>2. given' = [given EXCEPT ![c] = Append(given[c], Head(queue))]
    BY <1>4 DEF CI!Gives
  <2>3. /\ Append(given[c], Head(queue)) \in Seq(Posts)
        /\ Len(Append(given[c], Head(queue))) = Len(given[c]) + 1
        /\ \A i \in 1 .. Len(given[c]) : Append(given[c], Head(queue))[i] = given[c][i]
        /\ Append(given[c], Head(queue))[Len(given[c]) + 1] = Head(queue)
    BY <2>1, AppendProperties
  <2>4. given'[c] = Append(given[c], Head(queue))
    BY <2>2
  <2>5. \A i \in 1 .. Len(given'[c]) : i \in 1 .. Len(given[c]) \/ i = Len(given[c]) + 1
    BY SMTT(30), <2>3, <2>4
  <2>6. \A i \in 1 .. Len(given'[c]) :
          given'[c][i] = "writes_done" => i = Len(given'[c]) /\ Head(queue) = "writes_done"
    BY <1>2, <2>3, <2>4, <2>5
  <2> QED
    BY <1>1, <1>4, <2>1, <2>2, <2>3, <2>6 DEF CI!StateAfter, CI!Left
<1> QED
  BY <1>3, <1>4

(* Client c after a handler that has called try_close(). *)
Became(c, state, left) ==
    /\ client_state' \in [Clients -> ClientStates]
    /\ pending' \in [Clients -> Seq(Posts)]
    /\ operations' \in [Clients -> SUBSET {"initialize", "read", "write", "finish"}]
    /\ \A d \in Clients \ {c} :
         client_state'[d] = client_state[d] /\ operations'[d] = operations[d]
    /\ client_state'[c] = state /\ operations'[c] = left
    /\ removing' # removing => removing' = removing \cup {c} /\ left = {}

(* try_close() begins to destroy only what has nothing with gRPC. *)
LEMMA Becoming ==
    ASSUME ClientInv, NEW c \in Clients, NEW state \in ClientStates, NEW queue \in Seq(Posts),
           NEW left \in SUBSET {"initialize", "read", "write", "finish"},
           CI!Becomes(c, state, left, queue)
    PROVE  Became(c, state, left)
<1>4. removing' # removing => removing' = removing \cup {c} /\ left = {}
  BY DEF CI!Becomes, CI!ClientTryClose
<1> USE DEF ClientInv, ClientTypes, CI!Becomes
<1>1. client_state' \in [Clients -> ClientStates] /\ pending' \in [Clients -> Seq(Posts)]
  OBVIOUS
<1>2. operations' \in [Clients -> SUBSET {"initialize", "read", "write", "finish"}]
  OBVIOUS
<1>3. /\ \A d \in Clients \ {c} :
           client_state'[d] = client_state[d] /\ operations'[d] = operations[d]
      /\ client_state'[c] = state /\ operations'[c] = left
  OBVIOUS
<1> QED
  BY <1>1, <1>2, <1>3, <1>4 DEF Became

(* A handler that ignores its event. *)
LEMMA Ignores ==
    ASSUME ClientInv, NEW c \in clients_, NEW left \in SUBSET operations[c],
           "finish" \in operations[c] => "finish" \in left, CI!Ignored(c, left)
    PROVE  Handled(c)
<1> c \in Clients /\ client_state[c] \in ClientStates /\ pending[c] \in Seq(Posts)
      /\ left \in SUBSET {"initialize", "read", "write", "finish"}
  BY Zenon DEF ClientInv, ClientTypes
<1>1. CI!Becomes(c, client_state[c], left, pending[c])
  BY DEF CI!Ignored
<1>2. UNCHANGED <<initialized, given, told>>
  BY DEF CI!Ignored
<1>3. client_state[c] # "none"
  BY DEF ClientInv, Places
<1>4. Became(c, client_state[c], left)
  BY <1>1, Becoming
<1> QED
  BY <1>2, <1>3, <1>4 DEF Became, Handled, ClientInv, ClientTypes, FinishExpected, WritesOpen

(* on_error() *)
LEMMA Errs ==
    ASSUME ClientInv, NEW c \in clients_, NEW left \in SUBSET operations[c],
           "finish" \in operations[c] => "finish" \in left,
           CI!Error(c, left), UNCHANGED initialized
    PROVE  Handled(c)
<1> c \in Clients /\ "error" \in ClientStates /\ pending[c] \in Seq(Posts)
      /\ left \in SUBSET {"initialize", "read", "write", "finish"}
  BY Zenon DEF ClientInv, ClientTypes, ClientStates
<1>1. CI!Becomes(c, "error", left, pending[c]) /\ UNCHANGED <<given, told>>
  BY DEF CI!Error
<1>2. Became(c, "error", left)
  BY <1>1, Becoming
<1> QED
  BY <1>1, <1>2 DEF Became, Handled, ClientInv, ClientTypes, FinishExpected, WritesOpen

(* on_initialize(), with success or not, or with an error on the way. *)
LEMMA Initializes ==
    ASSUME ClientInv, NEW c \in clients_, client_state[c] = "idle", NEW ok \in BOOLEAN,
           NEW left \in SUBSET operations[c], CI!Initialized(c, ok, left)
    PROVE  Handled(c)
<1> DEFINE queue == IF CI!WritesStream THEN pending[c] ELSE << >>
           read == IF CI!ReadsStream THEN {"read"} ELSE {}
           AllOps == SUBSET {"initialize", "read", "write", "finish"}
<1>0. /\ c \in Clients /\ pending[c] \in Seq(Posts) /\ queue \in Seq(Posts)
      /\ left \in AllOps /\ left \subseteq {"initialize"} /\ read \in SUBSET {"read"}
      /\ ~initialized[c] /\ told[c] = 0
  BY DEF ClientInv, ClientTypes, FinishExpected
<1> HIDE DEF queue, read
<1>1. CASE /\ CI!Gives(c, queue)
           /\ CI!Becomes(c, CI!StateAfter(queue),
                         left \cup {"finish"} \cup CI!Taken(queue) \cup read, CI!Left(queue))
           /\ initialized' = [initialized EXCEPT ![c] = TRUE]
           /\ UNCHANGED <<call_dead, told>>
  <2>1. /\ CI!StateAfter(queue) \in {"initialize", "writes_done"}
        /\ CI!Taken(queue) \subseteq {"write"} /\ CI!Left(queue) \in Seq(Posts)
        /\ given' \in [Clients -> Seq(Posts)]
        /\ \A d \in Clients \ {c} : given'[d] = given[d]
        /\ \A i \in 1 .. Len(given'[c]) :
                given'[c][i] = "writes_done" =>
                  i = Len(given'[c]) /\ CI!StateAfter(queue) = "writes_done"
    BY SMTT(30), <1>0, <1>1, GivenInOrder
  <2>2. left \cup {"finish"} \cup CI!Taken(queue) \cup read \in AllOps
    BY Zenon, <1>0, <2>1
  <2>3. CI!StateAfter(queue) \in ClientStates
    BY <2>1 DEF ClientStates
  <2>4. /\ initialized' \in [Clients -> BOOLEAN] /\ initialized'[c]
        /\ \A d \in Clients \ {c} : initialized'[d] = initialized[d]
    BY <1>0, <1>1 DEF ClientInv, ClientTypes
  <2>5. Became(c, CI!StateAfter(queue), left \cup {"finish"} \cup CI!Taken(queue) \cup read)
    BY SMTT(30), <1>0, <1>1, <2>1, <2>2, <2>3, Becoming
  <2>6. "finish" \in operations'[c] /\ client_state'[c] \in {"initialize", "writes_done"}
    BY <2>1, <2>5 DEF Became
  <2> QED
    BY SMTT(30), <1>0, <1>1, <2>1, <2>4, <2>5, <2>6 DEF Became, Handled, ClientInv, ClientTypes
<1>2. CASE /\ CI!Tell(c)
           /\ CI!Becomes(c, "finish", left, pending[c])
           /\ UNCHANGED <<call_dead, initialized, given>>
  <2>1. "finish" \in ClientStates
    BY DEF ClientStates
  <2>2. told' \in [Clients -> 0 .. 1] /\ told'[c] = 1 /\ \A d \in Clients \ {c} : told'[d] = told[d]
    BY <1>0, <1>2 DEF CI!Tell, ClientInv, ClientTypes
  <2> QED
    <3>1. Became(c, "finish", left)
      BY SMTT(30), <1>0, <1>2, <2>1, Becoming
    <3> QED
      BY SMTT(30), <1>0, <1>2, <2>2, <3>1 DEF Became, Handled, ClientInv, ClientTypes, WritesOpen
<1>3. ASSUME NEW done \in {{}, {"finish"}, {"finish"} \cup CI!Taken(queue)},
             CI!Error(c, left \cup done), initialized' = [initialized EXCEPT ![c] = done # {}]
      PROVE  Handled(c)
  <2>1. CI!Taken(queue) \subseteq {"write"}
    BY DEF CI!Taken
  <2>2. left \cup done \in AllOps /\ (done # {} => "finish" \in done)
    BY Zenon, <1>0, <2>1
  <2>3. "error" \in ClientStates
    BY DEF ClientStates
  <2>4. CI!Becomes(c, "error", left \cup done, pending[c]) /\ UNCHANGED <<given, told>>
    BY <1>3 DEF CI!Error
  <2>5. /\ initialized' \in [Clients -> BOOLEAN] /\ (initialized'[c] => "finish" \in done)
        /\ \A d \in Clients \ {c} : initialized'[d] = initialized[d]
    BY <1>0, <1>3, <2>2 DEF ClientInv, ClientTypes
  <2>6. Became(c, "error", left \cup done)
    BY <1>0, <2>2, <2>3, <2>4, Becoming
  <2>7. \A i \in 1 .. Len(given'[c]) : given'[c][i] # "writes_done"
    BY <1>0, <2>4 DEF ClientInv, WritesOpen
  <2>8. initialized'[c] => "finish" \in operations'[c]
    BY SMTT(30), <2>2, <2>5, <2>6 DEF Became
  <2> QED
    BY <1>0, <2>4, <2>5, <2>6, <2>7, <2>8 DEF Became, Handled, ClientInv, ClientTypes
<1> QED
  BY <1>1, <1>2, <1>3 DEF CI!Initialized, queue, read
(* on_start() *)
LEMMA Starts ==
    ASSUME ClientInv, NEW c \in clients_, CI!Start(c)
    PROVE  Handled(c)
<1> USE DEF ClientInv, ClientTypes
<1>1. CASE CI!Ignored(c, operations[c])
  BY Zenon, <1>1, Ignores
<1>2. CASE client_state[c] = "idle" /\ CI!Initialized(c, TRUE, {})
  BY Zenon, <1>2, Initializes
<1>3. CASE /\ client_state[c] = "idle" /\ CI!Becomes(c, "idle", {"initialize"}, pending[c])
           /\ UNCHANGED <<call_dead, initialized, given, told>>
  <2>1. Became(c, "idle", {"initialize"})
    BY <1>3, Becoming
  <2> QED
    BY <1>3, <2>1 DEF Became, Handled, FinishExpected, WritesOpen
<1>4. CASE client_state[c] = "idle" /\ CI!Error(c, {}) /\ UNCHANGED initialized
  <2>1. "finish" \notin operations[c]
    BY <1>4 DEF FinishExpected
  <2> QED
    BY <1>4, <2>1, Errs
<1> QED
  BY Zenon, <1>1, <1>2, <1>3, <1>4 DEF CI!Start

(* on_stop() *)
LEMMA Stops ==
    ASSUME ClientInv, NEW c \in clients_, CI!Stop(c)
    PROVE  Handled(c)
<1> USE DEF ClientInv, ClientTypes
<1>1. Became(c, "stop", operations[c]) /\ UNCHANGED <<initialized, given, told>>
  BY Zenon, Becoming DEF CI!Stop, ClientStates
<1> QED
  BY <1>1 DEF Became, Handled, FinishExpected, WritesOpen

(* execute_queue() of a call that is under way. *)
LEMMA Gives ==
    ASSUME ClientInv, NEW c \in clients_, client_state[c] = "initialize",
           NEW queue \in Seq(Posts), NEW left \in SUBSET operations[c],
           "finish" \in operations[c] => "finish" \in left,
           CI!Becomes(c, CI!StateAfter(queue), left \cup CI!Taken(queue), CI!Left(queue)),
           CI!Gives(c, queue), UNCHANGED <<initialized, told>>
    PROVE  Handled(c)
<1>0. c \in Clients /\ left \in SUBSET {"initialize", "read", "write", "finish"}
  BY Zenon DEF ClientInv, ClientTypes
<1>1. /\ CI!StateAfter(queue) \in {"initialize", "writes_done"}
      /\ CI!Taken(queue) \subseteq {"write"} /\ CI!Left(queue) \in Seq(Posts)
      /\ given' \in [Clients -> Seq(Posts)]
      /\ \A d \in Clients \ {c} : given'[d] = given[d]
      /\ \A i \in 1 .. Len(given'[c]) :
              given'[c][i] = "writes_done" =>
                i = Len(given'[c]) /\ CI!StateAfter(queue) = "writes_done"
  BY <1>0, GivenInOrder
<1>2. /\ left \cup CI!Taken(queue) \in SUBSET {"initialize", "read", "write", "finish"}
      /\ "finish" \in left \cup CI!Taken(queue) <=> "finish" \in operations[c]
  BY Zenon, <1>0, <1>1
<1>3. CI!StateAfter(queue) \in ClientStates
  BY <1>1 DEF ClientStates
<1>4. Became(c, CI!StateAfter(queue), left \cup CI!Taken(queue))
  BY <1>0, <1>1, <1>2, <1>3, Becoming
<1>5. /\ client_state'[c] \in {"initialize", "writes_done"}
      /\ "finish" \in operations'[c] <=> "finish" \in operations[c]
  BY <1>1, <1>2, <1>4 DEF Became
<1> QED
  BY <1>0, <1>1, <1>4, <1>5 DEF Became, Handled, ClientInv, ClientTypes, FinishExpected

(* An event that changes the queue at most. *)
LEMMA Unhandled ==
    ASSUME ClientInv, NEW c \in clients_, pending' \in [Clients -> Seq(Posts)],
           UNCHANGED <<client_state, operations, removing, initialized, given, told>>
    PROVE  Handled(c)
<1> USE DEF ClientInv, ClientTypes
<1>1. client_state[c] # "none"
  BY DEF Places
<1>2. \A i \in 1 .. Len(given[c]) :
        given[c][i] = "writes_done" =>
          i = Len(given[c]) /\ client_state[c] \notin {"idle", "initialize"}
  BY SMTT(30) DEF WritesOpen
<1> QED
  BY <1>1, <1>2 DEF FinishExpected, Handled

(* on_event_queue() *)
LEMMA Queues ==
    ASSUME ClientInv, NEW c \in clients_, NEW item \in Posts, CI!Queue(c, item)
    PROVE  Handled(c)
<1> DEFINE queue == Append(pending[c], item)
<1>0. c \in Clients /\ pending \in [Clients -> Seq(Posts)] /\ operations[c] \in SUBSET operations[c]
  BY DEF ClientInv, ClientTypes
<1>1. queue \in Seq(Posts) /\ queue # << >>
  BY <1>0, Back
<1>2. CI!Left(queue) = Tail(queue)
  BY <1>1 DEF CI!Left
<1> HIDE DEF queue
<1>3. CASE pending' = [pending EXCEPT ![c] = queue]
           /\ UNCHANGED <<client_state, operations, removing, initialized, given, told>>
  <2>1. pending' \in [Clients -> Seq(Posts)]
    BY SMTT(30), <1>0, <1>1, <1>3
  <2> QED
    BY <1>3, <2>1, Unhandled
<1>4. CASE /\ CI!Becomes(c, client_state[c], operations[c], queue)
           /\ UNCHANGED <<call_dead, initialized, given, told>>
  <2>1. Became(c, client_state[c], operations[c])
    <3>1. /\ client_state[c] \in ClientStates
          /\ operations[c] \in SUBSET {"initialize", "read", "write", "finish"}
      BY <1>0 DEF ClientInv, ClientTypes
    <3> QED
      BY <1>0, <1>1, <1>4, <3>1, Becoming
  <2>2. client_state[c] # "none"
    BY <1>0 DEF ClientInv, Places
  <2> QED
    BY SMTT(30), <1>0, <1>4, <2>1, <2>2 DEF Became, Handled, ClientInv, ClientTypes,
       FinishExpected, WritesOpen
<1>5. CASE /\ client_state[c] = "initialize"
           /\ CI!Becomes(c, CI!StateAfter(queue), operations[c] \cup CI!Taken(queue), Tail(queue))
           /\ CI!Gives(c, queue) /\ UNCHANGED <<call_dead, initialized, told>>
  BY Zenon, <1>0, <1>1, <1>2, <1>5, Gives
<1>6. CASE CI!Error(c, operations[c]) /\ UNCHANGED initialized
  BY <1>0, <1>6, Errs
<1>7. CASE UNCHANGED <<client_state, operations, pending, removing, call_dead, initialized,
                       given, told>>
  BY <1>0, <1>7, Unhandled
<1> QED
  BY Zenon, <1>3, <1>4, <1>5, <1>6, <1>7 DEF CI!Queue, queue

(* The events of gRPC. *)
LEMMA Tags ==
    ASSUME ClientInv, NEW c \in clients_, c \notin removing, CI!Tag(c)
    PROVE  Handled(c)
<1> USE DEF ClientInv, ClientTypes
<1>1. ASSUME NEW ok \in BOOLEAN, CI!InitializeTag(c, ok) PROVE Handled(c)
  BY Zenon, <1>1, Initializes, Ignores DEF CI!InitializeTag
<1>2. ASSUME NEW ok \in BOOLEAN, CI!ReadTag(c, ok) PROVE Handled(c)
  BY Zenon, <1>2, Ignores, Errs DEF CI!ReadTag
<1>3. ASSUME NEW ok \in BOOLEAN, CI!WriteTag(c, ok) PROVE Handled(c)
  <2> DEFINE left == operations[c] \ {"write"}
  <2>1. left \in SUBSET operations[c] /\ ("finish" \in operations[c] => "finish" \in left)
    OBVIOUS
  <2> HIDE DEF left
  <2>2. CASE CI!Ignored(c, left)
    BY <2>1, <2>2, Ignores
  <2>3. CASE /\ client_state[c] = "initialize"
             /\ CI!Becomes(c, CI!StateAfter(pending[c]), left \cup CI!Taken(pending[c]),
                           CI!Left(pending[c]))
             /\ CI!Gives(c, pending[c]) /\ UNCHANGED <<call_dead, initialized, told>>
    BY Zenon, <2>1, <2>3, Gives
  <2>4. CASE CI!Error(c, left) /\ UNCHANGED initialized
    BY <2>1, <2>4, Errs
  <2> QED
    BY <1>3, <2>2, <2>3, <2>4 DEF CI!WriteTag, left
<1>4. CASE CI!FinishTag(c)
  <2> DEFINE left == operations[c] \ {"finish"}
  <2>1. "finish" \in operations[c] /\ told[c] = 0 /\ client_state[c] # "finish"
    BY <1>4 DEF CI!FinishTag, FinishExpected
  <2>2. Became(c, "finish", left) /\ UNCHANGED <<initialized, given>>
    BY Zenon, <1>4, Becoming DEF CI!FinishTag, ClientStates
  <2>3. told' = [told EXCEPT ![c] = 1]
    BY <1>4, <2>1 DEF CI!FinishTag
  <2> QED
    BY <2>1, <2>2, <2>3 DEF Became, Handled, FinishExpected, WritesOpen
<1> QED
  BY <1>1, <1>2, <1>3, <1>4 DEF CI!Tag

(* Every step of the client keeps its invariant. *)
LEMMA ClientStep ==
    ASSUME ClientInv, [CI!ClientNext]_ciVars
    PROVE  ClientInv'
<1> DEFINE Events == Seq(Posts \cup {"start", "stop"})
<1> USE DEF ClientInv
<1>1. ASSUME NEW c \in Clients, CI!Create(c) PROVE ClientInv'
  <2>1. <<"start">> \in Events
    BY SMTT(30)
  <2> QED
    BY <1>1, <2>1 DEF CI!Create, ClientTypes, ClientStates, Places, FinishExpected, WritesOpen
<1>2. ASSUME NEW c \in Clients, CI!NeedRemove(c) PROVE ClientInv'
  BY <1>2 DEF CI!NeedRemove, ClientTypes, Places, FinishExpected, WritesOpen
<1>3. ASSUME NEW c \in Clients, CI!Event(c) PROVE ClientInv'
  <2>1. Head(events[c]) \in Posts \cup {"start", "stop"} /\ Tail(events[c]) \in Events
    BY <1>3, Front DEF CI!Event, ClientTypes
  <2>2. events' \in [Clients -> Events] /\ UNCHANGED clients_ /\ c \notin removing
    BY <1>3, <2>1 DEF CI!Event, ClientTypes
  <2>3. CASE c \in clients_
    <3>1. ASSUME Head(events[c]) = "start" PROVE Handled(c)
      BY <1>3, <2>3, <3>1, Starts DEF CI!Event
    <3>2. ASSUME Head(events[c]) = "stop" PROVE Handled(c)
      BY <1>3, <2>3, <3>2, Stops DEF CI!Event
    <3>3. ASSUME Head(events[c]) \in Posts PROVE Handled(c)
      BY <1>3, <2>3, <3>3, Queues DEF CI!Event, Posts
    <3>4. Handled(c)
      BY <2>1, <3>1, <3>2, <3>3
    <3> QED
      BY <2>2, <2>3, <3>4, HandledKeeps
  <2>4. CASE c \notin clients_
    BY SMTT(30), <1>3, <2>2, <2>4 DEF CI!Event, ClientTypes, Places, FinishExpected, WritesOpen
  <2> QED
    BY <2>3, <2>4
<1>4. ASSUME NEW c \in Clients, CI!Tag(c) PROVE ClientInv'
  <2>1. c \in clients_ /\ c \notin removing /\ UNCHANGED <<clients_, events>>
    BY <1>4 DEF CI!Tag, CI!InitializeTag, CI!ReadTag, CI!WriteTag, CI!FinishTag, Places
  <2>2. Handled(c)
    BY SMTT(30), <1>4, <2>1, Tags
  <2> QED
    BY SMTT(30), <2>1, <2>2, HandledKeeps DEF ClientTypes
<1>5. ASSUME NEW c \in Clients, CI!CallEnds(c) PROVE ClientInv'
  BY SMTT(30), <1>5 DEF CI!CallEnds, CI!Cancelled, ClientTypes, Places, FinishExpected, WritesOpen
<1>6. ASSUME NEW c \in Clients, NEW item \in {"write", "writes_done"}, CI!Post(c, item)
      PROVE ClientInv'
  <2>1. Append(events[c], item) \in Events
    BY SMTT(30), Back DEF ClientTypes, Posts
  <2> QED
    BY <1>6, <2>1 DEF CI!Post, ClientTypes, Places, FinishExpected, WritesOpen
<1>7. CASE CI!StopFactory
  <2>1. \A c \in Clients : Append(events[c], "stop") \in Events
    BY SMTT(30), Back DEF ClientTypes
  <2> QED
    BY <1>7, <2>1 DEF CI!StopFactory, ClientTypes, Places, FinishExpected, WritesOpen
<1>8. CASE UNCHANGED ciVars
  BY <1>8 DEF ciVars, ClientTypes, Places, FinishExpected, WritesOpen
<1> QED
  BY <1>1, <1>2, <1>3, <1>4, <1>5, <1>6, <1>7, <1>8 DEF CI!ClientNext

-----------------------------------------------------------------------------
(* Both hold in every state of the composition. *)
LEMMA Inductive == Spec => [](ServerInv /\ ClientInv)
<1>1. Init => ServerInv /\ ClientInv
  BY ServerInit, ClientStart DEF Init
<1>2. ServerInv /\ ClientInv /\ [Next]_all => (ServerInv /\ ClientInv)'
  <2> SUFFICES ASSUME ServerInv, ClientInv, [Next]_all PROVE (ServerInv /\ ClientInv)'
    OBVIOUS
  <2>1. [RI!RpcNext]_riVars /\ [CI!ClientNext]_ciVars
    BY DEF Next, all
  <2> QED
    BY <2>1, ServerStep, ClientStep DEF ServerRight
<1> QED
  BY <1>1, <1>2, PTL DEF Spec

(* gRPC never has an operation of a call whose object has left the pool of *)
(* the server (try_close()) or the factory of the client (need_remove()):  *)
(* no event of the completion queue comes with the tag of an object that   *)
(* is gone.                                                                *)
THEOREM DestroyedLeaveNoTag == Spec => []NoTagOfDestroyed
<1>1. ServerInv /\ ClientInv => NoTagOfDestroyed
  BY DEF ServerInv, ClientInv, Places, NoTagOfDestroyed, CI!NoOperationOfDestroyed
<1> QED
  BY <1>1, Inductive, PTL

(* The observer of a call is told of its end (on_finish()) at most once,   *)
(* and before the client is destroyed if the call was started; and gRPC is *)
(* given nothing to write after WritesDone.                                *)
THEOREM ClientsInOrder == Spec => []ClientInOrder
<1>1. ServerInv /\ ClientInv => ClientInOrder
  <2> SUFFICES ASSUME ClientInv PROVE CI!ToldOnce /\ CI!WritesDoneLast
    BY DEF ClientInOrder
  <2>1. CI!ToldOnce
    BY DEF CI!ToldOnce, ClientInv, ClientTypes, Places, FinishExpected
  <2>2. CI!WritesDoneLast
    <3> SUFFICES ASSUME NEW c \in Clients, NEW i \in 1 .. Len(given[c]) - 1
                 PROVE  given[c][i] # "writes_done"
      BY DEF CI!WritesDoneLast
    <3>1. Len(given[c]) \in Nat
      BY DEF ClientInv, ClientTypes
    <3>2. i \in 1 .. Len(given[c]) /\ i # Len(given[c])
      BY <3>1
    <3> QED
      BY <3>2 DEF ClientInv, WritesOpen
  <2> QED
    BY <2>1, <2>2
<1> QED
  BY <1>1, Inductive, PTL

(* The server gives gRPC at most one Finish per call, never while a Write  *)
(* is out, and no Write after it, whoever calls write() and finish().      *)
THEOREM FinishedOnce == Spec => OneFinish
<1>1. ServerInv /\ [Next]_all =>
        [\A r \in Rpcs :
           /\ finishes'[r] <= 1
           /\ "write" \in tags'[r] => "finish" \notin tags'[r]
           /\ "write" \in tags'[r] \ tags[r] => finishes[r] = 0]_(RI!rpcVars)
  <2> SUFFICES ASSUME ServerInv, [Next]_all
               PROVE  \A r \in Rpcs :
                        /\ finishes'[r] <= 1
                        /\ "write" \in tags'[r] => "finish" \notin tags'[r]
                        /\ "write" \in tags'[r] \ tags[r] => finishes[r] = 0
    OBVIOUS
  <2>1. [RI!RpcNext]_riVars
    BY DEF Next, all
  <2>2. ServerRight
    BY <2>1, ServerStep
  <2> QED
    <3>1. \A r \in Rpcs : finishes'[r] \in 0 .. 1
      BY <2>2 DEF ServerRight, ServerInv, ServerTypes
    <3> QED
      BY <2>2, <3>1 DEF ServerRight, ServerInv, FinishGiven
<1> QED
  BY <1>1, Inductive, PTL DEF Spec, OneFinish, RI!OneFinish
=============================================================================
