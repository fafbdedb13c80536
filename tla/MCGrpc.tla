------------------------------- MODULE MCGrpc -------------------------------
(***************************************************************************)
(* The two ends of a gRPC call, which share no state, each with its pool   *)
(* or factory: a behaviour is one of the server's or of the client's.      *)
(* Where fairness is assumed, fewer messages are sent: stop() and the end  *)
(* of the call add theirs.                                                 *)
(***************************************************************************)
EXTENDS Integers, Sequences, FiniteSets

CONSTANTS
    Rpcs, MaxSends,                         \* RpcImpl
    Clients, MaxWrites,                     \* ClientImpl
    FewSends                                \* the writes and finishes beside fairness

\* The server begins with its object 1; Connection(r, 0) makes none.
ASSUME RpcsAssumption == 1 \in Rpcs /\ 0 \notin Rpcs

VARIABLES
    component,
    rpc_type, rpcs_, pool_state, rpc_state, pending_queue_, is_finished_, is_stopped_, tags,
    notified, dead, finishes, sends,
    client_type, clients_, factory, client_state, pending, operations, events, call_dead, removing,
    initialized, told, given, writes

RI == INSTANCE RpcImpl
CI == INSTANCE ClientImpl

riVars == <<rpc_type, rpcs_, pool_state, rpc_state, pending_queue_, is_finished_, is_stopped_, tags,
            notified, dead, finishes, sends>>
ciVars == <<client_type, clients_, factory, client_state, pending, operations, events, call_dead,
            removing, initialized, told, given, writes>>

all == <<component, riVars, ciVars>>

On(name_) == component = name_

Serving == On("RpcImpl") \/ On("RpcImplFair")
Calling == On("ClientImpl") \/ On("ClientImplFair")

Init ==
    /\ component \in {"RpcImpl", "RpcImplFair", "ClientImpl", "ClientImplFair"}
    /\ IF Serving THEN TRUE ELSE rpc_type = "unary"
    /\ IF Calling THEN TRUE ELSE client_type = "unary"
    /\ RI!RpcInit /\ CI!ClientInit

Next ==
    /\ UNCHANGED component
    /\ \/ /\ Serving /\ RI!RpcNext
          /\ On("RpcImplFair") => sends' <= FewSends
          /\ UNCHANGED <<ciVars>>
       \/ /\ Calling /\ CI!ClientNext
          /\ On("ClientImplFair") => writes' <= FewSends
          /\ UNCHANGED <<riVars>>

Spec == Init /\ [][Next]_all

(* The thread of a completion queue handles its events, wait_object_() and *)
(* need_remove() go on; gRPC completes writes and finishes, the            *)
(* initialization and, for a dead call, reads and the Done event.          *)
FairSpec ==
    /\ Spec
    /\ \A r \in Rpcs :
         /\ WF_riVars(On("RpcImplFair") /\ RI!EventQueue(r))
         /\ WF_riVars(On("RpcImplFair") /\ RI!Finish(r))
         /\ WF_riVars(On("RpcImplFair") /\ RI!Done(r))
         /\ WF_riVars(On("RpcImplFair") /\ (RI!Write(r, TRUE) \/ RI!Write(r, FALSE)))
         /\ WF_riVars(On("RpcImplFair") /\ dead[r] /\ RI!Read(r, FALSE))
    /\ WF_riVars(On("RpcImplFair") /\ RI!Wait)
    /\ \A c \in Clients :
         /\ WF_ciVars(On("ClientImplFair") /\ CI!Event(c))
         /\ WF_ciVars(On("ClientImplFair") /\ CI!NeedRemove(c))
         /\ WF_ciVars(/\ On("ClientImplFair") /\ CI!Tag(c) /\ operations'[c] # operations[c]
                      /\ call_dead[c] \/ {"initialize", "write"} \cap operations[c] # {})

-----------------------------------------------------------------------------
(* gRPC has no operation of a call whose object has left the pool or the   *)
(* factory and is gone, with the tags inside it.                           *)
NoTagOfDestroyed == RI!NoTagOfDestroyed /\ CI!NoOperationOfDestroyed

(* The server gives gRPC one Finish per call at most, never while it has a *)
(* Write, and no Write after it.                                           *)
OneFinish == RI!OneFinish

(* The observer of a client is told of the end of its call once, and       *)
(* before the client is destroyed, and gRPC is given nothing more to write *)
(* after WritesDone.                                                       *)
ClientInOrder == CI!ToldOnce /\ CI!WritesDoneLast

Stopping ==
    \/ On("RpcImplFair") /\ pool_state = "deactivated"
    \/ On("ClientImplFair") /\ factory = "waiting"

(* wait_object_() of the server's pool returns, whatever calls it has and  *)
(* accepts meanwhile, and stop() of the client's factory loses all its     *)
(* clients before its time limit.                                          *)
EndStops == Stopping ~> ~Stopping

Over(i) ==
    \/ On("RpcImplFair") /\ i \in Rpcs /\ dead[i]
    \/ On("ClientImplFair") /\ i \in Clients /\ initialized[i] /\ call_dead[i]

Left(i) == IF Serving THEN i \notin rpcs_ \/ is_stopped_[i] ELSE i \notin clients_

(* A call whose other end is gone leaves the pool, or is stopped with it,  *)
(* without anybody stopping it.                                            *)
DeadCallsLeave == \A i \in Rpcs \cup Clients : Over(i) ~> Left(i)
=============================================================================
