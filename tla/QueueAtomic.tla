---------------------------- MODULE QueueAtomic ----------------------------
(***************************************************************************)
(* Grpc::Common::QueueAtomic (src/UServerUtils/Grpc/Common/                *)
(* QueueAtomic.hpp): the lock-free list of many producers and one consumer *)
(* under the event queues of FileManager and DataBaseManager.  A push      *)
(* exchanges head_ and links its node to the former head in a second step, *)
(* so the list is broken in between; the consumer keeps the last node of   *)
(* the list in place by pushing stub_ behind it.                           *)
(*                                                                         *)
(* One action is one atomic operation on shared memory.                    *)
(***************************************************************************)
EXTENDS Integers, Sequences, FiniteSets

CONSTANTS
    Producers,
    Nodes,                      \* the nodes allocated in the run, its bound
    QueueMax                    \* max_size_

Stub == "stub"
Null == "null"

ASSUME QueueAssumption ==
    /\ Stub \notin Nodes /\ Null \notin Nodes
    /\ IsFiniteSet(Producers)

VARIABLES
    next,                       \* Node::next
    head_, tail_, counter_,
    emplacing,                  \* where the producer is in emplace()
    popping,                    \* where the consumer is in pop(), clear()
    fifo,                       \* the abstract queue: nodes of exchanges in order
    taken                       \* the nodes the consumer has been given, in order

queueVars == <<next, head_, tail_, counter_, emplacing, popping, fifo, taken>>

Resting == [at |-> "rest"]
Popping(where, all) == [at |-> where, all |-> all]

QueueInit ==
    /\ next = [n \in Nodes \cup {Stub} |-> Null]
    /\ head_ = Stub /\ tail_ = Stub
    /\ counter_ = 0
    /\ emplacing = [p \in Producers |-> Resting]
    /\ popping = Popping("rest", FALSE)
    /\ fifo = << >> /\ taken = << >>

Used == {taken[i] : i \in DOMAIN taken} \cup {fifo[i] : i \in DOMAIN fifo}
        \cup {emplacing[p].node : p \in {q \in Producers : emplacing[q].at # "rest"}}

-----------------------------------------------------------------------------
(* emplace(): the limit, the node, head_, the link, the count. *)

\* The counter is read once; its node is made before head_ is touched.  Above
\* the limit emplace() returns FALSE and has done nothing.
Allocate(p, n) ==
    /\ emplacing[p] = Resting
    /\ n \notin Used
    /\ ~popping.all
    /\ counter_ <= QueueMax
    /\ emplacing' = [emplacing EXCEPT ![p] = [at |-> "push", node |-> n]]
    /\ UNCHANGED <<next, head_, tail_, counter_, popping, fifo, taken>>

Exchange(p) ==
    /\ emplacing[p].at = "push"
    /\ head_' = emplacing[p].node
    /\ next' = [next EXCEPT ![emplacing[p].node] = Null]
    /\ emplacing' = [emplacing EXCEPT ![p] = [at |-> "link", node |-> @.node, prev |-> head_]]
    /\ fifo' = Append(fifo, emplacing[p].node)
    /\ UNCHANGED <<tail_, counter_, popping, taken>>

Link(p) ==
    /\ emplacing[p].at = "link"
    /\ next' = [next EXCEPT ![emplacing[p].prev] = emplacing[p].node]
    /\ emplacing' = [emplacing EXCEPT ![p] = [at |-> "count", node |-> @.node]]
    /\ UNCHANGED <<head_, tail_, counter_, popping, fifo, taken>>

Count(p) ==
    /\ emplacing[p].at = "count"
    /\ counter_' = counter_ + 1
    /\ emplacing' = [emplacing EXCEPT ![p] = Resting]
    /\ UNCHANGED <<next, head_, tail_, popping, fifo, taken>>

-----------------------------------------------------------------------------
(* pop() and clear(): pop_and_check_end() until it has a node, or until the *)
(* queue is empty.  clear() (all) goes on to the end.                       *)

\* pop_and_check_end() returns node n.
ReturnNode(n) ==
    /\ tail_' = next[n]
    /\ taken' = Append(taken, n)
    /\ fifo' = SubSeq(fifo, 2, Len(fifo))
    /\ popping' = Popping(IF popping.all THEN "begin" ELSE "subtract", popping.all)

GoTo(where) == popping' = Popping(where, popping.all) /\ UNCHANGED <<tail_, taken, fifo>>

\* clear() is called by the destructor, which nobody else's call overlaps.
StartPop(all) ==
    /\ popping.at = "rest"
    /\ all => \A p \in Producers : emplacing[p] = Resting
    /\ popping' = Popping("begin", all)
    /\ UNCHANGED <<next, head_, tail_, counter_, emplacing, fifo, taken>>

LoadNext ==
    /\ popping.at = "begin"
    /\ \/ /\ tail_ = Stub /\ next[Stub] = Null      \* empty
          /\ GoTo(IF popping.all THEN "reset" ELSE "rest")
       \/ /\ tail_ = Stub /\ next[Stub] # Null
          /\ tail_' = next[Stub]
          /\ popping' = Popping("skipped", popping.all)
          /\ UNCHANGED <<fifo, taken>>
       \/ tail_ # Stub /\ next[tail_] # Null /\ ReturnNode(tail_)
       \/ tail_ # Stub /\ next[tail_] = Null /\ GoTo("last")
    /\ UNCHANGED <<next, head_, counter_, emplacing>>

LoadNextAgain ==
    /\ popping.at = "skipped"
    /\ IF next[tail_] # Null THEN ReturnNode(tail_) ELSE GoTo("last")
    /\ UNCHANGED <<next, head_, counter_, emplacing>>

\* The last node is given away although a producer may be about to link to it.
MutLoadHead ==
    /\ popping.at = "last"
    /\ IF tail_ # head_
       THEN GoTo("begin")
       ELSE /\ taken' = Append(taken, tail_)
            /\ fifo' = SubSeq(fifo, 2, Len(fifo))
            /\ tail_' = Stub
            /\ popping' = Popping("subtract", FALSE)
    /\ UNCHANGED <<next, head_, counter_, emplacing>>

\* Another head_: a producer is between its two steps, try again.
LoadHead ==
    /\ popping.at = "last"
    /\ GoTo(IF tail_ # head_ THEN "begin" ELSE "push_stub")
    /\ UNCHANGED <<next, head_, counter_, emplacing>>

ExchangeStub ==
    /\ popping.at = "push_stub"
    /\ next' = [next EXCEPT ![Stub] = Null]
    /\ head_' = Stub
    /\ popping' = [at |-> "link_stub", all |-> popping.all, prev |-> head_]
    /\ UNCHANGED <<tail_, counter_, emplacing, fifo, taken>>

LinkStub ==
    /\ popping.at = "link_stub"
    /\ next' = [next EXCEPT ![popping.prev] = Stub]
    /\ popping' = Popping("reload", popping.all)
    /\ UNCHANGED <<head_, tail_, counter_, emplacing, fifo, taken>>

Reload ==
    /\ popping.at = "reload"
    /\ IF next[tail_] # Null THEN ReturnNode(tail_) ELSE GoTo("begin")
    /\ UNCHANGED <<next, head_, counter_, emplacing>>

\* The counter goes down after the node is out: by one, or to zero in clear().
Subtract ==
    /\ popping.at \in {"subtract", "reset"}
    /\ counter_' = IF popping.at = "reset" THEN 0 ELSE counter_ - 1
    /\ popping' = Popping(IF popping.all THEN "destroyed" ELSE "rest", popping.all)
    /\ UNCHANGED <<next, head_, tail_, emplacing, fifo, taken>>

Produce(p) == Exchange(p) \/ Link(p) \/ Count(p)
Consume == LoadNext \/ LoadNextAgain \/ LoadHead \/ ExchangeStub \/ LinkStub \/ Reload \/ Subtract

QueueNext ==
    \/ \E p \in Producers : Produce(p) \/ \E n \in Nodes : Allocate(p, n)
    \/ \E all \in BOOLEAN : StartPop(all)
    \/ Consume

QueueSpec == QueueInit /\ [][QueueNext]_queueVars

-----------------------------------------------------------------------------
Nodes_(seq) == {seq[i] : i \in DOMAIN seq}

\* The consumer frees a node only when nobody will write to it any more: the
\* push that has it as its former head has made its link
\* (QueueAtomic.hpp:53), and neither tail_ nor head_ is left on it.
NoLinkToFreedNode ==
    /\ \A p \in Producers : emplacing[p].at = "link" => emplacing[p].prev \notin Nodes_(taken)
    /\ {head_, tail_} \cap Nodes_(taken) = {}

\* Elements come out in the order in which their pushes have exchanged head_,
\* each once, also when the links are made in another order.
FifoOrder == [][taken' # taken => fifo # << >> /\ taken' = Append(taken, Head(fifo))]_queueVars

\* counter_ is the number of elements, but for the calls that have not counted
\* yet, so at rest the limit of emplace() is about the queue itself; and the
\* destructor finds the queue as its assertions say (QueueAtomic.hpp:45).
CounterExact ==
    /\ ~popping.all =>
         counter_ + Cardinality({p \in Producers : emplacing[p].at \in {"link", "count"}})
           = Len(fifo) + (IF popping.at = "subtract" THEN 1 ELSE 0)
    /\ popping.at = "destroyed" => head_ = Stub /\ tail_ = Stub /\ fifo = << >>
=============================================================================
