-------------------------- MODULE QueueAtomicProofs --------------------------
(***************************************************************************)
(* Theorems about Grpc::Common::QueueAtomic, for any finite set of         *)
(* producers, any set of nodes and any limit.                              *)
(***************************************************************************)
EXTENDS QueueAtomic, FiniteSetTheorems, TLAPS

Links == Nodes \cup {Stub}

(* chain is the list from tail to head, in the order of the exchanges of   *)
(* head_: the elements of the abstract queue q, with the stub at place s,  *)
(* or without it when s is 0.                                              *)
IsChain(chain, s, q, tail, head) ==
    /\ chain \in Seq(Links) /\ Len(chain) \in Nat \ {0}
    /\ q \in Seq(Nodes) /\ Len(q) \in Nat
    /\ s \in 0 .. Len(chain)
    /\ s = 0 => Len(q) = Len(chain)
    /\ s # 0 => Len(q) = Len(chain) - 1
    /\ \A i \in 1 .. Len(chain) :
         /\ i = s => chain[i] = Stub
         /\ s = 0 \/ i < s => chain[i] = q[i] /\ chain[i] # Stub
         /\ s # 0 /\ i > s => chain[i] = q[i - 1] /\ chain[i] # Stub
    /\ \A i, j \in 1 .. Len(chain) : chain[i] = chain[j] => i = j
    /\ tail = chain[1] /\ head = chain[Len(chain)]

(* A push has exchanged head_ and not yet linked y to the former head x. *)
Linking(x, y) ==
    \/ \E p \in Producers : /\ emplacing[p].at = "link"
                            /\ emplacing[p].prev = x /\ emplacing[p].node = y
    \/ popping.at = "link_stub" /\ popping.prev = x /\ y = Stub

(* Every node of the list points to the next one, unless the push of that  *)
(* is about to make the link; and whoever is to make a link has its two    *)
(* ends in the list, one after the other.                                  *)
Linked(chain) ==
    /\ next[chain[Len(chain)]] = Null
    /\ \A i \in 1 .. Len(chain) - 1 :
         \/ next[chain[i]] = chain[i + 1]
         \/ next[chain[i]] = Null /\ Linking(chain[i], chain[i + 1])
    /\ \A p \in Producers : emplacing[p].at = "link" =>
         \E i \in 1 .. Len(chain) - 1 :
           /\ emplacing[p].prev = chain[i] /\ emplacing[p].node = chain[i + 1]
           /\ next[chain[i]] = Null
    /\ popping.at = "link_stub" =>
         \E i \in 1 .. Len(chain) - 1 :
           /\ popping.prev = chain[i] /\ chain[i + 1] = Stub
           /\ next[chain[i]] = Null

(* Every node has one owner: the producer that has allocated it, and after *)
(* the exchange the list, until the consumer gives it out.                 *)
Owned(chain) ==
    /\ \A p, q \in Producers :
         /\ emplacing[p].at # "rest" /\ emplacing[q].at # "rest"
         /\ emplacing[p].node = emplacing[q].node
         => p = q
    /\ \A p \in Producers : emplacing[p].at = "push" =>
         /\ \A i \in 1 .. Len(chain) : chain[i] # emplacing[p].node
         /\ emplacing[p].node \notin Nodes_(taken)
    /\ \A i \in 1 .. Len(chain) : chain[i] \notin Nodes_(taken)

(* Where the consumer knows tail_ to be an element, where the stub is not  *)
(* in the list, and what clear() has left.                                 *)
Consumer(chain, s) ==
    /\ popping.at \in {"skipped", "last", "push_stub", "link_stub", "reload"} => tail_ # Stub
    /\ popping.at = "push_stub" => s = 0
    /\ popping.all => \A p \in Producers : emplacing[p].at = "rest"
    /\ popping.at \in {"reset", "destroyed"} => popping.all /\ Len(chain) = 1 /\ tail_ = Stub
    /\ popping.at \in {"rest", "subtract"} => ~popping.all

QueueTypes ==
    /\ DOMAIN next = Links /\ DOMAIN emplacing = Producers
    /\ \A p \in Producers :
         /\ emplacing[p].at \in {"rest", "push", "link", "count"}
         /\ emplacing[p].at # "rest" => emplacing[p].node \in Nodes
         /\ emplacing[p].at = "rest" => emplacing[p] = Resting
    /\ popping.all \in BOOLEAN
    /\ taken \in Seq(Nodes)

(* The queue's inductive invariant. *)
QueueInv ==
    /\ QueueTypes
    /\ \E chain \in Seq(Links), s \in Nat :
         /\ IsChain(chain, s, fifo, tail_, head_)
         /\ Linked(chain) /\ Owned(chain) /\ Consumer(chain, s)


-----------------------------------------------------------------------------
(* A push puts its node behind the last one. *)
LEMMA ChainGrows ==
    ASSUME NEW chain, NEW s, NEW q, NEW tail, NEW head, NEW n \in Nodes,
           IsChain(chain, s, q, tail, head),
           \A i \in 1 .. Len(chain) : chain[i] # n
    PROVE  IsChain(Append(chain, n), s, Append(q, n), tail, n)
<1> DEFINE more == Append(chain, n)
<1>1. /\ more \in Seq(Links) /\ Len(more) = Len(chain) + 1
      /\ more[Len(chain) + 1] = n
      /\ \A i \in 1 .. Len(chain) : more[i] = chain[i]
  BY DEF IsChain, Links
<1>2. /\ Append(q, n) \in Seq(Nodes) /\ Len(Append(q, n)) = Len(q) + 1
      /\ Append(q, n)[Len(q) + 1] = n
      /\ \A i \in 1 .. Len(q) : Append(q, n)[i] = q[i]
  BY DEF IsChain
<1> QED
  BY <1>1, <1>2, QueueAssumption DEF IsChain

(* The consumer pushes the stub in the same way. *)
LEMMA StubAdded ==
    ASSUME NEW chain, NEW q, NEW tail, NEW head,
           IsChain(chain, 0, q, tail, head)
    PROVE  IsChain(Append(chain, Stub), Len(chain) + 1, q, tail, Stub)
<1> DEFINE more == Append(chain, Stub)
<1>1. /\ more \in Seq(Links) /\ Len(more) = Len(chain) + 1
      /\ more[Len(chain) + 1] = Stub
      /\ \A i \in 1 .. Len(chain) : more[i] = chain[i]
  BY DEF IsChain, Links
<1> QED
  BY <1>1 DEF IsChain

(* The list without its first node. *)
LEMMA ChainTail ==
    ASSUME NEW chain \in Seq(Links), Len(chain) \in Nat, Len(chain) >= 2
    PROVE  /\ Tail(chain) \in Seq(Links) /\ Len(Tail(chain)) = Len(chain) - 1
           /\ \A i \in 1 .. Len(chain) - 1 : Tail(chain)[i] = chain[i + 1]
OBVIOUS

(* The consumer passes over the stub. *)
LEMMA StubSkipped ==
    ASSUME NEW chain, NEW s, NEW q, NEW head, IsChain(chain, s, q, Stub, head), Len(chain) >= 2
    PROVE  IsChain(Tail(chain), 0, q, chain[2], head)
<1>1. s = 1
  BY DEF IsChain
<1>2. /\ Tail(chain) \in Seq(Links) /\ Len(Tail(chain)) = Len(chain) - 1
      /\ \A i \in 1 .. Len(chain) - 1 : Tail(chain)[i] = chain[i + 1]
  BY ChainTail DEF IsChain
<1> QED
  BY <1>1, <1>2 DEF IsChain

(* The abstract queue without its first element. *)
LEMMA RestOf ==
    ASSUME NEW S, NEW q \in Seq(S), q # << >>
    PROVE  /\ SubSeq(q, 2, Len(q)) \in Seq(S) /\ Len(SubSeq(q, 2, Len(q))) = Len(q) - 1
           /\ \A i \in 1 .. Len(q) - 1 : SubSeq(q, 2, Len(q))[i] = q[i + 1]
<1>1. SubSeq(q, 2, Len(q)) = Tail(q)
  OBVIOUS
<1>2. Len(q) \in Nat \ {0} /\ Len(Tail(q)) = Len(q) - 1
  OBVIOUS
<1> QED
  BY <1>1, <1>2

(* The consumer gives the first node out. *)
LEMMA ChainShrinks ==
    ASSUME NEW chain, NEW s, NEW q, NEW tail, NEW head, IsChain(chain, s, q, tail, head),
           tail # Stub, Len(chain) >= 2
    PROVE  /\ q # << >> /\ tail = Head(q) /\ Len(SubSeq(q, 2, Len(q))) = Len(q) - 1
           /\ IsChain(Tail(chain), IF s = 0 THEN 0 ELSE s - 1, SubSeq(q, 2, Len(q)), chain[2], head)
<1>0. PICK rest, t : rest = SubSeq(q, 2, Len(q)) /\ t = IF s = 0 THEN 0 ELSE s - 1
  BY Zenon
<1>1. s # 1 /\ Len(q) >= 1 /\ q # << >> /\ q[1] = chain[1]
  BY DEF IsChain
<1>2. /\ rest \in Seq(Nodes) /\ Len(rest) = Len(q) - 1
      /\ \A i \in 1 .. Len(q) - 1 : rest[i] = q[i + 1]
  BY <1>0, <1>1, RestOf DEF IsChain
<1>3. /\ Tail(chain) \in Seq(Links) /\ Len(Tail(chain)) = Len(chain) - 1
      /\ \A i \in 1 .. Len(chain) - 1 : Tail(chain)[i] = chain[i + 1]
  BY ChainTail DEF IsChain
<1>4. ASSUME s = 0 PROVE IsChain(Tail(chain), t, rest, chain[2], head)
  BY <1>0, <1>1, <1>2, <1>3, <1>4 DEF IsChain
<1>5. ASSUME s >= 2 PROVE IsChain(Tail(chain), t, rest, chain[2], head)
  <2>1. /\ Len(chain) \in Nat /\ Len(q) = Len(chain) - 1 /\ s \in 2 .. Len(chain)
        /\ chain[s] = Stub /\ t = s - 1
        /\ tail = chain[1] /\ head = chain[Len(chain)]
    BY <1>0, <1>5 DEF IsChain
  <2>2. \A i \in 1 .. Len(Tail(chain)) :
          /\ i = t => Tail(chain)[i] = Stub
          /\ i < t => Tail(chain)[i] = rest[i] /\ Tail(chain)[i] # Stub
          /\ i > t => Tail(chain)[i] = rest[i - 1] /\ Tail(chain)[i] # Stub
    <3> TAKE i \in 1 .. Len(Tail(chain))
    <3>1. i + 1 \in 1 .. Len(chain) /\ Tail(chain)[i] = chain[i + 1]
      BY <1>3, <2>1
    <3>2. CASE i = t
      BY <2>1, <3>1, <3>2
    <3>3. CASE i < t
      <4>1. chain[i + 1] = q[i + 1] /\ chain[i + 1] # Stub
        BY <2>1, <3>1, <3>3 DEF IsChain
      <4> QED
        BY <1>2, <2>1, <3>1, <3>3, <4>1
    <3>4. CASE i > t
      <4>1. chain[i + 1] = q[i] /\ chain[i + 1] # Stub
        BY <2>1, <3>1, <3>4 DEF IsChain
      <4> QED
        BY <1>2, <2>1, <3>1, <3>4, <4>1
    <3> QED
      BY <2>1, <3>2, <3>3, <3>4
  <2>3. \A i, j \in 1 .. Len(Tail(chain)) : Tail(chain)[i] = Tail(chain)[j] => i = j
    <3> TAKE i, j \in 1 .. Len(Tail(chain))
    <3> HAVE Tail(chain)[i] = Tail(chain)[j]
    <3>1. i + 1 \in 1 .. Len(chain) /\ j + 1 \in 1 .. Len(chain) /\ chain[i + 1] = chain[j + 1]
      BY <1>3, <2>1
    <3>2. i + 1 = j + 1
      BY <3>1 DEF IsChain
    <3> QED
      BY <3>2, <1>3, <2>1
  <2>4. chain[2] = Tail(chain)[1] /\ head = Tail(chain)[Len(Tail(chain))]
    BY <1>3, <2>1
  <2>5. t # 0 /\ t \in 0 .. Len(Tail(chain)) /\ Len(rest) = Len(Tail(chain)) - 1
        /\ Len(Tail(chain)) \in Nat \ {0} /\ Len(rest) \in Nat
    BY <1>2, <1>3, <2>1
  <2> QED
    BY Zenon, <1>2, <1>3, <2>2, <2>3, <2>4, <2>5 DEF IsChain
<1>6. tail = Head(q) /\ (s = 0 \/ s >= 2)
  BY <1>1 DEF IsChain
<1> QED
  BY <1>0, <1>1, <1>2, <1>4, <1>5, <1>6


(* The list without its first node is linked as before: a node that points *)
(* to the next one is nobody's former head any more.                       *)
LEMMA LinkedTail ==
    ASSUME NEW chain, NEW s, IsChain(chain, s, fifo, tail_, head_), Linked(chain),
           next[tail_] # Null
    PROVE  Len(chain) >= 2 /\ next[tail_] = chain[2] /\ Linked(Tail(chain))
<1>1. /\ Len(chain) \in Nat \ {0} /\ chain \in Seq(Links) /\ tail_ = chain[1]
      /\ \A i, j \in 1 .. Len(chain) : chain[i] = chain[j] => i = j
  BY DEF IsChain
<1>2. Len(chain) >= 2
  BY <1>1 DEF Linked
<1>3. next[chain[1]] = chain[2]
  BY <1>1, <1>2 DEF Linked
<1>4. /\ Tail(chain) \in Seq(Links) /\ Len(Tail(chain)) = Len(chain) - 1
      /\ \A i \in 1 .. Len(chain) - 1 : Tail(chain)[i] = chain[i + 1]
  BY ChainTail, <1>1, <1>2
<1> DEFINE rest == Tail(chain)
<1>5. next[rest[Len(rest)]] = Null
  BY <1>1, <1>2, <1>4 DEF Linked
<1>6. ASSUME NEW i \in 1 .. Len(rest) - 1
      PROVE  \/ next[rest[i]] = rest[i + 1]
             \/ next[rest[i]] = Null /\ Linking(rest[i], rest[i + 1])
  <2>1. i + 1 \in 1 .. Len(chain) - 1 /\ rest[i] = chain[i + 1] /\ rest[i + 1] = chain[(i + 1) + 1]
    BY <1>1, <1>2, <1>4
  <2> QED
    BY <2>1 DEF Linked
<1>7. ASSUME NEW p \in Producers, emplacing[p].at = "link"
      PROVE  \E i \in 1 .. Len(rest) - 1 :
               /\ emplacing[p].prev = rest[i] /\ emplacing[p].node = rest[i + 1]
               /\ next[rest[i]] = Null
  <2>1. PICK i \in 1 .. Len(chain) - 1 :
               /\ emplacing[p].prev = chain[i] /\ emplacing[p].node = chain[i + 1]
               /\ next[chain[i]] = Null
    BY <1>7 DEF Linked
  <2>2. i # 1
    BY <2>1, <1>1
  <2>3. i - 1 \in 1 .. Len(rest) - 1 /\ rest[i - 1] = chain[i] /\ rest[(i - 1) + 1] = chain[i + 1]
    BY <2>2, <1>1, <1>2, <1>4
  <2> QED
    BY <2>1, <2>3
<1>8. ASSUME popping.at = "link_stub"
      PROVE  \E i \in 1 .. Len(rest) - 1 :
               /\ popping.prev = rest[i] /\ rest[i + 1] = Stub
               /\ next[rest[i]] = Null
  <2>1. PICK i \in 1 .. Len(chain) - 1 :
               /\ popping.prev = chain[i] /\ chain[i + 1] = Stub
               /\ next[chain[i]] = Null
    BY <1>8 DEF Linked
  <2>2. i # 1
    BY <2>1, <1>1
  <2>3. i - 1 \in 1 .. Len(rest) - 1 /\ rest[i - 1] = chain[i] /\ rest[(i - 1) + 1] = chain[i + 1]
    BY <2>2, <1>1, <1>2, <1>4
  <2> QED
    BY Zenon, <2>1, <2>3
<1> QED
  BY <1>1, <1>2, <1>3, <1>5, <1>6, <1>7, <1>8 DEF Linked

(* An empty queue is a list of the stub alone. *)
LEMMA QueueStart == ASSUME QueueInit PROVE QueueInv
<1> DEFINE chain == <<Stub>>
<1>1. chain \in Seq(Links) /\ Len(chain) = 1 /\ chain[1] = Stub
  BY DEF Links
<1>2. fifo \in Seq(Nodes) /\ Len(fifo) = 0 /\ taken \in Seq(Nodes) /\ Nodes_(taken) = {}
  BY DEF QueueInit, Nodes_
<1>3. IsChain(chain, 1, fifo, tail_, head_)
  BY <1>1, <1>2 DEF QueueInit, IsChain
<1>4. \A p \in Producers : emplacing[p] = Resting /\ emplacing[p].at = "rest"
  BY DEF QueueInit, Resting
<1>5. popping.at = "rest" /\ popping.all = FALSE
  BY DEF QueueInit, Popping
<1>6. Linked(chain) /\ Owned(chain) /\ Consumer(chain, 1)
  <2>1. next[Stub] = Null
    BY DEF QueueInit, Links
  <2>2. Linked(chain)
    BY <1>1, <1>4, <1>5, <2>1 DEF Linked
  <2>3. Owned(chain)
    BY <1>2, <1>4 DEF Owned
  <2>4. Consumer(chain, 1)
    BY <1>4, <1>5 DEF Consumer
  <2> QED
    BY <2>2, <2>3, <2>4
<1>7. QueueTypes
  BY Zenon, <1>2, <1>4, <1>5 DEF QueueTypes, QueueInit, Links
<1> QED
  BY Zenon, <1>1, <1>3, <1>6, <1>7 DEF QueueInv

(* A node that nobody has used is in no place of the list. *)
LEMMA UnusedOutside ==
    ASSUME QueueTypes, NEW chain, NEW s, IsChain(chain, s, fifo, tail_, head_),
           NEW n \in Nodes, n \notin Used
    PROVE  /\ \A i \in 1 .. Len(chain) : chain[i] # n
           /\ n \notin Nodes_(taken)
           /\ \A p \in Producers : emplacing[p].at # "rest" => emplacing[p].node # n
<1>1. n \notin Nodes_(taken) /\ \A i \in DOMAIN fifo : fifo[i] # n
  BY DEF Used, Nodes_
<1>2. DOMAIN fifo = 1 .. Len(fifo)
  BY DEF IsChain
<1>3. \A i \in 1 .. Len(chain) : chain[i] # n
  <2> TAKE i \in 1 .. Len(chain)
  <2>1. CASE i = s
    BY <2>1, QueueAssumption DEF IsChain
  <2>2. CASE s = 0 \/ i < s
    <3>1. chain[i] = fifo[i] /\ i \in DOMAIN fifo
      BY <2>2, <1>2 DEF IsChain
    <3> QED
      BY <3>1, <1>1
  <2>3. CASE s # 0 /\ i > s
    <3>1. chain[i] = fifo[i - 1]
      BY <2>3 DEF IsChain
    <3>2. s \in Nat /\ Len(chain) \in Nat /\ Len(fifo) = Len(chain) - 1
      BY <2>3 DEF IsChain
    <3>3. i - 1 \in DOMAIN fifo
      BY <2>3, <3>2, <1>2
    <3> QED
      BY <3>1, <3>3, <1>1
  <2> QED
    BY <2>1, <2>2, <2>3 DEF IsChain
<1>4. \A p \in Producers : emplacing[p].at # "rest" => emplacing[p].node # n
  BY DEF Used
<1> QED
  BY <1>1, <1>3, <1>4

(* One step of a producer. *)
LEMMA ProducerStep ==
    ASSUME QueueInv, NEW p \in Producers,
           Produce(p) \/ \E n \in Nodes : Allocate(p, n)
    PROVE  QueueInv'
<1>1. PICK chain \in Seq(Links), s \in Nat :
         /\ IsChain(chain, s, fifo, tail_, head_)
         /\ Linked(chain) /\ Owned(chain) /\ Consumer(chain, s)
  BY DEF QueueInv
<1>2. QueueTypes
  BY DEF QueueInv
<1>3. CASE \E n \in Nodes : Allocate(p, n)
  <2>1. PICK n \in Nodes : Allocate(p, n)
    BY <1>3
  <2>2. /\ emplacing' = [emplacing EXCEPT ![p] = [at |-> "push", node |-> n]]
        /\ emplacing[p].at = "rest" /\ ~popping.all
        /\ UNCHANGED <<next, head_, tail_, popping, fifo, taken>>
    BY <2>1 DEF Allocate, Resting
  <2>3. /\ emplacing'[p].at = "push" /\ emplacing'[p].node = n
        /\ \A q \in Producers : q # p => emplacing'[q] = emplacing[q]
        /\ DOMAIN emplacing' = Producers
    BY <2>2, <1>2 DEF QueueTypes
  <2>4. /\ \A i \in 1 .. Len(chain) : chain[i] # n
        /\ n \notin Nodes_(taken)
        /\ \A q \in Producers : emplacing[q].at # "rest" => emplacing[q].node # n
    BY <2>1, <1>1, <1>2, UnusedOutside DEF Allocate
  <2>5. QueueTypes'
    BY <2>2, <2>3, <1>2 DEF QueueTypes
  <2>6. Linked(chain)'
    <3>1. ASSUME NEW x, NEW y, Linking(x, y) PROVE Linking(x, y)'
      BY <3>1, <2>2, <2>3 DEF Linking
    <3> QED
      BY <3>1, <1>1, <2>2, <2>3 DEF Linked
  <2>7. Owned(chain)'
    BY <1>1, <2>2, <2>3, <2>4 DEF Owned, Nodes_
  <2>8. Consumer(chain, s)'
    BY <1>1, <2>2, <2>3 DEF Consumer
  <2>9. IsChain(chain, s, fifo, tail_, head_)'
    BY <1>1, <2>2
  <2> QED
    BY <2>5, <2>6, <2>7, <2>8, <2>9 DEF QueueInv
<1>4. CASE Exchange(p)
  <2>0. PICK n \in Nodes : emplacing[p].node = n
    BY <1>4, <1>2 DEF Exchange, QueueTypes
  <2> DEFINE more == Append(chain, n)
  <2>1. /\ emplacing[p].at = "push"
        /\ head_' = n
        /\ next' = [next EXCEPT ![n] = Null]
        /\ emplacing' = [emplacing EXCEPT ![p] = [at |-> "link", node |-> n, prev |-> head_]]
        /\ fifo' = Append(fifo, n)
        /\ UNCHANGED <<tail_, popping, taken>>
    BY <2>0, <1>4 DEF Exchange
  <2>2. /\ emplacing'[p].at = "link" /\ emplacing'[p].node = n /\ emplacing'[p].prev = head_
        /\ \A q \in Producers : q # p => emplacing'[q] = emplacing[q]
        /\ DOMAIN emplacing' = Producers
    BY <2>1, <1>2 DEF QueueTypes
  <2>3. /\ \A i \in 1 .. Len(chain) : chain[i] # n
        /\ n \notin Nodes_(taken)
        /\ \A q \in Producers : q # p /\ emplacing[q].at # "rest" => emplacing[q].node # n
    BY <1>1, <2>0, <2>1 DEF Owned
  <2>4. IsChain(more, s, fifo, tail_, head_)'
    BY <1>1, <2>1, <2>3, ChainGrows
  <2>5. /\ more \in Seq(Links) /\ Len(chain) \in Nat \ {0} /\ Len(more) = Len(chain) + 1
        /\ more[Len(chain) + 1] = n
        /\ \A i \in 1 .. Len(chain) : more[i] = chain[i]
        /\ head_ = chain[Len(chain)]
    BY <1>1, <2>1 DEF IsChain, Links
  <2>6. /\ next'[n] = Null
        /\ \A i \in 1 .. Len(chain) : next'[chain[i]] = next[chain[i]]
    BY <2>1, <2>3, <1>1, <1>2 DEF QueueTypes, Links, IsChain
  <2>7. QueueTypes'
    BY <2>1, <2>2, <1>2 DEF QueueTypes
  <2>8. Linked(more)'
    <3>1. ASSUME NEW x, NEW y, Linking(x, y) PROVE Linking(x, y)'
      BY <3>1, <2>1, <2>2 DEF Linking
    <3>2. Linking(chain[Len(chain)], n)'
      BY <2>2, <2>5 DEF Linking
    <3>3. next'[more[Len(more)]] = Null
      BY <2>5, <2>6
    <3>4. ASSUME NEW i \in 1 .. Len(more) - 1
          PROVE  \/ next'[more[i]] = more[i + 1]
                 \/ next'[more[i]] = Null /\ Linking(more[i], more[i + 1])'
      <4>1. CASE i = Len(chain)
        BY <4>1, <3>2, <2>5, <2>6, <1>1 DEF Linked
      <4>2. CASE i \in 1 .. Len(chain) - 1
        <5>1. more[i] = chain[i] /\ more[i + 1] = chain[i + 1] /\ next'[chain[i]] = next[chain[i]]
          BY <4>2, <2>5, <2>6
        <5> QED
          BY <4>2, <5>1, <3>1, <1>1 DEF Linked
      <4> QED
        BY <4>1, <4>2, <2>5
    <3>5. ASSUME NEW q \in Producers, emplacing'[q].at = "link"
          PROVE  \E i \in 1 .. Len(more) - 1 :
                   /\ emplacing'[q].prev = more[i] /\ emplacing'[q].node = more[i + 1]
                   /\ next'[more[i]] = Null
      <4>1. CASE q = p
        <5>1. Len(chain) \in 1 .. Len(more) - 1 /\ next'[more[Len(chain)]] = Null
          BY <2>5, <2>6, <1>1 DEF Linked
        <5> QED
          BY <5>1, <4>1, <2>2, <2>5
      <4>2. CASE q # p
        <5>1. PICK i \in 1 .. Len(chain) - 1 :
                   /\ emplacing[q].prev = chain[i] /\ emplacing[q].node = chain[i + 1]
                   /\ next[chain[i]] = Null
          BY <4>2, <3>5, <2>2, <1>1 DEF Linked
        <5> QED
          BY <5>1, <4>2, <2>2, <2>5, <2>6
      <4> QED
        BY <4>1, <4>2
    <3>6. popping'.at # "link_stub" \/ \E i \in 1 .. Len(more) - 1 :
                   /\ popping'.prev = more[i] /\ more[i + 1] = Stub
                   /\ next'[more[i]] = Null
      BY <1>1, <2>1, <2>5, <2>6 DEF Linked
    <3> QED
      BY <3>3, <3>4, <3>5, <3>6 DEF Linked
  <2>9. Owned(more)'
    <3>1. \A i \in 1 .. Len(more) : more[i] \notin Nodes_(taken)'
      <4>1. \A i \in 1 .. Len(chain) : chain[i] \notin Nodes_(taken)
        BY <1>1 DEF Owned
      <4>2. \A i \in 1 .. Len(more) : more[i] \notin Nodes_(taken)
        BY <4>1, <2>3, <2>5
      <4> QED
        BY <4>2, <2>1
    <3>2. \A q \in Producers : emplacing'[q].at = "push" =>
            /\ \A i \in 1 .. Len(more) : more[i] # emplacing'[q].node
            /\ emplacing'[q].node \notin Nodes_(taken)'
      <4> SUFFICES ASSUME NEW q \in Producers, emplacing'[q].at = "push"
                   PROVE  /\ \A i \in 1 .. Len(more) : more[i] # emplacing'[q].node
                          /\ emplacing'[q].node \notin Nodes_(taken)'
        OBVIOUS
      <4>1. q # p /\ emplacing'[q] = emplacing[q]
        BY <2>2
      <4>2. /\ \A i \in 1 .. Len(chain) : chain[i] # emplacing[q].node
            /\ emplacing[q].node \notin Nodes_(taken)
            /\ emplacing[q].node # n
        BY <1>1, <2>3, <4>1 DEF Owned
      <4>3. \A i \in 1 .. Len(more) : more[i] # emplacing[q].node
        BY <4>2, <2>5
      <4> QED
        BY <4>1, <4>2, <4>3, <2>1
    <3>3. \A q, r \in Producers :
            /\ emplacing'[q].at # "rest" /\ emplacing'[r].at # "rest"
            /\ emplacing'[q].node = emplacing'[r].node
            => q = r
      BY <1>1, <2>0, <2>1, <2>2 DEF Owned
    <3> QED
      BY <3>1, <3>2, <3>3 DEF Owned
  <2>10. Consumer(more, s)'
    BY <1>1, <2>1, <2>2 DEF Consumer
  <2>11. more \in Seq(Links) /\ s \in Nat
    BY <2>5
  <2> QED
    BY Zenon, <2>4, <2>7, <2>8, <2>9, <2>10, <2>11 DEF QueueInv
<1>5. CASE Link(p)
  <2> DEFINE n == emplacing[p].node
  <2>1. /\ emplacing[p].at = "link" /\ n \in Nodes
        /\ next' = [next EXCEPT ![emplacing[p].prev] = n]
        /\ emplacing' = [emplacing EXCEPT ![p] = [at |-> "count", node |-> n]]
        /\ UNCHANGED <<head_, tail_, popping, fifo, taken>>
    BY <1>5, <1>2 DEF Link, QueueTypes
  <2>2. /\ emplacing'[p].at = "count" /\ emplacing'[p].node = n
        /\ \A q \in Producers : q # p => emplacing'[q] = emplacing[q]
        /\ DOMAIN emplacing' = Producers
    BY <2>1, <1>2 DEF QueueTypes
  <2>3. PICK k \in 1 .. Len(chain) - 1 :
          /\ emplacing[p].prev = chain[k] /\ n = chain[k + 1] /\ next[chain[k]] = Null
    BY <1>1, <2>1 DEF Linked
  <2>4. /\ Len(chain) \in Nat \ {0} /\ \A i \in 1 .. Len(chain) : chain[i] \in Links
        /\ \A i, j \in 1 .. Len(chain) : chain[i] = chain[j] => i = j
    BY <1>1 DEF IsChain
  <2>5. /\ next'[chain[k]] = chain[k + 1]
        /\ \A i \in 1 .. Len(chain) : i # k => next'[chain[i]] = next[chain[i]]
    BY <2>1, <2>3, <2>4, <1>2 DEF QueueTypes
  <2>6. QueueTypes'
    BY <2>1, <2>2, <1>2 DEF QueueTypes
  <2>7. Linked(chain)'
    <3>1. next'[chain[Len(chain)]] = Null
      BY <2>3, <2>4, <2>5, <1>1 DEF Linked
    <3>2. ASSUME NEW i \in 1 .. Len(chain) - 1
          PROVE  \/ next'[chain[i]] = chain[i + 1]
                 \/ next'[chain[i]] = Null /\ Linking(chain[i], chain[i + 1])'
      <4>1. CASE i = k
        BY <4>1, <2>5
      <4>2. CASE i # k
        <5>1. chain[i + 1] # n /\ next'[chain[i]] = next[chain[i]]
          BY <4>2, <2>3, <2>4, <2>5
        <5>2. Linking(chain[i], chain[i + 1]) => Linking(chain[i], chain[i + 1])'
          BY <5>1, <2>1, <2>2 DEF Linking
        <5> QED
          BY <5>1, <5>2, <1>1 DEF Linked
      <4> QED
        BY <4>1, <4>2
    <3>3. ASSUME NEW q \in Producers, emplacing'[q].at = "link"
          PROVE  \E i \in 1 .. Len(chain) - 1 :
                   /\ emplacing'[q].prev = chain[i] /\ emplacing'[q].node = chain[i + 1]
                   /\ next'[chain[i]] = Null
      <4>1. q # p /\ emplacing'[q] = emplacing[q]
        BY <3>3, <2>2
      <4>2. PICK i \in 1 .. Len(chain) - 1 :
                   /\ emplacing[q].prev = chain[i] /\ emplacing[q].node = chain[i + 1]
                   /\ next[chain[i]] = Null
        BY <4>1, <3>3, <1>1 DEF Linked
      <4>3. i # k
        BY <4>1, <4>2, <3>3, <2>1, <2>3, <1>1 DEF Owned
      <4> QED
        BY <4>1, <4>2, <4>3, <2>4, <2>5
    <3>4. ASSUME popping'.at = "link_stub"
          PROVE  \E i \in 1 .. Len(chain) - 1 :
                   /\ popping'.prev = chain[i] /\ chain[i + 1] = Stub
                   /\ next'[chain[i]] = Null
      <4>1. PICK i \in 1 .. Len(chain) - 1 :
                   /\ popping.prev = chain[i] /\ chain[i + 1] = Stub
                   /\ next[chain[i]] = Null
        BY <3>4, <2>1, <1>1 DEF Linked
      <4>2. i # k
        BY <4>1, <2>1, <2>3, QueueAssumption
      <4> QED
        BY <4>1, <4>2, <2>1, <2>4, <2>5
    <3> QED
      BY <3>1, <3>2, <3>3, <3>4 DEF Linked
  <2>8. Owned(chain)'
    BY <1>1, <2>1, <2>2 DEF Owned, Nodes_
  <2>9. Consumer(chain, s)'
    BY <1>1, <2>1, <2>2 DEF Consumer
  <2>10. IsChain(chain, s, fifo, tail_, head_)'
    BY <1>1, <2>1
  <2> QED
    BY <2>6, <2>7, <2>8, <2>9, <2>10 DEF QueueInv
<1>6. CASE Count(p)
  <2>1. /\ emplacing[p].at = "count"
        /\ emplacing' = [emplacing EXCEPT ![p] = Resting]
        /\ UNCHANGED <<next, head_, tail_, popping, fifo, taken>>
    BY <1>6 DEF Count
  <2>2. /\ emplacing'[p] = Resting /\ emplacing'[p].at = "rest"
        /\ \A q \in Producers : q # p => emplacing'[q] = emplacing[q]
        /\ DOMAIN emplacing' = Producers
    BY <2>1, <1>2 DEF QueueTypes, Resting
  <2>3. QueueTypes'
    BY <2>1, <2>2, <1>2 DEF QueueTypes
  <2>4. Linked(chain)'
    <3>1. ASSUME NEW x, NEW y, Linking(x, y) PROVE Linking(x, y)'
      BY <3>1, <2>1, <2>2 DEF Linking
    <3> QED
      BY <3>1, <1>1, <2>1, <2>2 DEF Linked
  <2>5. Owned(chain)'
    BY <1>1, <2>1, <2>2 DEF Owned, Nodes_
  <2>6. Consumer(chain, s)'
    BY <1>1, <2>1, <2>2 DEF Consumer
  <2>7. IsChain(chain, s, fifo, tail_, head_)'
    BY <1>1, <2>1
  <2> QED
    BY <2>3, <2>4, <2>5, <2>6, <2>7 DEF QueueInv
<1> QED
  BY <1>3, <1>4, <1>5, <1>6 DEF Produce

(* The consumer goes on to another place and touches nothing but that. *)
LEMMA PlaceChanged ==
    ASSUME QueueTypes, NEW chain \in Seq(Links), NEW s \in Nat,
           IsChain(chain, s, fifo, tail_, head_), Linked(chain), Owned(chain),
           UNCHANGED <<next, head_, tail_, emplacing, fifo, taken>>,
           popping.at # "link_stub", popping'.at # "link_stub", popping'.all \in BOOLEAN,
           Consumer(chain, s)'
    PROVE  QueueInv'
<1>1. QueueTypes'
  BY DEF QueueTypes
<1>2. ASSUME NEW x, NEW y, Linking(x, y) PROVE Linking(x, y)'
  BY <1>2 DEF Linking
<1>3. Linked(chain)'
  BY <1>2 DEF Linked
<1>4. Owned(chain)' /\ IsChain(chain, s, fifo, tail_, head_)'
  BY DEF Owned, Nodes_
<1> QED
  BY <1>1, <1>3, <1>4 DEF QueueInv

(* The consumer gives out the first node, which points to the next one. *)
LEMMA NodeReturned ==
    ASSUME QueueTypes, NEW chain \in Seq(Links), NEW s \in Nat,
           IsChain(chain, s, fifo, tail_, head_), Linked(chain), Owned(chain), Consumer(chain, s),
           popping.at # "link_stub",
           tail_ # Stub, next[tail_] # Null, ReturnNode(tail_), UNCHANGED <<next, head_, emplacing>>
    PROVE  QueueInv' /\ fifo # << >> /\ tail_ = Head(fifo) /\ Len(fifo') = Len(fifo) - 1
<1> DEFINE rest == Tail(chain)
<1>0. PICK t \in Nat : t = IF s = 0 THEN 0 ELSE s - 1
  OBVIOUS
<1>1. Len(chain) >= 2 /\ next[tail_] = chain[2] /\ Linked(rest)
  BY LinkedTail
<1>2. /\ fifo # << >> /\ tail_ = Head(fifo) /\ IsChain(rest, t, fifo, tail_, head_)'
      /\ Len(fifo') = Len(fifo) - 1
  <2>1. fifo' = SubSeq(fifo, 2, Len(fifo)) /\ tail_' = chain[2] /\ head_' = head_
    BY <1>1 DEF ReturnNode
  <2>2. /\ fifo # << >> /\ tail_ = Head(fifo) /\ Len(fifo') = Len(fifo) - 1
        /\ IsChain(rest, t, fifo', chain[2], head_)
    BY <1>0, <1>1, <2>1, ChainShrinks
  <2> QED
    BY SMTT(30), <2>1, <2>2 DEF IsChain
<1>3. /\ Len(chain) \in Nat /\ rest \in Seq(Links) /\ Len(rest) = Len(chain) - 1
      /\ \A i \in 1 .. Len(chain) - 1 : rest[i] = chain[i + 1]
  BY <1>1, ChainTail DEF IsChain
<1>4. /\ popping'.at \in {"begin", "subtract"} /\ popping'.all = popping.all
      /\ popping'.at = "subtract" => ~popping.all
  BY DEF ReturnNode, Popping, QueueTypes
<1>5. tail_ \in Nodes /\ tail_ = chain[1]
  BY DEF IsChain, Links
<1>6. taken' \in Seq(Nodes) /\ Nodes_(taken)' = Nodes_(taken) \cup {tail_}
  <2>1. taken' = Append(taken, tail_) /\ taken \in Seq(Nodes)
    BY DEF ReturnNode, QueueTypes
  <2>2. /\ taken' \in Seq(Nodes) /\ Len(taken) \in Nat /\ Len(taken') = Len(taken) + 1
        /\ taken'[Len(taken) + 1] = tail_
        /\ \A i \in 1 .. Len(taken) : taken'[i] = taken[i]
        /\ DOMAIN taken' = 1 .. Len(taken) + 1 /\ DOMAIN taken = 1 .. Len(taken)
    BY <2>1, <1>5
  <2>3. ASSUME NEW n PROVE n \in Nodes_(taken)' <=> n \in Nodes_(taken) \cup {tail_}
    BY SMTT(30), <2>2 DEF Nodes_
  <2> QED
    BY <2>2, <2>3
<1>7. QueueTypes'
  BY SMTT(30), <1>4, <1>6 DEF QueueTypes
<1>8. Linked(rest)'
  <2>1. ASSUME NEW x, NEW y, Linking(x, y) PROVE Linking(x, y)'
    BY <2>1 DEF Linking
  <2> QED
    BY SMTT(30), <2>1, <1>1, <1>4 DEF Linked
<1>9. Owned(rest)'
  <2>1. \A i \in 1 .. Len(rest) : rest[i] # tail_ /\ rest[i] \notin Nodes_(taken)
    <3> TAKE i \in 1 .. Len(rest)
    <3>1. i + 1 \in 1 .. Len(chain) /\ 1 \in 1 .. Len(chain) /\ i + 1 # 1 /\ rest[i] = chain[i + 1]
      BY <1>1, <1>3
    <3> QED
      BY <3>1, <1>5 DEF IsChain, Owned
  <2>2. \A p \in Producers : emplacing[p].at = "push" =>
          /\ \A i \in 1 .. Len(rest) : rest[i] # emplacing[p].node
          /\ emplacing[p].node # tail_ /\ emplacing[p].node \notin Nodes_(taken)
    BY <1>1, <1>3, <1>5 DEF Owned
  <2> QED
    BY <2>1, <2>2, <1>6 DEF Owned
<1>10. Consumer(rest, t)'
  BY <1>4 DEF Consumer
<1> QED
  BY Zenon, <1>2, <1>3, <1>7, <1>8, <1>9, <1>10 DEF QueueInv

(* One step of the consumer; what it gives out is the first of the queue. *)
LEMMA ConsumerStep ==
    ASSUME QueueInv, Consume \/ \E all \in BOOLEAN : StartPop(all)
    PROVE  /\ QueueInv'
           /\ \/ taken' = taken /\ fifo' = fifo /\ popping'.at # "subtract"
              \/ /\ fifo # << >> /\ taken' = Append(taken, Head(fifo))
                 /\ Len(fifo') = Len(fifo) - 1
<1>1. PICK chain \in Seq(Links), s \in Nat :
         /\ IsChain(chain, s, fifo, tail_, head_)
         /\ Linked(chain) /\ Owned(chain) /\ Consumer(chain, s)
  BY DEF QueueInv
<1>2. QueueTypes
  BY DEF QueueInv
<1>3. /\ Len(chain) \in Nat \ {0} /\ \A i \in 1 .. Len(chain) : chain[i] \in Links
      /\ \A i, j \in 1 .. Len(chain) : chain[i] = chain[j] => i = j
      /\ tail_ = chain[1] /\ head_ = chain[Len(chain)]
      /\ s \in 0 .. Len(chain) /\ (s # 0 => chain[s] = Stub)
      /\ \A i \in 1 .. Len(chain) : chain[i] = Stub => i = s
  BY <1>1 DEF IsChain
<1> DEFINE Same == taken' = taken /\ fifo' = fifo /\ popping'.at # "subtract"
<1>4. ASSUME NEW where \in {"rest", "begin", "last", "push_stub", "reset"}, GoTo(where),
             UNCHANGED <<next, head_, emplacing>>, popping.at # "link_stub",
             where \in {"last", "push_stub"} => tail_ # Stub,
             where = "push_stub" => s = 0,
             where = "reset" => popping.all /\ Len(chain) = 1 /\ tail_ = Stub,
             where = "rest" => ~popping.all
      PROVE  QueueInv' /\ Same
  <2>1. popping'.at = where /\ popping'.all = popping.all /\ UNCHANGED <<tail_, taken, fifo>>
    BY SMTT(30), <1>4 DEF GoTo, Popping
  <2>2. Consumer(chain, s)'
    BY <1>1, <1>4, <2>1 DEF Consumer
  <2> QED
    BY <1>1, <1>2, <1>4, <2>1, <2>2, PlaceChanged DEF QueueTypes
<1>5. CASE \E all \in BOOLEAN : StartPop(all)
  <2>1. PICK all \in BOOLEAN : StartPop(all)
    BY <1>5
  <2>2. /\ popping.at = "rest" /\ popping'.at = "begin" /\ popping'.all = all
        /\ UNCHANGED <<next, head_, tail_, emplacing, fifo, taken>>
        /\ all => \A p \in Producers : emplacing[p].at = "rest"
    BY <2>1 DEF StartPop, Popping, Resting
  <2>3. Consumer(chain, s)'
    BY <1>1, <2>2 DEF Consumer
  <2> QED
    BY <1>1, <1>2, <2>2, <2>3, PlaceChanged
<1>6. CASE LoadNext
  <2>1. popping.at = "begin" /\ UNCHANGED <<next, head_, emplacing>>
    BY <1>6 DEF LoadNext
  <2>2. CASE /\ tail_ = Stub /\ next[Stub] = Null
             /\ GoTo(IF popping.all THEN "reset" ELSE "rest")
    <3>1. popping.all => Len(chain) = 1
      <4>1. SUFFICES ASSUME popping.all, Len(chain) >= 2 PROVE FALSE
        BY SMTT(30), <1>3
      <4>2. Linking(chain[1], chain[2]) \/ next[chain[1]] = chain[2]
        BY <4>1, <1>1, <1>3 DEF Linked
      <4>3. ~Linking(chain[1], chain[2])
        BY <4>1, <1>1, <2>1 DEF Linking, Consumer
      <4> QED
        BY <4>1, <4>2, <4>3, <2>2, <1>3, QueueAssumption DEF Links, Null, Stub
    <3> QED
      BY <3>1, <1>2, <1>4, <2>1, <2>2 DEF QueueTypes
  <2>3. CASE /\ tail_ = Stub /\ next[Stub] # Null
             /\ tail_' = next[Stub]
             /\ popping' = Popping("skipped", popping.all)
             /\ UNCHANGED <<fifo, taken>>
    <3> DEFINE rest == Tail(chain)
    <3>1. Len(chain) >= 2 /\ next[tail_] = chain[2] /\ Linked(rest)
      BY <1>1, <2>3, LinkedTail
    <3>2. IsChain(rest, 0, fifo, tail_, head_)'
      BY <1>1, <2>1, <2>3, <3>1, StubSkipped
    <3>3. /\ rest \in Seq(Links) /\ Len(rest) = Len(chain) - 1
          /\ \A i \in 1 .. Len(chain) - 1 : rest[i] = chain[i + 1]
      BY <1>1, <1>3, <3>1, ChainTail
    <3>4. popping'.at = "skipped" /\ popping'.all = popping.all
      BY <2>3 DEF Popping
    <3>5. QueueTypes'
      BY <1>2, <2>1, <2>3, <3>4 DEF QueueTypes
    <3>6. Linked(rest)'
      <4>1. ASSUME NEW x, NEW y, Linking(x, y) PROVE Linking(x, y)'
        BY <4>1, <2>1 DEF Linking
      <4> QED
        BY SMTT(30), <4>1, <3>1, <3>4, <2>1 DEF Linked
    <3>7. Owned(rest)'
      BY SMTT(30), <1>1, <1>3, <2>1, <2>3, <3>3 DEF Owned, Nodes_
    <3>8. Consumer(rest, 0)'
      <4>1. tail_' # Stub
        <5>1. chain[1] = Stub /\ tail_' = chain[2] /\ {1, 2} \subseteq 1 .. Len(chain)
          BY <1>3, <2>3, <3>1
        <5> QED
          BY <1>3, <5>1
      <4> QED
        BY <4>1, <1>1, <2>1, <3>4 DEF Consumer
    <3> QED
      BY Zenon, <2>3, <3>2, <3>3, <3>4, <3>5, <3>6, <3>7, <3>8 DEF QueueInv
  <2>4. CASE tail_ # Stub /\ next[tail_] # Null /\ ReturnNode(tail_)
    BY <1>1, <1>2, <2>1, <2>4, NodeReturned DEF ReturnNode
  <2>5. CASE tail_ # Stub /\ next[tail_] = Null /\ GoTo("last")
    BY <1>4, <2>1, <2>5
  <2> QED
    BY <1>6, <2>2, <2>3, <2>4, <2>5 DEF LoadNext
<1>7. CASE LoadNextAgain
  <2>1. popping.at = "skipped" /\ UNCHANGED <<next, head_, emplacing>> /\ tail_ # Stub
    BY <1>1, <1>7 DEF LoadNextAgain, Consumer
  <2>2. CASE next[tail_] # Null /\ ReturnNode(tail_)
    BY <1>1, <1>2, <2>1, <2>2, NodeReturned DEF ReturnNode
  <2>3. CASE GoTo("last")
    BY <1>4, <2>1, <2>3
  <2> QED
    BY <1>7, <2>2, <2>3 DEF LoadNextAgain
<1>8. CASE LoadHead
  <2>1. popping.at = "last" /\ UNCHANGED <<next, head_, emplacing>> /\ tail_ # Stub
    BY <1>1, <1>8 DEF LoadHead, Consumer
  <2>2. CASE tail_ # head_
    BY <1>4, <1>8, <2>1, <2>2 DEF LoadHead
  <2>3. CASE tail_ = head_
    <3>1. s = 0
      <4>1. Len(chain) = 1
        <5>1. {1, Len(chain)} \subseteq 1 .. Len(chain) /\ chain[1] = chain[Len(chain)]
          BY <1>3, <2>3
        <5> QED
          BY Zenon, <1>3, <5>1
      <4> QED
        BY <1>3, <2>1, <4>1
    <3>2. GoTo("push_stub")
      BY <1>8, <2>3 DEF LoadHead
    <3> QED
      BY <1>4, <2>1, <3>1, <3>2
  <2> QED
    BY <2>2, <2>3
<1>9. CASE ExchangeStub
  <2> DEFINE more == Append(chain, Stub)
             u == Len(chain) + 1
  <2>1. /\ popping.at = "push_stub" /\ s = 0 /\ tail_ # Stub
        /\ next' = [next EXCEPT ![Stub] = Null] /\ head_' = Stub
        /\ popping'.at = "link_stub" /\ popping'.all = popping.all /\ popping'.prev = head_
        /\ UNCHANGED <<tail_, emplacing, fifo, taken>>
    BY <1>1, <1>9 DEF ExchangeStub, Consumer
  <2>2. IsChain(more, u, fifo, tail_, head_)'
    BY <1>1, <2>1, StubAdded
  <2>3. /\ more \in Seq(Links) /\ u \in Nat /\ Len(more) = Len(chain) + 1
        /\ more[Len(chain) + 1] = Stub
        /\ \A i \in 1 .. Len(chain) : more[i] = chain[i]
    BY <1>1, <1>3 DEF Links
  <2>4. /\ next'[Stub] = Null
        /\ \A i \in 1 .. Len(chain) : chain[i] # Stub /\ next'[chain[i]] = next[chain[i]]
    BY <1>2, <1>3, <2>1 DEF QueueTypes, Links
  <2>5. QueueTypes'
    BY <1>2, <2>1 DEF QueueTypes
  <2>6. Linked(more)'
    <3>1. ASSUME NEW x, NEW y, Linking(x, y) PROVE Linking(x, y)'
      BY <3>1, <2>1 DEF Linking
    <3>2. Linking(chain[Len(chain)], Stub)'
      BY <1>3, <2>1 DEF Linking
    <3>3. next'[more[Len(more)]] = Null
      BY <2>3, <2>4
    <3>4. ASSUME NEW i \in 1 .. Len(more) - 1
          PROVE  \/ next'[more[i]] = more[i + 1]
                 \/ next'[more[i]] = Null /\ Linking(more[i], more[i + 1])'
      <4>1. CASE i = Len(chain)
        BY SMTT(30), <4>1, <1>1, <1>3, <2>3, <2>4, <3>2 DEF Linked
      <4>2. CASE i \in 1 .. Len(chain) - 1
        <5>1. more[i] = chain[i] /\ more[i + 1] = chain[i + 1] /\ next'[chain[i]] = next[chain[i]]
          BY SMTT(30), <4>2, <2>3, <2>4, <1>3
        <5> QED
          BY <4>2, <5>1, <3>1, <1>1 DEF Linked
      <4> QED
        BY <4>1, <4>2, <2>3, <1>3
    <3>5. ASSUME NEW q \in Producers, emplacing'[q].at = "link"
          PROVE  \E i \in 1 .. Len(more) - 1 :
                   /\ emplacing'[q].prev = more[i] /\ emplacing'[q].node = more[i + 1]
                   /\ next'[more[i]] = Null
      <4>1. PICK i \in 1 .. Len(chain) - 1 :
                 /\ emplacing[q].prev = chain[i] /\ emplacing[q].node = chain[i + 1]
                 /\ next[chain[i]] = Null
        BY <3>5, <2>1, <1>1 DEF Linked
      <4> QED
        BY SMTT(30), <4>1, <1>3, <2>1, <2>3, <2>4
    <3>6. \E i \in 1 .. Len(more) - 1 :
                   /\ popping'.prev = more[i] /\ more[i + 1] = Stub
                   /\ next'[more[i]] = Null
      <4>1. Len(chain) \in 1 .. Len(more) - 1 /\ next'[more[Len(chain)]] = Null
        BY SMTT(30), <1>1, <1>3, <2>3, <2>4 DEF Linked
      <4> QED
        BY <4>1, <1>3, <2>1, <2>3
    <3> QED
      BY <3>3, <3>4, <3>5, <3>6 DEF Linked
  <2>7. Owned(more)'
    <3>1. \A i \in 1 .. Len(more) : more[i] \notin Nodes_(taken)'
      <4>1. Stub \notin Nodes_(taken)
        BY SMTT(30), <1>2, QueueAssumption DEF QueueTypes, Nodes_
      <4> QED
        BY <4>1, <1>1, <1>3, <2>1, <2>3 DEF Owned, Nodes_
    <3>2. \A p \in Producers : emplacing'[p].at = "push" =>
            /\ \A i \in 1 .. Len(more) : more[i] # emplacing'[p].node
            /\ emplacing'[p].node \notin Nodes_(taken)'
      BY SMTT(30), <1>1, <1>2, <1>3, <2>1, <2>3, QueueAssumption DEF Owned, Nodes_, QueueTypes
    <3> QED
      BY SMTT(30), <3>1, <3>2, <1>1, <2>1 DEF Owned
  <2>8. Consumer(more, u)'
    BY SMTT(30), <1>1, <2>1 DEF Consumer
  <2> QED
    BY ZenonT(40), <2>1, <2>2, <2>3, <2>5, <2>6, <2>7, <2>8 DEF QueueInv
<1>10. CASE LinkStub
  <2>1. /\ popping.at = "link_stub"
        /\ next' = [next EXCEPT ![popping.prev] = Stub]
        /\ popping'.at = "reload" /\ popping'.all = popping.all
        /\ UNCHANGED <<head_, tail_, emplacing, fifo, taken>>
    BY <1>10 DEF LinkStub, Popping
  <2>2. PICK k \in 1 .. Len(chain) - 1 :
          /\ popping.prev = chain[k] /\ chain[k + 1] = Stub /\ next[chain[k]] = Null
    BY <1>1, <2>1 DEF Linked
  <2>3. /\ next'[chain[k]] = chain[k + 1]
        /\ \A i \in 1 .. Len(chain) : i # k => next'[chain[i]] = next[chain[i]]
    BY <1>2, <1>3, <2>1, <2>2 DEF QueueTypes
  <2>4. QueueTypes'
    BY <1>2, <2>1 DEF QueueTypes
  <2>5. Linked(chain)'
    <3>1. next'[chain[Len(chain)]] = Null
      BY SMTT(30), <1>1, <1>3, <2>2, <2>3 DEF Linked
    <3>2. ASSUME NEW i \in 1 .. Len(chain) - 1
          PROVE  \/ next'[chain[i]] = chain[i + 1]
                 \/ next'[chain[i]] = Null /\ Linking(chain[i], chain[i + 1])'
      <4>1. CASE i = k
        BY SMTT(30), <4>1, <2>3
      <4>2. CASE i # k
        <5>1. chain[i + 1] # Stub /\ next'[chain[i]] = next[chain[i]]
          BY SMTT(30), <4>2, <1>3, <2>2, <2>3
        <5>2. Linking(chain[i], chain[i + 1]) => Linking(chain[i], chain[i + 1])'
          BY <5>1, <2>1 DEF Linking
        <5> QED
          BY <5>1, <5>2, <1>1 DEF Linked
      <4> QED
        BY <4>1, <4>2
    <3>3. ASSUME NEW q \in Producers, emplacing'[q].at = "link"
          PROVE  \E i \in 1 .. Len(chain) - 1 :
                   /\ emplacing'[q].prev = chain[i] /\ emplacing'[q].node = chain[i + 1]
                   /\ next'[chain[i]] = Null
      <4>1. PICK i \in 1 .. Len(chain) - 1 :
                   /\ emplacing[q].prev = chain[i] /\ emplacing[q].node = chain[i + 1]
                   /\ next[chain[i]] = Null
        BY <3>3, <2>1, <1>1 DEF Linked
      <4>2. i # k
        BY SMTT(30), <4>1, <3>3, <1>2, <2>1, <2>2, QueueAssumption DEF QueueTypes
      <4> QED
        BY SMTT(30), <4>1, <4>2, <1>3, <2>1, <2>3
    <3> QED
      BY <3>1, <3>2, <3>3, <2>1 DEF Linked
  <2>6. Owned(chain)' /\ IsChain(chain, s, fifo, tail_, head_)'
    BY <1>1, <2>1 DEF Owned, Nodes_
  <2>7. Consumer(chain, s)'
    BY <1>1, <2>1 DEF Consumer
  <2> QED
    BY <1>1, <2>1, <2>4, <2>5, <2>6, <2>7 DEF QueueInv
<1>11. CASE Reload
  <2>1. popping.at = "reload" /\ UNCHANGED <<next, head_, emplacing>> /\ tail_ # Stub
    BY <1>1, <1>11 DEF Reload, Consumer
  <2>2. CASE next[tail_] # Null /\ ReturnNode(tail_)
    BY <1>1, <1>2, <2>1, <2>2, NodeReturned DEF ReturnNode
  <2>3. CASE GoTo("begin")
    BY <1>4, <2>1, <2>3
  <2> QED
    BY <1>11, <2>2, <2>3 DEF Reload
<1>12. CASE Subtract
  <2>1. /\ popping.at \in {"subtract", "reset"} /\ popping'.all = popping.all
        /\ popping'.at = IF popping.all THEN "destroyed" ELSE "rest"
        /\ UNCHANGED <<next, head_, tail_, emplacing, fifo, taken>>
    BY <1>12 DEF Subtract, Popping
  <2>2. Consumer(chain, s)'
    BY <1>1, <2>1 DEF Consumer
  <2> QED
    BY <1>1, <1>2, <2>1, <2>2, PlaceChanged DEF QueueTypes
<1> QED
  BY <1>5, <1>6, <1>7, <1>8, <1>9, <1>10, <1>11, <1>12 DEF Consume

(* The pushes that have exchanged head_ and not counted yet. *)
Uncounted == {p \in Producers : emplacing[p].at \in {"link", "count"}}

(* The counter and what it counts, but for the destructor. *)
QueueCount ==
    /\ counter_ \in Int
    /\ ~popping.all => counter_ + Cardinality(Uncounted)
                         = Len(fifo) + (IF popping.at = "subtract" THEN 1 ELSE 0)

(* They are finitely many. *)
LEMMA UncountedFinite == IsFiniteSet(Uncounted) /\ Cardinality(Uncounted) \in Nat
<1>1. IsFiniteSet(Uncounted)
  BY QueueAssumption, FS_Subset DEF Uncounted
<1> QED
  BY <1>1, FS_CardinalityType

(* Before the count the consumer touches neither the counter nor the       *)
(* producers, and pop() counts the node that it has got.                   *)
LEMMA ConsumerOnly ==
    ASSUME QueueInv, Consume \/ \E all \in BOOLEAN : StartPop(all), ~Subtract
    PROVE  /\ counter_' = counter_ /\ popping.at # "subtract" /\ (~popping'.all => ~popping.all)
           /\ taken' # taken /\ ~popping'.all => popping'.at = "subtract"
<1>1. ASSUME \E n : ReturnNode(n) \/ \E where : GoTo(where)
      PROVE  /\ popping'.all = popping.all
             /\ taken' # taken /\ ~popping'.all => popping'.at = "subtract"
  BY <1>1 DEF ReturnNode, GoTo, Popping
<1>2. CASE \E all \in BOOLEAN : StartPop(all)
  BY <1>2 DEF StartPop, Popping, QueueInv, Consumer
<1>3. CASE LoadNext
  <2>1. CASE popping' = Popping("skipped", popping.all) /\ UNCHANGED <<fifo, taken>>
    BY <1>3, <2>1 DEF LoadNext, Popping
  <2>2. CASE \E n : ReturnNode(n) \/ \E where : GoTo(where)
    BY <1>1, <1>3, <2>2 DEF LoadNext
  <2> QED
    BY <1>3, <2>1, <2>2 DEF LoadNext
<1>4. CASE LoadNextAgain
  BY <1>1, <1>4 DEF LoadNextAgain
<1>5. CASE LoadHead
  BY <1>1, <1>5 DEF LoadHead
<1>6. CASE ExchangeStub
  BY <1>6 DEF ExchangeStub
<1>7. CASE LinkStub
  BY <1>7 DEF LinkStub, Popping
<1>8. CASE Reload
  BY <1>1, <1>8 DEF Reload
<1> QED
  BY <1>2, <1>3, <1>4, <1>5, <1>6, <1>7, <1>8 DEF Consume

(* Every step keeps the count right. *)
LEMMA CountStep ==
    ASSUME QueueInv, QueueCount, QueueNext
    PROVE  QueueCount'
<1>1. QueueTypes /\ Len(fifo) \in Nat
  BY DEF QueueInv, IsChain
<1>2. IsFiniteSet(Uncounted) /\ Cardinality(Uncounted) \in Nat
  BY UncountedFinite
<1>3. ASSUME NEW p \in Producers, NEW n \in Nodes, Allocate(p, n) PROVE QueueCount'
  <2>1. Uncounted' = Uncounted
    BY <1>1, <1>3 DEF Allocate, Uncounted, QueueTypes, Resting
  <2> QED
    BY <2>1, <1>3 DEF Allocate, QueueCount
<1>4. ASSUME NEW p \in Producers, Exchange(p) PROVE QueueCount'
  <2>1. Uncounted' = Uncounted \cup {p} /\ p \notin Uncounted
    BY <1>1, <1>4 DEF Exchange, Uncounted, QueueTypes
  <2>2. Cardinality(Uncounted') = Cardinality(Uncounted) + 1
    BY <2>1, <1>2, FS_AddElement
  <2>3. Len(fifo') = Len(fifo) + 1 /\ UNCHANGED <<counter_, popping>>
    <3>1. fifo \in Seq(Nodes) /\ emplacing[p].node \in Nodes
      BY <1>1, <1>4 DEF QueueInv, IsChain, Exchange, QueueTypes
    <3> QED
      BY <3>1, <1>4 DEF Exchange
  <2>4. Cardinality(Uncounted)' = Cardinality(Uncounted')
    OBVIOUS
  <2> QED
    BY <1>1, <1>2, <2>2, <2>3, <2>4 DEF QueueCount
<1>5. ASSUME NEW p \in Producers, Link(p) PROVE QueueCount'
  <2>1. Uncounted' = Uncounted
    BY <1>1, <1>5 DEF Link, Uncounted, QueueTypes
  <2> QED
    BY <2>1, <1>5 DEF Link, QueueCount
<1>6. ASSUME NEW p \in Producers, Count(p) PROVE QueueCount'
  <2>1. Uncounted' = Uncounted \ {p} /\ p \in Uncounted
    BY <1>1, <1>6 DEF Count, Uncounted, QueueTypes, Resting
  <2>2. Cardinality(Uncounted') = Cardinality(Uncounted) - 1
    BY <2>1, <1>2, FS_RemoveElement
  <2>3. counter_' = counter_ + 1 /\ UNCHANGED <<fifo, popping>>
    BY <1>6 DEF Count
  <2>4. Cardinality(Uncounted)' = Cardinality(Uncounted')
    OBVIOUS
  <2> QED
    BY <1>1, <1>2, <2>2, <2>3, <2>4 DEF QueueCount
<1>7. ASSUME Consume \/ \E all \in BOOLEAN : StartPop(all) PROVE QueueCount'
  <2>1. emplacing' = emplacing
    BY <1>7 DEF Consume, StartPop, LoadNext, LoadNextAgain, LoadHead, ExchangeStub, LinkStub, Reload,
                Subtract
  <2>2. Cardinality(Uncounted)' = Cardinality(Uncounted)
    BY <2>1 DEF Uncounted
  <2>3. CASE Subtract
    BY <2>2, <2>3, <1>1, <1>2 DEF Subtract, QueueCount, Popping, QueueInv, Consumer
  <2>4. CASE ~Subtract
    <3>1. /\ counter_' = counter_ /\ popping.at # "subtract" /\ (~popping'.all => ~popping.all)
          /\ taken' # taken /\ ~popping'.all => popping'.at = "subtract"
      BY <1>7, <2>4, ConsumerOnly
    <3>2. CASE taken' = taken /\ fifo' = fifo /\ popping'.at # "subtract"
      BY <3>1, <3>2, <2>2 DEF QueueCount
    <3>3. CASE /\ fifo # << >> /\ taken' = Append(taken, Head(fifo))
               /\ Len(fifo') = Len(fifo) - 1
      <4>1. Len(taken') = Len(taken) + 1 /\ Len(taken) \in Nat
        BY <3>3, <1>1 DEF QueueTypes
      <4>2. taken' # taken
        BY <4>1
      <4> QED
        BY <4>2, <3>1, <3>3, <2>2, <1>1, <1>2 DEF QueueCount
    <3> QED
      BY <3>2, <3>3, <1>7, ConsumerStep
  <2> QED
    BY SMTT(30), <2>3, <2>4
<1> QED
  BY <1>3, <1>4, <1>5, <1>6, <1>7 DEF QueueNext, Produce

-----------------------------------------------------------------------------
(* The list of a QueueAtomic is always one chain from tail_ to head_, in   *)
(* the order of the exchanges of head_, whole but for the links that       *)
(* emplace() and push_stub are about to make, and its counter is right.    *)
THEOREM QueueInvariant == QueueSpec => [](QueueInv /\ QueueCount)
<1>1. QueueInit => QueueInv /\ QueueCount
  <2> SUFFICES ASSUME QueueInit PROVE QueueInv /\ QueueCount
    OBVIOUS
  <2>1. Uncounted = {} /\ Cardinality({}) = 0
    BY FS_EmptySet DEF QueueInit, Uncounted, Resting
  <2>2. QueueCount
    BY <2>1 DEF QueueInit, QueueCount, Popping
  <2> QED
    BY <2>2, QueueStart
<1>2. QueueInv /\ QueueCount /\ [QueueNext]_queueVars => (QueueInv /\ QueueCount)'
  <2> SUFFICES ASSUME QueueInv, QueueCount, [QueueNext]_queueVars PROVE (QueueInv /\ QueueCount)'
    OBVIOUS
  <2>1. CASE QueueNext
    BY <2>1, ProducerStep, ConsumerStep, CountStep DEF QueueNext
  <2>2. CASE UNCHANGED queueVars
    <3>1. PICK chain \in Seq(Links), s \in Nat :
             /\ IsChain(chain, s, fifo, tail_, head_)
             /\ Linked(chain) /\ Owned(chain) /\ Consumer(chain, s)
      BY SMTT(30) DEF QueueInv
    <3>2. QueueTypes' /\ QueueCount'
      BY <2>2 DEF queueVars, QueueInv, QueueTypes, QueueCount, Uncounted
    <3>3. IsChain(chain, s, fifo, tail_, head_)'
      BY SMTT(30), <2>2, <3>1 DEF queueVars
    <3>4. Linked(chain)'
      <4>1. UNCHANGED <<next, emplacing, popping>>
        BY <2>2 DEF queueVars
      <4>2. ASSUME NEW x, NEW y, Linking(x, y) PROVE Linking(x, y)'
        BY <4>1, <4>2 DEF Linking
      <4> QED
        BY <4>1, <4>2, <3>1 DEF Linked
    <3>5. Owned(chain)' /\ Consumer(chain, s)'
      BY Zenon, <2>2, <3>1 DEF queueVars, Owned, Consumer, Nodes_
    <3> QED
      BY <3>2, <3>3, <3>4, <3>5 DEF QueueInv
  <2> QED
    BY <2>1, <2>2
<1> QED
  BY <1>1, <1>2, PTL DEF QueueSpec

(* pop_and_check_end() gives out the elements in the order in which their  *)
(* pushes have exchanged head_, each once, whatever the order in which the *)
(* links are made, for any number of producers and elements.               *)
THEOREM FirstOut == QueueSpec => FifoOrder
<1>1. ASSUME QueueInv, [QueueNext]_queueVars
      PROVE  [taken' # taken => fifo # << >> /\ taken' = Append(taken, Head(fifo))]_queueVars
  <2>1. CASE \E p \in Producers : Produce(p) \/ \E n \in Nodes : Allocate(p, n)
    BY <2>1 DEF Produce, Exchange, Link, Count, Allocate
  <2>2. CASE Consume \/ \E all \in BOOLEAN : StartPop(all)
    BY <1>1, <2>2, ConsumerStep
  <2> QED
    BY <1>1, <2>1, <2>2 DEF QueueNext
<1> QED
  BY <1>1, QueueInvariant, PTL DEF QueueSpec, FifoOrder

(* The consumer frees a node only when neither head_ nor tail_ nor the     *)
(* former head of a push in progress is on it (QueueAtomic.hpp:53).        *)
THEOREM FreedAlone == QueueSpec => []NoLinkToFreedNode
<1>1. QueueInv => NoLinkToFreedNode
  <2> SUFFICES ASSUME QueueInv PROVE NoLinkToFreedNode
    OBVIOUS
  <2>1. PICK chain \in Seq(Links), s \in Nat :
           IsChain(chain, s, fifo, tail_, head_) /\ Linked(chain) /\ Owned(chain)
    BY DEF QueueInv
  <2>2. {head_, tail_} \cap Nodes_(taken) = {}
    BY <2>1 DEF IsChain, Owned
  <2>3. ASSUME NEW p \in Producers, emplacing[p].at = "link"
        PROVE  emplacing[p].prev \notin Nodes_(taken)
    BY <2>1, <2>3 DEF IsChain, Linked, Owned
  <2> QED
    BY <2>2, <2>3 DEF NoLinkToFreedNode
<1> QED
  BY <1>1, QueueInvariant, PTL

(* counter_ is the number of the elements but for the calls that have not  *)
(* counted yet, and the destructor's clear() leaves the list of the stub   *)
(* alone (QueueAtomic.hpp:45).                                             *)
THEOREM CounterRight == QueueSpec => []CounterExact
<1>1. QueueInv /\ QueueCount => CounterExact
  <2> SUFFICES ASSUME QueueInv, QueueCount PROVE CounterExact
    OBVIOUS
  <2>1. PICK chain \in Seq(Links), s \in Nat :
           IsChain(chain, s, fifo, tail_, head_) /\ Consumer(chain, s)
    BY DEF QueueInv
  <2>2. ASSUME popping.at = "destroyed" PROVE head_ = Stub /\ tail_ = Stub /\ fifo = << >>
    <3>1. Len(chain) = 1 /\ tail_ = Stub
      BY <2>1, <2>2 DEF Consumer
    <3>2. s = 1
      <4>1. 1 \in 1 .. Len(chain) /\ chain[1] = Stub /\ s \in 0 .. 1
        BY <2>1, <3>1 DEF IsChain
      <4>2. s # 0
        BY <2>1, <4>1 DEF IsChain
      <4> QED
        BY <4>1, <4>2
    <3>3. Len(fifo) = 0 /\ fifo \in Seq(Nodes)
      BY <2>1, <3>1, <3>2 DEF IsChain
    <3> QED
      BY <2>1, <3>1, <3>3 DEF IsChain
  <2> QED
    BY <2>2 DEF CounterExact, QueueCount, Uncounted
<1> QED
  BY <1>1, QueueInvariant, PTL
=============================================================================
