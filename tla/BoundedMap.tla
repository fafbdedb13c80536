----------------------------- MODULE BoundedMap -----------------------------
(***************************************************************************)
(* Generics::BoundedMap (src/Generics/BoundedMap.hpp): an associative      *)
(* container of limited size.  Every item is in container_ and, in the     *)
(* order of its last use, in queue_; items not used for timeout_ make room *)
(* for new ones.                                                           *)
(*                                                                         *)
(* Every operation is one critical section, but its `now' is read before   *)
(* the lock is taken.  Data is abstracted to its size under size_policy_,  *)
(* which may change behind the map (values are shared pointers) until      *)
(* update() is called.                                                     *)
(***************************************************************************)
EXTENDS Integers, SequencesExt

CONSTANTS
    Threads, Keys,
    Sizes,          \* the sizes data can have
    Bounds,         \* the bounds the map can be given
    timeout_,
    MaxTime,        \* bound on the clock
    MaxInserts      \* bound on stat_.inserted_new

VARIABLES
    bound_, size_,
    container_,     \* by key: the size an item is recorded with and that of its data
    queue_,         \* keys with the time of their last use, least recently used first
    stat_,
    clock,
    now             \* now[t]: the times (one or none) the call of thread t has read

vars == <<bound_, size_, container_, queue_, stat_, clock, now>>

Item == [size : Sizes, data : Sizes]
Ordered == [key : Keys, last_used : 0 .. MaxTime]
Statistics == [inserted_new : Nat, removed_outdated : Nat, removed_updated : Nat]

NoStatistics == [inserted_new |-> 0, removed_outdated |-> 0, removed_updated |-> 0]

TypeOK ==
    /\ bound_ \in Bounds /\ size_ \in Nat
    /\ DOMAIN container_ \subseteq Keys /\ Range(container_) \subseteq Item
    /\ queue_ \in Seq(Ordered)
    /\ stat_ \in Statistics
    /\ clock \in 0 .. MaxTime
    /\ now \in [Threads -> SUBSET (0 .. MaxTime)]

Init ==
    /\ bound_ \in Bounds /\ size_ = 0
    /\ container_ = <<>> /\ queue_ = <<>>
    /\ stat_ = NoStatistics
    /\ clock = 0
    /\ now = [t \in Threads |-> {}]

KeysOf(q) == {q[i].key : i \in DOMAIN q}
Sum(keys) == MapThenSumSet(LAMBDA k : container_[k].size, keys)

(* erase() from the two containers *)
Without(keys) == Restrict(container_, DOMAIN container_ \ keys)
Unlinked(q, keys) == SelectSeq(q, LAMBDA e : e.key \notin keys)

Tick ==
    /\ clock < MaxTime
    /\ clock' = clock + 1
    /\ UNCHANGED <<bound_, size_, container_, queue_, stat_, now>>

(* Time now(Time::get_time_of_day()), before the guard *)
ReadTime(t) ==
    /\ now[t] = {}
    /\ now' = [now EXCEPT ![t] = {clock}]
    /\ UNCHANGED <<bound_, size_, container_, queue_, stat_, clock>>

Return(t) == now' = [now EXCEPT ![t] = {}]

-----------------------------------------------------------------------------
(* An item is thrown out one tick too early. *)
OutdatedEarly(last_used, time) == last_used + timeout_ <= time + 1

(* ! (last_used + timeout_ > now) *)
Outdated(last_used, time) == last_used + timeout_ <= time

(* An item becomes the most recent one. *)
Touched(k, time) == Append(Unlinked(queue_, {k}), [key |-> k, last_used |-> time])

(* Room up to the bound and one more. *)
FitsLoosely(total) == total <= bound_ + 1

Fits(total) == total <= bound_

(* The loops that make room pass the first i items of a queue q: the least *)
(* i at which Enough holds, q is at its end or its next item is in use.    *)
Passed(q, time, Enough(_)) ==
    Min({i \in 0 .. Len(q) : Enough(i) \/ i = Len(q) \/ ~Outdated(q[i + 1].last_used, time)})

Prefix(q, i) == KeysOf(SubSeq(q, 1, i))

(* insert_(): the outdated items it passes are removed even if that does   *)
(* not make room enough in the end.                                        *)
insert_(k, s, time) ==
    LET Room(i) == Fits(size_ - Sum(Prefix(queue_, i)) + s)
        i == Passed(queue_, time, Room)
        rest == SubSeq(queue_, i + 1, Len(queue_))
        left == size_ - Sum(Prefix(queue_, i))
        removed == stat_.removed_outdated + i IN
    IF ~Fits(s)
    THEN UNCHANGED <<size_, container_, queue_, stat_>>
    ELSE IF Room(i)
    THEN /\ size_' = left + s
         /\ container_' = (k :> [size |-> s, data |-> s]) @@ Without(Prefix(queue_, i))
         /\ queue_' = Append(rest, [key |-> k, last_used |-> time])
         /\ stat_' = [stat_ EXCEPT !.inserted_new = @ + 1, !.removed_outdated = removed]
    ELSE /\ size_' = left
         /\ container_' = Without(Prefix(queue_, i))
         /\ queue_' = rest
         /\ stat_' = [stat_ EXCEPT !.removed_outdated = removed]

(* A removal that is counted twice. *)
DropCounted(k, q) ==
    /\ size_' = size_ - container_[k].size
    /\ container_' = Without({k})
    /\ queue_' = Unlinked(q, {k})
    /\ stat_' = [stat_ EXCEPT !.removed_updated = @ + 1, !.removed_outdated = @ + 1]

(* The item does not fit after an update: it is removed. *)
Drop(k, q) ==
    /\ size_' = size_ - container_[k].size
    /\ container_' = Without({k})
    /\ queue_' = Unlinked(q, {k})
    /\ stat_' = [stat_ EXCEPT !.removed_updated = @ + 1]

(* An update_() that leaves the total as it was. *)
UpdateItemOnly(k, s, q, time) ==
    IF Fits(size_ + s - container_[k].size)
    THEN /\ container_' = [container_ EXCEPT ![k] = [size |-> s, data |-> s]]
         /\ queue_' = q
         /\ UNCHANGED <<size_, stat_>>
    ELSE Drop(k, q)

(* update_(): k has data of size s; q is the queue at that time.           *)
(* (What fits at i = 0 fits alone, so both tests of the code are in this.) *)
update_(k, s, q, time) ==
    LET NewSize(i) == size_ + s - container_[k].size - Sum(Prefix(q, i) \ {k})
        Room(i) == Fits(NewSize(i))
        i == Passed(q, time, Room)
        gone == Prefix(q, i) \ {k} IN
    IF Fits(s) /\ Room(i)
    THEN /\ size_' = NewSize(i)
         /\ container_' = [Without(gone) EXCEPT ![k] = [size |-> s, data |-> s]]
         /\ queue_' = Unlinked(q, gone)
         /\ stat_' = [stat_ EXCEPT !.removed_outdated = @ + Cardinality(gone)]
    ELSE Drop(k, q)

-----------------------------------------------------------------------------
find(t, k) ==
    /\ \E time \in now[t] :
          queue_' = IF k \in DOMAIN container_ THEN Touched(k, time) ELSE queue_
    /\ Return(t)
    /\ UNCHANGED <<bound_, size_, container_, stat_, clock>>

insert(t, k, s) ==
    /\ stat_.inserted_new < MaxInserts
    /\ \E time \in now[t] :
          IF k \in DOMAIN container_
          THEN queue_' = Touched(k, time) /\ UNCHANGED <<size_, container_, stat_>>
          ELSE insert_(k, s, time)
    /\ Return(t)
    /\ UNCHANGED <<bound_, clock>>

insert_or_update(t, k, s) ==
    /\ stat_.inserted_new < MaxInserts
    /\ \E time \in now[t] :
          IF k \in DOMAIN container_
          THEN update_(k, s, Touched(k, time), time)
          ELSE insert_(k, s, time)
    /\ Return(t)
    /\ UNCHANGED <<bound_, clock>>

update(t, k) ==
    /\ \E time \in now[t] :
          IF k \in DOMAIN container_
          THEN update_(k, container_[k].data, queue_, time)
          ELSE UNCHANGED <<size_, container_, queue_, stat_>>
    /\ Return(t)
    /\ UNCHANGED <<bound_, clock>>

erase(k) ==
    /\ k \in DOMAIN container_
    /\ size_' = size_ - container_[k].size
    /\ container_' = Without({k})
    /\ queue_' = Unlinked(queue_, {k})
    /\ UNCHANGED <<bound_, stat_, clock, now>>

clear ==
    /\ size_' = 0 /\ container_' = <<>> /\ queue_' = <<>>
    /\ UNCHANGED <<bound_, stat_, clock, now>>

(* bound(new_bound): no removal of extra elements is made. *)
bound(new_bound) ==
    /\ bound_' = new_bound
    /\ UNCHANGED <<size_, container_, queue_, stat_, clock, now>>

(* statistics(true) *)
statistics ==
    /\ stat_' = NoStatistics
    /\ UNCHANGED <<bound_, size_, container_, queue_, clock, now>>

(* The user changes the data of an item through the pointer they hold. *)
Change(k, s) ==
    /\ k \in DOMAIN container_
    /\ container_' = [container_ EXCEPT ![k].data = s]
    /\ UNCHANGED <<bound_, size_, queue_, stat_, clock, now>>

-----------------------------------------------------------------------------
Next ==
    \/ Tick \/ clear \/ statistics
    \/ \E b \in Bounds : bound(b)
    \/ \E k \in Keys : erase(k) \/ \E s \in Sizes : Change(k, s)
    \/ \E t \in Threads : ReadTime(t)
    \/ \E t \in Threads, k \in Keys : find(t, k) \/ update(t, k)
    \/ \E t \in Threads, k \in Keys, s \in Sizes : insert(t, k, s) \/ insert_or_update(t, k, s)

Spec == Init /\ [][Next]_vars

-----------------------------------------------------------------------------
(* The three structures agree: the queue lists every key of the container  *)
(* once, and size_ is what the items are recorded with.  The variables     *)
(* have their types.                                                       *)
Consistent ==
    /\ TypeOK
    /\ KeysOf(queue_) = DOMAIN container_
    /\ Len(queue_) = Cardinality(DOMAIN container_)
    /\ size_ = Sum(DOMAIN container_)

(* Only room is filled: no operation leaves the map larger than it was and *)
(* larger than its bound.                                                  *)
GrowsWithinBound == [][size_' > size_ => size_' <= bound_]_vars

(* "if ... the least recent item was used more than timeout ago it is      *)
(* removed": a call for one key removes another only if that one has not   *)
(* been used for timeout_ at the time the call has read.                   *)
NoRecentItemRemoved ==
    [][\A t \in Threads : now[t] # {} /\ now'[t] = {} =>
          \A i \in DOMAIN queue_ : queue_[i].key \notin DOMAIN container_' =>
              \/ \E time \in now[t] : queue_[i].last_used + timeout_ <= time
              \/ /\ stat_'.removed_updated = stat_.removed_updated + 1
                 /\ Len(queue_') = Len(queue_) - 1]_vars

(* The statistics account for the items: in every call the counters change *)
(* by what it has put into the map and taken out of it.                    *)
StatisticsAddUp ==
    [][\A t \in Threads : now[t] # {} /\ now'[t] = {} =>
          Len(queue_') - Len(queue_) =
              (stat_'.inserted_new - stat_.inserted_new)
              - (stat_'.removed_outdated - stat_.removed_outdated)
              - (stat_'.removed_updated - stat_.removed_updated)]_vars
=============================================================================
