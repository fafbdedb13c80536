---------------------------- MODULE PlannerProofs ---------------------------
(***************************************************************************)
(* Proofs about Generics::Planner as a component of MCGenerics, for any    *)
(* sets of goals and callers and any bounds: the list of messages stays    *)
(* sorted, no goal is delivered before its time, and the working thread    *)
(* does not sleep beyond the first message.                                *)
(*                                                                         *)
(* That schedule() and the working thread find the places they look for in *)
(* the list rests on the least number of a set, from the well-foundedness  *)
(* of the natural numbers.                                                 *)
(***************************************************************************)
EXTENDS MCGenerics, SequenceTheorems, WellFoundedInduction, TLAPS

(* A set of natural numbers that is not empty has a least element. *)
LEMMA LeastNumber ==
    ASSUME NEW S, S \subseteq Nat, S # {}
    PROVE  \E n \in S : \A m \in S : n <= m
<1>1. PICK n \in S : \A m \in S : ~(<<m, n>> \in OpToRel(<, Nat))
  BY Zenon, NatLessThanWellFounded, WFMin
<1>2. ASSUME NEW m \in S PROVE n <= m
  <2>1. <<m, n>> \notin OpToRel(<, Nat)
    BY Zenon, <1>1
  <2>2. ~(m < n)
    BY <2>1 DEF OpToRel
  <2> QED
    BY <2>2
<1> QED
  BY <1>2

(* Seq(S) from the functions on 1 .. n. *)
LEMMA FunctionIsSequence ==
    ASSUME NEW S, NEW n \in Nat, NEW f \in [1 .. n -> S]
    PROVE  f \in Seq(S) /\ Len(f) = n
OBVIOUS

(* The list with m put behind its first n messages, as emplace() does. *)
LEMMA Emplaced ==
    ASSUME NEW n \in 0 .. Len(messages_), NEW m \in PL!TimedMessage,
           messages_ \in Seq(PL!TimedMessage)
    PROVE  /\ PL!Emplace(n, m) \in Seq(PL!TimedMessage)
           /\ Len(PL!Emplace(n, m)) = Len(messages_) + 1
           /\ \A i \in 1 .. Len(messages_) + 1 :
                PL!Emplace(n, m)[i] = IF i <= n THEN messages_[i]
                                      ELSE IF i = n + 1 THEN m ELSE messages_[i - 1]
<1> DEFINE M == PL!TimedMessage
           front == SubSeq(messages_, 1, n)
           back == SubSeq(messages_, n + 1, Len(messages_))
<1>1. Len(messages_) \in Nat /\ \A i \in 1 .. Len(messages_) : messages_[i] \in M
  BY LenProperties, ElementOfSeq
<1>2. /\ front \in Seq(M) /\ Len(front) = n
      /\ \A i \in 1 .. n : front[i] = messages_[i]
  <2>1. \A i \in 1 .. n : messages_[i] \in M
    BY <1>1
  <2>2. /\ front \in Seq(M)
        /\ Len(front) = IF 1 <= n THEN n - 1 + 1 ELSE 0
        /\ \A i \in 1 .. n - 1 + 1 : front[i] = messages_[1 + i - 1]
    BY <2>1, <1>1, SubSeqProperties
  <2> QED
    BY <2>2, <1>1
<1>3. /\ back \in Seq(M) /\ Len(back) = Len(messages_) - n
      /\ \A i \in 1 .. Len(messages_) - n : back[i] = messages_[n + i]
  <2>1. \A i \in n + 1 .. Len(messages_) : messages_[i] \in M
    BY <1>1
  <2>2. /\ back \in Seq(M)
        /\ Len(back) = IF n + 1 <= Len(messages_) THEN Len(messages_) - (n + 1) + 1 ELSE 0
        /\ \A i \in 1 .. Len(messages_) - (n + 1) + 1 : back[i] = messages_[(n + 1) + i - 1]
    BY <2>1, <1>1, SubSeqProperties
  <2> QED
    BY <2>2, <1>1
<1> DEFINE one == <<m>>
           ahead == front \o one
<1>4. one \in Seq(M) /\ Len(one) = 1 /\ one[1] = m
  OBVIOUS
<1>5. PL!Emplace(n, m) = ahead \o back
  BY DEF PL!Emplace
<1> HIDE DEF M, front, back, one
<1>6. /\ ahead \in Seq(M) /\ Len(ahead) = n + 1
      /\ \A i \in 1 .. n + 1 : ahead[i] = IF i <= n THEN front[i] ELSE one[i - n]
  <2>1. /\ ahead \in Seq(M) /\ Len(ahead) = Len(front) + Len(one)
        /\ \A i \in 1 .. Len(front) + Len(one) :
             ahead[i] = IF i <= Len(front) THEN front[i] ELSE one[i - Len(front)]
    BY Zenon, <1>2, <1>4, ConcatProperties
  <2> QED
    BY <2>1, <1>1, <1>2, <1>4
<1> HIDE DEF ahead
<1>7. /\ ahead \o back \in Seq(M)
      /\ Len(ahead \o back) = Len(messages_) + 1
      /\ \A i \in 1 .. Len(messages_) + 1 :
           (ahead \o back)[i] = IF i <= n + 1 THEN ahead[i] ELSE back[i - (n + 1)]
  <2>1. Len(ahead) + Len(back) = Len(messages_) + 1
    BY <1>1, <1>3, <1>6
  <2> QED
    BY <2>1, <1>3, <1>6, ConcatProperties
<1>8. ASSUME NEW i \in 1 .. Len(messages_) + 1
      PROVE  (ahead \o back)[i] = IF i <= n THEN messages_[i]
                                  ELSE IF i = n + 1 THEN m ELSE messages_[i - 1]
  <2>1. CASE i <= n
    BY <2>1, <1>1, <1>2, <1>6, <1>7
  <2>2. CASE i = n + 1
    BY <2>2, <1>1, <1>4, <1>6, <1>7
  <2>3. CASE i > n + 1
    <3>1. i - (n + 1) \in 1 .. Len(messages_) - n /\ n + (i - (n + 1)) = i - 1
      BY <2>3, <1>1
    <3> QED
      BY SMTT(30), <2>3, <3>1, <1>1, <1>3, <1>7
  <2>4. i <= n \/ i = n + 1 \/ i > n + 1
    BY <1>1
  <2> QED
    BY Zenon, <2>1, <2>2, <2>3, <2>4
<1> QED
  BY <1>5, <1>7, <1>8 DEF M

(* The place schedule() finds, from the end, is behind all earlier         *)
(* messages and before all that are not earlier.                           *)
LEMMA PlaceFound ==
    ASSUME NEW tm \in PL!Time, messages_ \in Seq(PL!TimedMessage)
    PROVE  /\ PL!Place(tm) \in 0 .. Len(messages_)
           /\ PL!Place(tm) > 0 => messages_[PL!Place(tm)].time < tm
           /\ \A i \in PL!Place(tm) + 1 .. Len(messages_) : messages_[i].time >= tm
<1> DEFINE S == {n \in 0 .. Len(messages_) :
                   \A i \in n + 1 .. Len(messages_) : messages_[i].time >= tm}
           Good(n) == /\ n > 0 => messages_[n].time < tm
                      /\ \A i \in n + 1 .. Len(messages_) : messages_[i].time >= tm
<1>1. /\ Len(messages_) \in Nat /\ tm \in Int
      /\ \A i \in 1 .. Len(messages_) : messages_[i].time \in Int
  <2>1. PL!Time \subseteq Int
    BY GenericsAssumption DEF PL!Time
  <2>2. ASSUME NEW i \in 1 .. Len(messages_) PROVE messages_[i].time \in PL!Time
    <3>1. messages_[i] \in PL!TimedMessage
      BY ElementOfSeq
    <3> QED
      BY <3>1 DEF PL!TimedMessage
  <2> QED
    BY Zenon, <2>1, <2>2, LenProperties
<1>2. Len(messages_) \in S /\ S \subseteq Nat
  BY <1>1
<1>3. PICK n \in S : \A k \in S : n <= k
  BY Zenon, <1>2, LeastNumber
<1>4. ASSUME n > 0 PROVE messages_[n].time < tm
  <2>1. n - 1 \in 0 .. Len(messages_) /\ ~(n <= n - 1)
    BY <1>1, <1>4
  <2>2. n - 1 \notin S
    BY Zenon, <2>1, <1>3
  <2>3. PICK i \in n .. Len(messages_) : ~(messages_[i].time >= tm)
    BY <2>1, <2>2, <1>1
  <2>4. i = n
    BY <2>3, <1>1, <1>3
  <2> QED
    BY <2>3, <2>4, <1>1, <1>4
<1>5. n \in 0 .. Len(messages_) /\ Good(n)
  BY <1>3, <1>4
<1> HIDE DEF S
<1>6. PL!Place(tm) = CHOOSE k \in 0 .. Len(messages_) : Good(k)
  BY DEF PL!Place
<1> HIDE DEF Good
<1>7. PL!Place(tm) \in 0 .. Len(messages_) /\ Good(PL!Place(tm))
  BY <1>5, <1>6
<1> QED
  BY <1>7 DEF Good

(* The time at which a message is delivered is a time, and keeps the order *)
(* of the messages.                                                        *)
LEMMA DueTime ==
    ASSUME NEW m \in PL!TimedMessage, NEW k \in PL!TimedMessage,
           delivery_time_shift_ \in PL!Time, m.time <= k.time
    PROVE  PL!Due(m) \in PL!Time /\ PL!Due(m) <= PL!Due(k)
<1>1. m.time \in PL!Time /\ k.time \in PL!Time
  BY DEF PL!TimedMessage
<1> QED
  BY <1>1, GenericsAssumption DEF PL!Due, PL!Time

(* The working thread takes messages from the front until one is not due. *)
LEMMA OverdueFound ==
    ASSUME messages_ \in Seq(PL!TimedMessage), delivery_time_shift_ \in PL!Time,
           cur_time \in PL!Time
    PROVE  /\ PL!Overdue \in 0 .. Len(messages_)
           /\ \A i \in 1 .. PL!Overdue : PL!Due(messages_[i]) <= cur_time
           /\ PL!Overdue < Len(messages_) => PL!Due(messages_[PL!Overdue + 1]) > cur_time
<1> DEFINE S == {n \in 0 .. Len(messages_) :
                   n < Len(messages_) => PL!Due(messages_[n + 1]) > cur_time}
           Good(n) == /\ \A i \in 1 .. n : PL!Due(messages_[i]) <= cur_time
                      /\ n < Len(messages_) => PL!Due(messages_[n + 1]) > cur_time
<1>1. ASSUME NEW i \in 1 .. Len(messages_) PROVE PL!Due(messages_[i]) \in Int
  <2>1. messages_[i] \in PL!TimedMessage
    BY ElementOfSeq
  <2>2. messages_[i].time <= messages_[i].time
    BY <2>1, GenericsAssumption DEF PL!TimedMessage, PL!Time
  <2> QED
    BY <2>1, <2>2, DueTime, GenericsAssumption DEF PL!Time
<1>2. Len(messages_) \in Nat /\ cur_time \in Int
  BY GenericsAssumption, LenProperties DEF PL!Time
<1>3. Len(messages_) \in S /\ S \subseteq Nat
  BY <1>2
<1>4. PICK n \in S : \A k \in S : n <= k
  BY Zenon, <1>3, LeastNumber
<1>5. ASSUME NEW i \in 1 .. n PROVE PL!Due(messages_[i]) <= cur_time
  <2>1. n \in 0 .. Len(messages_)
    BY <1>4
  <2>2. i - 1 \in 0 .. Len(messages_) /\ ~(n <= i - 1) /\ i - 1 < Len(messages_) /\ (i - 1) + 1 = i
    BY <2>1, <1>2
  <2>3. i - 1 \notin S
    BY <2>2, <1>4
  <2>4. ~(PL!Due(messages_[i]) > cur_time)
    BY <2>2, <2>3
  <2>5. i \in 1 .. Len(messages_)
    BY <2>1, <1>2
  <2> QED
    BY <2>4, <2>5, <1>1, <1>2
<1>6. n \in 0 .. Len(messages_) /\ Good(n)
  BY <1>4, <1>5
<1> HIDE DEF S
<1>7. PL!Overdue = CHOOSE k \in 0 .. Len(messages_) : Good(k)
  BY DEF PL!Overdue
<1> HIDE DEF Good
<1>8. PL!Overdue \in 0 .. Len(messages_) /\ Good(PL!Overdue)
  BY <1>6, <1>7
<1> QED
  BY <1>8 DEF Good

(* What the working thread knows of the schedule before and while it       *)
(* waits: its timeout is not later than the first message, or the          *)
(* predicate is set; and once it waits only schedule() can set it, which   *)
(* signals afterwards.  What it has taken was due when it read the clock.  *)
PlannerInv ==
    /\ PL!TypeOK
    /\ cur_time <= now
    /\ \A i \in 1 .. Len(pending) : PL!Due(pending[i]) <= cur_time
    /\ pl_pc \in {"before_wait", "waiting"} =>
         \/ messages_ = <<>>
         \/ abs_time <= PL!Due(Head(messages_))
         \/ have_new_events_
    /\ pl_pc = "waiting" /\ have_new_events_ => \E s \in Schedulers : scheduler[s] = "signal"

(* A planner begins with nothing scheduled. *)
LEMMA PlannerInit == PL!Init => PlannerInv
<1> SUFFICES ASSUME PL!Init PROVE PlannerInv
  OBVIOUS
<1>1. messages_ = <<>> /\ pending = <<>> /\ Len(<<>>) = 0
  BY DEF PL!Init
<1>2. messages_ \in Seq(PL!TimedMessage) /\ pending \in Seq(PL!TimedMessage)
  BY <1>1
<1>3. PL!Sorted(messages_)
  BY <1>1 DEF PL!Sorted
<1>4. now \in PL!Time /\ delivery_time_shift_ \in PL!Time /\ cur_time \in PL!Time
      /\ abs_time \in 0 .. PL!Forever /\ cur_time <= now
  BY GenericsAssumption DEF PL!Init, PL!Time, PL!Forever
<1>5. PL!TypeOK
  BY Zenon, <1>1, <1>2, <1>3, <1>4 DEF PL!Init, PL!TypeOK
<1> QED
  BY <1>1, <1>4, <1>5 DEF PL!Init, PlannerInv

(* schedule() keeps the list sorted; a message that is not put at the      *)
(* front leaves the first one where it is.                                 *)
LEMMA ScheduleKeepsOrder ==
    ASSUME PL!TypeOK, NEW m \in PL!TimedMessage,
           messages_' = PL!Emplace(PL!Place(m.time), m)
    PROVE  /\ messages_' \in Seq(PL!TimedMessage)
           /\ PL!Sorted(messages_')
           /\ PL!Place(m.time) # 0 => messages_ # <<>> /\ Head(messages_') = Head(messages_)
<1> DEFINE n == PL!Place(m.time)
           L == Len(messages_)
<1>1. messages_ \in Seq(PL!TimedMessage) /\ PL!Sorted(messages_) /\ L \in Nat
  BY LenProperties DEF PL!TypeOK
<1>2. m.time \in PL!Time
  BY DEF PL!TimedMessage
<1>3. /\ n \in 0 .. L
      /\ n > 0 => messages_[n].time < m.time
      /\ \A i \in n + 1 .. L : messages_[i].time >= m.time
  BY <1>1, <1>2, PlaceFound
<1> HIDE DEF n
<1>4. /\ messages_' \in Seq(PL!TimedMessage)
      /\ Len(messages_') = L + 1
      /\ \A i \in 1 .. L + 1 :
           messages_'[i] = IF i <= n THEN messages_[i]
                           ELSE IF i = n + 1 THEN m ELSE messages_[i - 1]
  <2>1. messages_' = PL!Emplace(n, m)
    BY DEF n
  <2>2. /\ PL!Emplace(n, m) \in Seq(PL!TimedMessage)
        /\ Len(PL!Emplace(n, m)) = Len(messages_) + 1
        /\ \A i \in 1 .. Len(messages_) + 1 :
             PL!Emplace(n, m)[i] = IF i <= n THEN messages_[i]
                                   ELSE IF i = n + 1 THEN m ELSE messages_[i - 1]
    BY <1>1, <1>3, Emplaced, Zenon
  <2> QED
    BY <2>1, <2>2
<1>5. /\ m.time \in Int
      /\ \A i \in 1 .. L : messages_[i].time \in Int
  <2>1. PL!Time \subseteq Int
    BY GenericsAssumption DEF PL!Time
  <2>2. ASSUME NEW i \in 1 .. L PROVE messages_[i].time \in PL!Time
    <3>1. messages_[i] \in PL!TimedMessage
      BY <1>1, ElementOfSeq
    <3> QED
      BY <3>1 DEF PL!TimedMessage
  <2> QED
    BY Zenon, <1>2, <2>1, <2>2
<1>6. \A i, j \in 1 .. L : i < j => messages_[i].time <= messages_[j].time
  BY <1>1 DEF PL!Sorted
<1>7. \A i \in 1 .. L : i <= n => messages_[i].time <= m.time
  <2> SUFFICES ASSUME NEW i \in 1 .. L, i <= n PROVE messages_[i].time <= m.time
    OBVIOUS
  <2>1. n \in 1 .. L /\ messages_[n].time < m.time
    BY <1>1, <1>3
  <2>2. i = n \/ messages_[i].time <= messages_[n].time
    BY <2>1, <1>1, <1>6
  <2> QED
    BY <2>1, <2>2, <1>5
<1>8. ASSUME NEW i \in 1 .. L + 1, NEW j \in 1 .. L + 1, i < j
      PROVE  messages_'[i].time <= messages_'[j].time
  <2>1. i \in Int /\ j \in Int /\ n \in Int
    BY <1>1, <1>3
  <2>2. CASE j <= n
    <3>1. messages_'[i] = messages_[i] /\ messages_'[j] = messages_[j] /\ i \in 1 .. L /\ j \in 1 .. L
      BY <2>1, <2>2, <1>1, <1>3, <1>4, <1>8
    <3> QED
      BY <3>1, <1>6, <1>8
  <2>3. CASE j = n + 1
    <3>1. messages_'[i] = messages_[i] /\ messages_'[j] = m /\ i \in 1 .. L /\ i <= n
      BY SMTT(30), <2>1, <2>3, <1>1, <1>3, <1>4, <1>8
    <3> QED
      BY <3>1, <1>7
  <2>4. CASE j > n + 1
    <3>1. messages_'[j] = messages_[j - 1] /\ j - 1 \in n + 1 .. L /\ j - 1 \in 1 .. L
      BY <2>1, <2>4, <1>1, <1>3, <1>4, <1>8
    <3>2. CASE i <= n
      <4>1. messages_'[i] = messages_[i] /\ i \in 1 .. L /\ i < j - 1
        BY <2>1, <2>4, <3>2, <1>1, <1>3, <1>4
      <4> QED
        BY <4>1, <3>1, <1>6
    <3>3. CASE i = n + 1
      <4>1. messages_'[i] = m
        BY <2>1, <3>3, <1>1, <1>4
      <4> QED
        BY <4>1, <3>1, <1>3, <1>5
    <3>4. CASE i > n + 1
      <4>1. messages_'[i] = messages_[i - 1] /\ i - 1 \in 1 .. L /\ i - 1 < j - 1
        BY <2>1, <3>4, <1>1, <1>3, <1>4, <1>8
      <4> QED
        BY <4>1, <3>1, <1>6
    <3>5. i <= n \/ i = n + 1 \/ i > n + 1
      BY <2>1
    <3> QED
      BY <3>2, <3>3, <3>4, <3>5
  <2>5. j <= n \/ j = n + 1 \/ j > n + 1
    BY <2>1
  <2> QED
    BY <2>2, <2>3, <2>4, <2>5
<1>9. PL!Sorted(messages_')
  BY <1>1, <1>4, <1>8 DEF PL!Sorted
<1>10. ASSUME n # 0 PROVE messages_ # <<>> /\ Head(messages_') = Head(messages_)
  <2>1. L > 0 /\ 1 <= n
    BY <1>1, <1>3, <1>10
  <2>2. messages_'[1] = messages_[1]
    BY <2>1, <1>1, <1>4
  <2>3. messages_ # <<>> /\ messages_' # <<>>
    BY <2>1, <1>1, <1>4
  <2> QED
    BY <2>2, <2>3, <1>1, <1>4
<1> QED
  BY <1>4, <1>9, <1>10 DEF n

(* unschedule() keeps the order of what is left, so the first message is   *)
(* one that was there, and not an earlier one.                             *)
LEMMA UnscheduleKeepsOrder ==
    ASSUME PL!TypeOK, NEW goal, PL!unschedule(goal)
    PROVE  /\ messages_' \in Seq(PL!TimedMessage)
           /\ PL!Sorted(messages_')
           /\ messages_' # <<>> =>
                messages_ # <<>> /\ PL!Due(Head(messages_)) <= PL!Due(Head(messages_'))
<1> DEFINE L == Len(messages_)
           kept == {i \in 1 .. L : messages_[i].goal # goal}
<1>1. messages_ \in Seq(PL!TimedMessage) /\ L \in Nat
  BY LenProperties DEF PL!TypeOK
<1>2. PICK n \in 0 .. L : \E place \in [1 .. n -> kept] :
        /\ \A i, j \in 1 .. n : i < j => place[i] < place[j]
        /\ messages_' = [i \in 1 .. n |-> messages_[place[i]]]
  BY DEF PL!unschedule
<1>3. PICK place \in [1 .. n -> kept] :
        /\ \A i, j \in 1 .. n : i < j => place[i] < place[j]
        /\ messages_' = [i \in 1 .. n |-> messages_[place[i]]]
  BY Zenon, <1>2
<1>4. \A i \in 1 .. n : place[i] \in 1 .. L
  BY <1>3
<1>5. \A i \in 1 .. L : messages_[i] \in PL!TimedMessage
  BY <1>1, ElementOfSeq
<1> HIDE DEF kept
<1>6. messages_' \in [1 .. n -> PL!TimedMessage] /\ n \in Nat
  BY <1>1, <1>3, <1>4, <1>5
<1>7. messages_' \in Seq(PL!TimedMessage) /\ Len(messages_') = n
  BY <1>6, FunctionIsSequence
<1>8. \A i, j \in 1 .. L : i < j => messages_[i].time <= messages_[j].time
  BY DEF PL!TypeOK, PL!Sorted
<1>9. PL!Sorted(messages_')
  BY <1>3, <1>4, <1>7, <1>8 DEF PL!Sorted
<1>10. ASSUME messages_' # <<>>
      PROVE  messages_ # <<>> /\ PL!Due(Head(messages_)) <= PL!Due(Head(messages_'))
  <2>1. 1 \in 1 .. n
    BY <1>6, <1>7, <1>10
  <2>2. place[1] \in 1 .. L /\ Head(messages_') = messages_[place[1]]
    BY <2>1, <1>3, <1>4, <1>7, <1>10
  <2>3. 1 \in 1 .. L /\ messages_ # <<>> /\ Head(messages_) = messages_[1]
    BY <2>2, <1>1
  <2>4. messages_[1] \in PL!TimedMessage /\ messages_[place[1]] \in PL!TimedMessage
    BY <2>2, <2>3, <1>5
  <2>5. messages_[1].time <= messages_[place[1]].time
    <3>1. messages_[1].time \in Int
      BY <2>4, GenericsAssumption DEF PL!TimedMessage, PL!Time
    <3>2. place[1] = 1 \/ 1 < place[1]
      BY <2>2
    <3> QED
      BY <3>1, <3>2, <2>2, <2>3, <1>8
  <2>6. delivery_time_shift_ \in PL!Time
    BY DEF PL!TypeOK
  <2> QED
    BY <2>2, <2>3, <2>4, <2>5, <2>6, DueTime
<1> QED
  BY <1>7, <1>9, <1>10

(* One step of the working thread, of a caller, of the owner or the clock. *)
LEMMA PlannerStep ==
    ASSUME PlannerInv, PL!Next
    PROVE  PlannerInv'
<1> USE DEF PL!delivery, PL!local
<1>1. ASSUME PL!Tick PROVE PlannerInv'
  <2>1. now' \in PL!Time /\ cur_time' <= now'
    BY <1>1, GenericsAssumption DEF PlannerInv, PL!TypeOK, PL!Tick, PL!Time
  <2>2. PL!TypeOK'
    BY <1>1, <2>1 DEF PlannerInv, PL!TypeOK, PL!Tick
  <2> QED
    BY <1>1, <2>1, <2>2 DEF PlannerInv, PL!Tick, PL!Due
<1>2. ASSUME NEW s \in Schedulers, PL!schedule(s) PROVE PlannerInv'
  <2>1. PICK m \in PL!TimedMessage :
          /\ messages_' = PL!Emplace(PL!Place(m.time), m)
          /\ have_new_events_' = (PL!Place(m.time) = 0 \/ have_new_events_)
          /\ scheduler' = [scheduler EXCEPT
                             ![s] = IF PL!Place(m.time) = 0 THEN "signal" ELSE "idle"]
    BY Zenon, <1>2 DEF PL!schedule
  <2>2. /\ scheduler[s] = "idle"
        /\ UNCHANGED <<now, PL!delivery, pl_terminating, pl_pc, PL!local>>
    BY <1>2 DEF PL!schedule
  <2>3. /\ messages_' \in Seq(PL!TimedMessage) /\ PL!Sorted(messages_')
        /\ PL!Place(m.time) # 0 => messages_ # <<>> /\ Head(messages_') = Head(messages_)
    BY <2>1, ScheduleKeepsOrder DEF PlannerInv
  <2> DEFINE signal == PL!Place(m.time) = 0
  <2>4. have_new_events_' \in BOOLEAN /\ (have_new_events_' <=> signal \/ have_new_events_)
    BY Zenon, <2>1 DEF PlannerInv, PL!TypeOK
  <2>5. /\ scheduler' \in [Schedulers -> {"idle", "signal"}]
        /\ signal => scheduler'[s] = "signal"
        /\ ~signal => \A r \in Schedulers : scheduler[r] = "signal" => scheduler'[r] = "signal"
    BY <2>1, <2>2 DEF PlannerInv, PL!TypeOK
  <2> HIDE DEF signal
  <2>6. PL!TypeOK'
    BY <2>2, <2>3, <2>4, <2>5 DEF PlannerInv, PL!TypeOK
  <2>7. \A i \in 1 .. Len(pending) : PL!Due(pending[i])' <= cur_time'
    BY <2>2 DEF PlannerInv, PL!Due
  <2>8. ASSUME pl_pc' \in {"before_wait", "waiting"}, ~have_new_events_', messages_' # <<>>
        PROVE  abs_time' <= PL!Due(Head(messages_))'
    <3>1. ~signal /\ ~have_new_events_
      BY <2>4, <2>8
    <3>2. messages_ # <<>> /\ Head(messages_') = Head(messages_)
      BY <2>3, <3>1 DEF signal
    <3>3. abs_time <= PL!Due(Head(messages_))
      BY <2>2, <2>8, <3>1, <3>2 DEF PlannerInv
    <3> QED
      BY <2>2, <3>2, <3>3 DEF PL!Due
  <2>9. ASSUME pl_pc' = "waiting", have_new_events_'
        PROVE  \E r \in Schedulers : scheduler'[r] = "signal"
    <3>1. CASE signal
      BY <2>5, <3>1
    <3>2. CASE ~signal
      BY SMTT(30), <2>2, <2>4, <2>5, <2>9, <3>2 DEF PlannerInv
    <3> QED
      BY <3>1, <3>2
  <2> QED
    BY <2>2, <2>6, <2>7, <2>8, <2>9 DEF PlannerInv
<1>3. ASSUME NEW s \in Schedulers, PL!SignalNewEvent(s) PROVE PlannerInv'
  <2>1. pl_pc' # "waiting" /\ (pl_pc' = "before_wait" => pl_pc = "before_wait")
    BY <1>3 DEF PL!SignalNewEvent
  <2>2. PL!TypeOK'
    BY <1>3 DEF PlannerInv, PL!TypeOK, PL!SignalNewEvent
  <2> QED
    BY <1>3, <2>1, <2>2 DEF PlannerInv, PL!SignalNewEvent, PL!Due
<1>4. ASSUME NEW goal \in Goals, PL!unschedule(goal) PROVE PlannerInv'
  <2>1. /\ messages_' \in Seq(PL!TimedMessage) /\ PL!Sorted(messages_')
        /\ messages_' # <<>> =>
             messages_ # <<>> /\ PL!Due(Head(messages_)) <= PL!Due(Head(messages_'))
    BY <1>4, UnscheduleKeepsOrder DEF PlannerInv
  <2>2. UNCHANGED <<now, have_new_events_, PL!delivery, pl_terminating, pl_pc, PL!local, scheduler>>
    BY <1>4 DEF PL!unschedule
  <2>3. PL!TypeOK'
    BY <2>1, <2>2 DEF PlannerInv, PL!TypeOK
  <2>4. ASSUME pl_pc' \in {"before_wait", "waiting"}, ~have_new_events_', messages_' # <<>>
        PROVE  abs_time' <= PL!Due(Head(messages_))'
    <3>1. abs_time <= PL!Due(Head(messages_)) /\ PL!Due(Head(messages_)) <= PL!Due(Head(messages_'))
      BY <2>1, <2>2, <2>4 DEF PlannerInv
    <3>2. /\ abs_time \in Int /\ PL!Due(Head(messages_)) \in Int
          /\ PL!Due(Head(messages_')) \in Int
      <4>1. ASSUME NEW m \in PL!TimedMessage PROVE PL!Due(m) \in Int
        <5>1. m.time <= m.time
          BY GenericsAssumption DEF PL!TimedMessage, PL!Time
        <5> QED
          BY <5>1, DueTime, GenericsAssumption DEF PlannerInv, PL!TypeOK, PL!Time
      <4>2. Head(messages_) \in PL!TimedMessage /\ Head(messages_') \in PL!TimedMessage
        BY <2>1, <2>4, HeadTailProperties DEF PlannerInv, PL!TypeOK
      <4>3. abs_time \in Int
        BY GenericsAssumption DEF PlannerInv, PL!TypeOK, PL!Forever
      <4> QED
        BY <4>1, <4>2, <4>3
    <3>3. PL!Due(Head(messages_))' = PL!Due(Head(messages_'))
      BY <2>2 DEF PL!Due
    <3> QED
      BY <2>2, <3>1, <3>2, <3>3
  <2> QED
    BY <2>2, <2>3, <2>4 DEF PlannerInv, PL!Due
<1>5. ASSUME PL!clear PROVE PlannerInv'
  <2>1. messages_' \in Seq(PL!TimedMessage) /\ PL!Sorted(messages_')
    BY <1>5 DEF PL!clear, PL!Sorted
  <2>2. PL!TypeOK'
    BY <1>5, <2>1 DEF PlannerInv, PL!TypeOK, PL!clear
  <2> QED
    BY <1>5, <2>2 DEF PlannerInv, PL!clear, PL!Due
<1>6. ASSUME PL!ReadClock PROVE PlannerInv'
  <2>1. pending = <<>> /\ Len(pending) = 0
    BY <1>6 DEF PlannerInv, PL!TypeOK, PL!ReadClock
  <2>2. PL!TypeOK'
    BY <1>6 DEF PlannerInv, PL!TypeOK, PL!ReadClock
  <2>3. cur_time' <= now'
    BY <1>6, GenericsAssumption DEF PlannerInv, PL!TypeOK, PL!ReadClock, PL!Time
  <2> QED
    BY <1>6, <2>1, <2>2, <2>3 DEF PlannerInv, PL!ReadClock
<1>7. ASSUME PL!Pump PROVE PlannerInv'
  <2>1. UNCHANGED <<now, have_new_events_, PL!delivery, pl_terminating, cur_time, scheduler>>
    BY <1>7 DEF PL!Pump
  <2>2. CASE pl_terminating
    <3>1. pl_pc = "pump" /\ pl_pc' = "exited" /\ UNCHANGED <<messages_, abs_time, pending>>
      BY <1>7, <2>2 DEF PL!Pump
    <3>2. PL!TypeOK'
      BY <2>1, <3>1 DEF PlannerInv, PL!TypeOK
    <3> QED
      BY <2>1, <3>1, <3>2 DEF PlannerInv, PL!Due
  <2>3. CASE ~pl_terminating
    <3> DEFINE n == PL!Overdue
               L == Len(messages_)
               M == PL!TimedMessage
    <3>1. /\ pl_pc = "pump"
          /\ pending' = SubSeq(messages_, 1, n)
          /\ messages_' = SubSeq(messages_, n + 1, L)
          /\ abs_time' = IF n < L THEN PL!Due(messages_[n + 1]) ELSE PL!Forever
          /\ pl_pc' = IF n = 0 THEN "before_wait" ELSE "deliver"
      BY <1>7, <2>3 DEF PL!Pump
    <3>2. /\ messages_ \in Seq(M) /\ delivery_time_shift_ \in PL!Time /\ cur_time \in PL!Time
          /\ L \in Nat /\ \A i \in 1 .. L : messages_[i] \in M
      BY LenProperties, ElementOfSeq DEF PlannerInv, PL!TypeOK
    <3>3. /\ n \in 0 .. L
          /\ \A i \in 1 .. n : PL!Due(messages_[i]) <= cur_time
      BY <3>2, OverdueFound
    <3> HIDE DEF n, M
    <3>4. /\ pending' \in Seq(M) /\ Len(pending') = n
          /\ \A i \in 1 .. n : pending'[i] = messages_[i]
      <4>1. \A i \in 1 .. n : messages_[i] \in M
        BY <3>2, <3>3
      <4>2. /\ pending' \in Seq(M)
            /\ Len(pending') = IF 1 <= n THEN n - 1 + 1 ELSE 0
            /\ \A i \in 1 .. n - 1 + 1 : pending'[i] = messages_[1 + i - 1]
        BY <3>1, <3>2, <3>3, <4>1, SubSeqProperties
      <4> QED
        BY <3>2, <3>3, <4>2
    <3>5. /\ messages_' \in Seq(M) /\ Len(messages_') = L - n
          /\ \A i \in 1 .. L - n : messages_'[i] = messages_[n + i]
      <4>1. \A i \in n + 1 .. L : messages_[i] \in M
        BY <3>2, <3>3
      <4>2. /\ messages_' \in Seq(M)
            /\ Len(messages_') = IF n + 1 <= L THEN L - (n + 1) + 1 ELSE 0
            /\ \A i \in 1 .. L - (n + 1) + 1 : messages_'[i] = messages_[(n + 1) + i - 1]
        BY SMTT(30), <3>1, <3>2, <3>3, <4>1, SubSeqProperties
      <4> QED
        BY <3>2, <3>3, <4>2
    <3>6. PL!Sorted(messages_')
      <4>1. \A i, j \in 1 .. L : i < j => messages_[i].time <= messages_[j].time
        BY DEF PlannerInv, PL!TypeOK, PL!Sorted
      <4>2. ASSUME NEW i \in 1 .. L - n, NEW j \in 1 .. L - n, i < j
            PROVE  messages_'[i].time <= messages_'[j].time
        <5>1. n + i \in 1 .. L /\ n + j \in 1 .. L /\ n + i < n + j
          BY <3>2, <3>3, <4>2
        <5> QED
          BY <3>5, <4>1, <5>1
      <4> QED
        BY <3>5, <4>2 DEF PL!Sorted
    <3>7. abs_time' \in 0 .. PL!Forever
      <4>1. CASE n < L
        <5>1. n + 1 \in 1 .. L
          BY <3>2, <3>3, <4>1
        <5>2. messages_[n + 1] \in PL!TimedMessage
          BY <3>2, <5>1 DEF M
        <5>3. messages_[n + 1].time <= messages_[n + 1].time
          BY <5>2, GenericsAssumption DEF PL!TimedMessage, PL!Time
        <5>4. PL!Due(messages_[n + 1]) \in PL!Time
          BY <3>2, <5>2, <5>3, DueTime
        <5> QED
          BY <3>1, <4>1, <5>4, GenericsAssumption DEF PL!Time, PL!Forever
      <4>2. CASE ~(n < L)
        BY <3>1, <4>2, GenericsAssumption DEF PL!Forever
      <4> QED
        BY <4>1, <4>2
    <3>8. pl_pc' # "deliver" <=> pending' = <<>>
      BY <3>1, <3>3, <3>4
    <3>9. pl_pc' \in {"before_wait", "deliver"}
      BY <3>1
    <3>10. PL!TypeOK'
      BY SMTT(30), <2>1, <3>4, <3>5, <3>6, <3>7, <3>8, <3>9 DEF PlannerInv, PL!TypeOK, M
    <3>11. ASSUME NEW i \in 1 .. Len(pending') PROVE PL!Due(pending[i])' <= cur_time'
      <4>1. PL!Due(messages_[i]) <= cur_time /\ pending'[i] = messages_[i]
        BY <3>3, <3>4
      <4> QED
        BY <2>1, <4>1 DEF PL!Due
    <3>12. ASSUME pl_pc' = "before_wait", messages_' # <<>>
           PROVE  abs_time' <= PL!Due(Head(messages_))'
      <4>1. n = 0
        BY <3>1, <3>12
      <4>2. 0 < L /\ Head(messages_') = messages_[1]
        BY <3>2, <3>5, <3>12, <4>1
      <4>3. abs_time' = PL!Due(messages_[1])
        BY <3>1, <4>1, <4>2
      <4>4. PL!Due(Head(messages_))' = PL!Due(messages_[1])
        BY <2>1, <4>2 DEF PL!Due
      <4>5. abs_time' \in Int
        BY <3>7, GenericsAssumption DEF PL!Forever
      <4> QED
        BY <4>3, <4>4, <4>5
    <3> QED
      BY SMTT(30), <2>1, <3>9, <3>10, <3>11, <3>12 DEF PlannerInv
  <2> QED
    BY <2>2, <2>3
<1>8. ASSUME NEW new_event \in BOOLEAN, PL!Awake(new_event),
             pl_pc \in {"before_wait", "woken", "timed_out"}
      PROVE  PlannerInv'
  <2>1. pl_pc' \in {"exited", "adjust", "top"} /\ have_new_events_' \in BOOLEAN
    BY Zenon, <1>8 DEF PlannerInv, PL!TypeOK, PL!Awake
  <2>2. UNCHANGED <<now, messages_, PL!delivery, pl_terminating, PL!local, scheduler>>
    BY <1>8 DEF PL!Awake
  <2>3. PL!TypeOK'
    BY <1>8, <2>1, <2>2 DEF PlannerInv, PL!TypeOK
  <2> QED
    BY <2>1, <2>2, <2>3 DEF PlannerInv, PL!Due
<1>9. ASSUME PL!Sleep PROVE PlannerInv'
  <2>1. CASE have_new_events_
    BY Zenon, <1>8, <1>9, <2>1 DEF PL!Sleep
  <2>2. CASE ~have_new_events_
    <3>1. /\ pl_pc = "before_wait" /\ pl_pc' = "waiting"
          /\ UNCHANGED <<now, messages_, have_new_events_, PL!delivery, pl_terminating, PL!local,
                         scheduler>>
      BY <1>9, <2>2 DEF PL!Sleep
    <3>2. PL!TypeOK'
      BY <3>1 DEF PlannerInv, PL!TypeOK
    <3> QED
      BY <2>2, <3>1, <3>2 DEF PlannerInv, PL!Due
  <2> QED
    BY <2>1, <2>2
<1>10. ASSUME PL!SpuriousWakeup PROVE PlannerInv'
  <2>1. PL!TypeOK'
    BY <1>10 DEF PlannerInv, PL!TypeOK, PL!SpuriousWakeup
  <2> QED
    BY <1>10, <2>1 DEF PlannerInv, PL!SpuriousWakeup, PL!Due
<1>11. ASSUME PL!Timeout PROVE PlannerInv'
  <2>1. PL!TypeOK'
    BY <1>11 DEF PlannerInv, PL!TypeOK, PL!Timeout
  <2> QED
    BY <1>11, <2>1 DEF PlannerInv, PL!Timeout, PL!Due
<1>12. ASSUME PL!Wakes PROVE PlannerInv'
  <2>1. have_new_events_ \in BOOLEAN
    BY DEF PlannerInv, PL!TypeOK
  <2> QED
    BY Zenon, <1>8, <1>12, <2>1 DEF PL!Wakes
<1>13. ASSUME PL!Adjust PROVE PlannerInv'
  <2>1. /\ pl_pc = "adjust" /\ pl_pc' = "top"
        /\ UNCHANGED <<delivery_time_adjustment_, now, messages_, have_new_events_, pl_terminating,
                       PL!local, scheduler>>
    BY <1>13 DEF PL!Adjust
  <2>2. delivery_time_shift_' \in PL!Time
    BY <1>13, GenericsAssumption DEF PlannerInv, PL!TypeOK, PL!Adjust, PL!Time, PL!Forever
  <2>3. pending = <<>> /\ Len(pending') = 0
    BY <2>1 DEF PlannerInv, PL!TypeOK
  <2>4. PL!TypeOK'
    BY <2>1, <2>2 DEF PlannerInv, PL!TypeOK
  <2> QED
    BY <2>1, <2>3, <2>4 DEF PlannerInv
<1>14. ASSUME PL!Deliver PROVE PlannerInv'
  <2>1. /\ pl_pc = "deliver" /\ pending' = Tail(pending)
        /\ pl_pc' = IF Len(pending) = 1 THEN "top" ELSE "deliver"
        /\ UNCHANGED <<now, messages_, have_new_events_, PL!delivery, pl_terminating, cur_time,
                       abs_time, scheduler>>
    BY <1>14 DEF PL!Deliver
  <2>2. pending \in Seq(PL!TimedMessage) /\ pending # <<>> /\ Len(pending) \in Nat
    BY <2>1, LenProperties DEF PlannerInv, PL!TypeOK
  <2>3. /\ pending' \in Seq(PL!TimedMessage) /\ Len(pending') = Len(pending) - 1
        /\ \A i \in 1 .. Len(pending') : pending'[i] = pending[i + 1]
    BY <2>1, <2>2, HeadTailProperties
  <2>4. pl_pc' # "deliver" <=> pending' = <<>>
    BY <2>1, <2>2, <2>3
  <2>5. PL!TypeOK'
    BY SMTT(30), <2>1, <2>3, <2>4 DEF PlannerInv, PL!TypeOK
  <2>6. ASSUME NEW i \in 1 .. Len(pending') PROVE PL!Due(pending[i])' <= cur_time'
    <3>1. i + 1 \in 1 .. Len(pending)
      BY <2>2, <2>3
    <3>2. PL!Due(pending[i + 1]) <= cur_time
      BY <3>1 DEF PlannerInv
    <3> QED
      BY <2>1, <2>3, <3>2 DEF PL!Due
  <2> QED
    BY <2>1, <2>5, <2>6 DEF PlannerInv
<1>15. ASSUME PL!activate_object PROVE PlannerInv'
  <2>1. PL!TypeOK'
    BY <1>15 DEF PlannerInv, PL!TypeOK, PL!activate_object
  <2> QED
    BY <1>15, <2>1 DEF PlannerInv, PL!activate_object, PL!Due
<1>16. ASSUME PL!terminate PROVE PlannerInv'
  <2>1. PL!TypeOK'
    BY <1>16 DEF PlannerInv, PL!TypeOK, PL!terminate
  <2> QED
    BY <1>16, <2>1 DEF PlannerInv, PL!terminate, PL!Due
<1>17. ASSUME PL!wait_object PROVE PlannerInv'
  <2>1. PL!TypeOK'
    BY ZenonT(40), <1>17 DEF PlannerInv, PL!TypeOK, PL!wait_object
  <2> QED
    BY <1>17, <2>1 DEF PlannerInv, PL!wait_object, PL!Due
<1> QED
  BY SMTT(30), <1>1, <1>2, <1>3, <1>4, <1>5, <1>6, <1>7, <1>9, <1>10, <1>11, <1>12, <1>13, <1>14, <1>15,
     <1>16, <1>17
  DEF PL!Next

-----------------------------------------------------------------------------
(* A step of another component changes nothing of the planner's. *)
LEMMA PlannerInductive ==
    ASSUME PlannerInv, [Next]_all
    PROVE  PlannerInv'
<1>1. CASE PL!Next
  BY <1>1, PlannerStep
<1>2. CASE UNCHANGED plVars
  <2>1. PL!TypeOK'
    BY <1>2 DEF plVars, PlannerInv, PL!TypeOK
  <2> QED
    BY <1>2, <2>1 DEF plVars, PlannerInv, PL!Due
<1> QED
  BY <1>1, <1>2 DEF Next, all

(* A goal that the planner's thread has taken to deliver is due: the clock *)
(* is read before the schedule is, and the shift does not change between.  *)
THEOREM GoalsNeverEarly == Spec => []NeverEarly
<1>1. Init => PlannerInv
  BY PlannerInit DEF Init
<1>2. PlannerInv /\ [Next]_all => PlannerInv'
  BY PlannerInductive
<1>3. PlannerInv => NeverEarly
  <2> SUFFICES ASSUME PlannerInv, NEW i \in 1 .. Len(pending)
               PROVE  PL!Due(pending[i]) <= now
    BY DEF NeverEarly, PL!NeverEarly
  <2>1. cur_time \in Int /\ now \in Int /\ cur_time <= now /\ PL!Due(pending[i]) <= cur_time
    BY GenericsAssumption DEF PlannerInv, PL!TypeOK, PL!Time
  <2>2. pending[i] \in PL!TimedMessage
    BY ElementOfSeq DEF PlannerInv, PL!TypeOK
  <2>3. pending[i].time <= pending[i].time
    BY <2>2, GenericsAssumption DEF PL!TimedMessage, PL!Time
  <2>4. PL!Due(pending[i]) \in Int
    BY <2>2, <2>3, DueTime, GenericsAssumption DEF PlannerInv, PL!TypeOK, PL!Time
  <2> QED
    BY <2>1, <2>4
<1> QED
  BY <1>1, <1>2, <1>3, PTL DEF Spec
=============================================================================
