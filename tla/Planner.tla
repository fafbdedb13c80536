------------------------------- MODULE Planner -------------------------------
(***************************************************************************)
(* Generics::Planner (src/Generics/Scheduler.cpp): goals are scheduled for *)
(* a time by any thread; one working thread sleeps until the first of them *)
(* is due and delivers it.                                                 *)
(*                                                                         *)
(* mutex() is the work_mutex_ of ActiveObjectCommonImpl: terminate() runs  *)
(* under it.  The working thread reads the clock before it locks, and lets *)
(* go of the lock between building its list and waiting; schedule()        *)
(* signals after it has unlocked.                                          *)
(***************************************************************************)
EXTENDS Integers, Sequences

CONSTANTS
    Schedulers,                 \* threads that call schedule()
    Goals,
    MaxTime,                    \* bound of the clock
    MaxMessages                 \* bound of the schedule

Time == 0 .. MaxTime
Forever == MaxTime + 1      \* pabs_time == 0: no timeout
TimedMessage == [time : Time, goal : Goals]

VARIABLES
    delivery_time_adjustment_,  \* set by the constructor
    now,                        \* the clock
    messages_, have_new_events_, delivery_time_shift_,
    terminating_,
    pc,                         \* where the working thread is
    cur_time, abs_time, pending, \* its local variables
    scheduler                   \* scheduler[s]: s is about to signal

vars == <<delivery_time_adjustment_, now, messages_, have_new_events_, delivery_time_shift_, terminating_,
          pc, cur_time, abs_time, pending, scheduler>>

delivery == <<delivery_time_adjustment_, delivery_time_shift_>>
local == <<cur_time, abs_time, pending>>

Sorted(s) == \A i, j \in 1 .. Len(s) : i < j => s[i].time <= s[j].time

(* Types; messages_ is sorted by time, and the list of the working thread  *)
(* is empty except while it delivers.                                      *)
TypeOK ==
    /\ delivery_time_adjustment_ \in BOOLEAN
    /\ now \in Time
    /\ messages_ \in Seq(TimedMessage)
    /\ Sorted(messages_)
    /\ have_new_events_ \in BOOLEAN
    /\ delivery_time_shift_ \in Time
    /\ terminating_ \in BOOLEAN
    /\ pc \in {"none", "top", "pump", "before_wait", "waiting", "woken", "timed_out",
               "adjust", "deliver", "exited"}
    /\ cur_time \in Time
    /\ abs_time \in 0 .. Forever
    /\ pending \in Seq(TimedMessage)
    /\ pc # "deliver" <=> pending = <<>>
    /\ scheduler \in [Schedulers -> {"idle", "signal"}]

Init ==
    /\ delivery_time_adjustment_ \in BOOLEAN
    /\ now = 0
    /\ messages_ = <<>>
    /\ have_new_events_ = FALSE
    /\ delivery_time_shift_ = 0
    /\ terminating_ = FALSE
    /\ pc = "none"
    /\ cur_time = 0
    /\ abs_time = Forever
    /\ pending = <<>>
    /\ scheduler = [s \in Schedulers |-> "idle"]

Tick ==
    /\ now < MaxTime
    /\ now' = now + 1
    /\ UNCHANGED <<messages_, have_new_events_, delivery, terminating_,
                   pc, local, scheduler>>

-----------------------------------------------------------------------------
(* schedule(), unschedule(), clear() *)

(* The place of a message for time tm: behind the last one that is earlier. *)
Place(tm) ==
    CHOOSE n \in 0 .. Len(messages_) :
        /\ n > 0 => messages_[n].time < tm
        /\ \A i \in n + 1 .. Len(messages_) : messages_[i].time >= tm

Emplace(n, m) == SubSeq(messages_, 1, n) \o <<m>> \o SubSeq(messages_, n + 1, Len(messages_))

(* A schedule() that signals for an empty schedule only. *)
ScheduleEmpty(s) ==
    /\ scheduler[s] = "idle"
    /\ Len(messages_) < MaxMessages
    /\ \E m \in TimedMessage :
         LET signal == messages_ = <<>> IN
         /\ messages_' = Emplace(Place(m.time), m)
         /\ have_new_events_' = (signal \/ have_new_events_)
         /\ scheduler' = [scheduler EXCEPT ![s] = IF signal THEN "signal" ELSE "idle"]
    /\ UNCHANGED <<now, delivery, terminating_, pc, local>>

schedule(s) ==
    /\ scheduler[s] = "idle"
    /\ Len(messages_) < MaxMessages
    /\ \E m \in TimedMessage :
         LET signal == Place(m.time) = 0 IN
         /\ messages_' = Emplace(Place(m.time), m)
         /\ have_new_events_' = (signal \/ have_new_events_)
         /\ scheduler' = [scheduler EXCEPT ![s] = IF signal THEN "signal" ELSE "idle"]
    /\ UNCHANGED <<now, delivery, terminating_, pc, local>>

(* new_event_in_schedule_.signal() after the unlock. *)
SignalNewEvent(s) ==
    /\ scheduler[s] = "signal"
    /\ scheduler' = [scheduler EXCEPT ![s] = "idle"]
    /\ pc' = IF pc = "waiting" THEN "woken" ELSE pc
    /\ UNCHANGED <<now, messages_, have_new_events_, delivery, terminating_, local>>

(* The messages of other goals are left, in their order. *)
unschedule(goal) ==
    /\ LET kept == {i \in 1 .. Len(messages_) : messages_[i].goal # goal} IN
       \E n \in 0 .. Len(messages_) : \E place \in [1 .. n -> kept] :
         /\ \A i, j \in 1 .. n : i < j => place[i] < place[j]
         /\ \A k \in kept : \E i \in 1 .. n : place[i] = k
         /\ messages_' = [i \in 1 .. n |-> messages_[place[i]]]
    /\ UNCHANGED <<now, have_new_events_, delivery, terminating_, pc, local, scheduler>>

clear ==
    /\ messages_' = <<>>
    /\ UNCHANGED <<now, have_new_events_, delivery, terminating_, pc, local, scheduler>>

-----------------------------------------------------------------------------
(* work() *)

ReadClock ==
    /\ pc = "top"
    /\ cur_time' = now
    /\ pc' = "pump"
    /\ UNCHANGED <<now, messages_, have_new_events_, delivery, terminating_,
                   abs_time, pending, scheduler>>

(* The time at which a message is delivered. *)
Due(m) ==
    IF ~delivery_time_adjustment_ THEN m.time
    ELSE IF m.time > delivery_time_shift_ THEN m.time - delivery_time_shift_ ELSE 0

(* A comparison that takes the messages of the next tick, too. *)
OverdueEarly ==
    CHOOSE n \in 0 .. Len(messages_) :
        /\ \A i \in 1 .. n : Due(messages_[i]) <= cur_time + 1
        /\ n < Len(messages_) => Due(messages_[n + 1]) > cur_time + 1

(* How many messages of the front are due. *)
Overdue ==
    CHOOSE n \in 0 .. Len(messages_) :
        /\ \A i \in 1 .. n : Due(messages_[i]) <= cur_time
        /\ n < Len(messages_) => Due(messages_[n + 1]) > cur_time

(* svc 1: make list of pending tasks *)
Pump ==
    /\ pc = "pump"
    /\ IF terminating_
         THEN pc' = "exited" /\ UNCHANGED <<messages_, abs_time, pending>>
         ELSE LET n == Overdue IN
              /\ pending' = SubSeq(messages_, 1, n)
              /\ messages_' = SubSeq(messages_, n + 1, Len(messages_))
              /\ abs_time' = IF n < Len(messages_) THEN Due(messages_[n + 1]) ELSE Forever
              /\ pc' = IF n = 0 THEN "before_wait" ELSE "deliver"
    /\ UNCHANGED <<now, have_new_events_, delivery, terminating_, cur_time, scheduler>>

(* The wait is over: with a new event, or without one. *)
Awake(new_event) ==
    /\ pc' = IF terminating_ THEN "exited" ELSE IF new_event THEN "adjust" ELSE "top"
    /\ have_new_events_' = IF new_event /\ ~terminating_ THEN FALSE ELSE have_new_events_
    /\ UNCHANGED <<now, messages_, delivery, terminating_, local, scheduler>>

(* A wait that does not look at have_new_events_ first. *)
SleepAtOnce ==
    /\ pc = "before_wait"
    /\ pc' = "waiting"
    /\ UNCHANGED <<now, messages_, have_new_events_, delivery, terminating_,
                   local, scheduler>>

(* svc 2: the lock is taken again; while (!have_new_events_) timed_wait() *)
Sleep ==
    /\ pc = "before_wait"
    /\ IF have_new_events_
         THEN Awake(TRUE)
         ELSE /\ pc' = "waiting"
              /\ UNCHANGED <<now, messages_, have_new_events_, delivery,
                             terminating_, local, scheduler>>

SpuriousWakeup ==
    /\ pc = "waiting"
    /\ pc' = "woken"
    /\ UNCHANGED <<now, messages_, have_new_events_, delivery, terminating_,
                   local, scheduler>>

Timeout ==
    /\ pc = "waiting"
    /\ now >= abs_time
    /\ pc' = "timed_out"
    /\ UNCHANGED <<now, messages_, have_new_events_, delivery, terminating_,
                   local, scheduler>>

(* timed_wait() returned true or false; the lock is held. *)
Wakes ==
    \/ pc = "woken" /\ Awake(have_new_events_)
    \/ pc = "timed_out" /\ Awake(FALSE)

(* Half of the delay of the wake-up becomes the shift of the next ones. *)
Adjust ==
    /\ pc = "adjust"
    /\ pc' = "top"
    /\ delivery_time_shift_' =
         IF delivery_time_adjustment_ /\ abs_time # Forever /\ now > abs_time
           THEN (now - abs_time) \div 2
           ELSE delivery_time_shift_
    /\ UNCHANGED <<delivery_time_adjustment_, now, messages_, have_new_events_, terminating_, local, scheduler>>

(* svc 3: deliver pending tasks *)
Deliver ==
    /\ pc = "deliver"
    /\ pending' = Tail(pending)
    /\ pc' = IF Len(pending) = 1 THEN "top" ELSE "deliver"
    /\ UNCHANGED <<now, messages_, have_new_events_, delivery, terminating_,
                   cur_time, abs_time, scheduler>>

-----------------------------------------------------------------------------
(* The life of the planner: activate_object(), deactivate_object() and     *)
(* wait_object() of ActiveObjectCommonImpl.                                *)
activate_object ==
    /\ pc = "none"
    /\ pc' = "top"
    /\ UNCHANGED <<now, messages_, have_new_events_, delivery, terminating_,
                   local, scheduler>>

(* A terminate() that does not set the predicate. *)
TerminateSignalOnly ==
    /\ pc \notin {"none", "exited"} /\ ~terminating_
    /\ terminating_' = TRUE
    /\ pc' = IF pc = "waiting" THEN "woken" ELSE pc
    /\ UNCHANGED <<now, messages_, have_new_events_, delivery, local, scheduler>>

(* deactivate_object() and terminate(), under the mutex. *)
terminate ==
    /\ pc \notin {"none", "exited"} /\ ~terminating_
    /\ terminating_' = TRUE
    /\ have_new_events_' = TRUE
    /\ pc' = IF pc = "waiting" THEN "woken" ELSE pc
    /\ UNCHANGED <<now, messages_, delivery, local, scheduler>>

wait_object ==
    /\ pc = "exited"
    /\ pc' = "none"
    /\ terminating_' = FALSE
    /\ UNCHANGED <<now, messages_, have_new_events_, delivery, local, scheduler>>

-----------------------------------------------------------------------------
work == ReadClock \/ Pump \/ Sleep \/ Timeout \/ Wakes \/ Adjust \/ Deliver

Next ==
    \/ \E s \in Schedulers : schedule(s) \/ SignalNewEvent(s)
    \/ \E goal \in Goals : unschedule(goal)
    \/ clear \/ Tick
    \/ ReadClock \/ Pump \/ Sleep \/ SpuriousWakeup \/ Timeout \/ Wakes \/ Adjust \/ Deliver
    \/ activate_object \/ terminate \/ wait_object

Spec == Init /\ [][Next]_vars

-----------------------------------------------------------------------------
(* No goal oversleeps: while the working thread waits, either its timeout  *)
(* is not later than the first message, or the predicate is set and a      *)
(* thread is about to signal.  The variables have their types.             *)
NoOversleeping ==
    /\ TypeOK
    /\ pc = "waiting" =>
         \/ messages_ = <<>>
         \/ abs_time <= Due(Head(messages_))
         \/ have_new_events_ /\ \E s \in Schedulers : scheduler[s] = "signal"

(* No goal is delivered before its time, less the shift that the working   *)
(* thread applies (none without the adjustment).                           *)
NeverEarly == \A i \in 1 .. Len(pending) : Due(pending[i]) <= now

(* Is a planner that has to end still at work? *)
Terminating == terminating_ /\ pc # "exited"

Scheduled(m) == \E i \in 1 .. Len(messages_) : messages_[i] = m

(* Is a message of an active planner in the schedule? *)
Undelivered(m) == Scheduled(m) /\ pc # "none" /\ ~terminating_
=============================================================================
