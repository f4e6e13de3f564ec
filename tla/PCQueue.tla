------------------------------ MODULE PCQueue ------------------------------
(***************************************************************************)
(* The blocking producer/consumer queue of Project_work/include/queue.hpp, *)
(* pc_queue::Queue<T, PriorityType>.                                       *)
(*                                                                         *)
(* Every member function but size() and empty() runs under mutex_, which   *)
(* it gives up only inside a wait on notEmpty_ or notFull_.  So a call is  *)
(* one action up to its wait, if it waits, and one action from the return  *)
(* of that wait to its end.  size() and empty() take no lock: a read is    *)
(* two actions, and one that overlaps a change of the container is a data  *)
(* race, whose value is any of TornSizes.                                  *)
(*                                                                         *)
(* A sequence in insertion order stands for queue_ and for priorityQueue_; *)
(* only one of the two is ever used, as usePriority_ says.                 *)
(***************************************************************************)
EXTENDS Integers, Sequences, FiniteSets

CONSTANTS
    Producers,      \* threads that call push
    Consumers,      \* threads that call pop
    Observers,      \* those of them that call size or empty
    Data,           \* T
    Priorities,     \* PriorityType
    Timeouts,       \* "nowait" is 0ms, "timed" is > 0ms, "forever" is < 0ms
    Modes,          \* the values of QueueMode considered
    Disciplines,    \* the values of usePriority_ considered
    Capacities,     \* the values of maxSize_ considered, 0 is unlimited
    UnlimitedCap,   \* bound: an unlimited queue is pushed to below this size
    TornSizes,      \* what an unlocked read that races a change may return
    NoItem, NoOp    \* std::nullopt; no call in progress

Threads   == Producers \cup Consumers
QueueMode == {"SPSC", "MPSC", "SPMC", "MPMC"}
Item      == [data : Data, priority : Priorities]
PushOp    == [kind : {"push"}, item : Item, timeout : Timeouts]
PopOp     == [kind : {"pop"}, item : {NoItem}, timeout : Timeouts]

ASSUME ThreadsAssumption == IsFiniteSet(Threads) /\ Observers \subseteq Threads
ASSUME PrioritiesAssumption == Priorities \subseteq Int
ASSUME ModesAssumption == Modes \subseteq QueueMode /\ Disciplines \subseteq BOOLEAN
ASSUME CapacitiesAssumption == Capacities \subseteq Nat /\ UnlimitedCap \in Nat
ASSUME TimeoutsAssumption == Timeouts \subseteq {"nowait", "timed", "forever"}
ASSUME NoOpAssumption == NoOp \notin PushOp \cup PopOp

VARIABLES
    usePriority_, mode_, maxSize_,     \* fixed by the constructor
    closed_, producerActive_, consumerActive_,
    queue_,     \* the elements, oldest first
    pc,         \* where a thread is, see TypeOK
    op,         \* the call a waiting thread is in, or NoOp
    result,     \* the outcome of the last push or pop of a thread
    seen,       \* the sizes the queue has had since a thread's read began
    observed    \* the value of a thread's last size()

config == <<usePriority_, mode_, maxSize_>>
reads  == <<seen, observed>>
vars   == <<usePriority_, mode_, maxSize_, closed_, producerActive_,
            consumerActive_, queue_, pc, op, result, seen, observed>>

NoResult == [status |-> "none", item |-> NoItem]
Result   == [status : {"none", "true", "false", "throw"}, item : Item \cup {NoItem}]

(***************************************************************************)
(* Threads rest ("idle"), sleep on the condition variable of their call    *)
(* ("blocked"), have been woken by a notification or spuriously            *)
(* ("notified") or by their timeout ("expired") and are about to take the  *)
(* mutex again, or are in an unlocked read ("reading").                    *)
(***************************************************************************)
Waiting == {"blocked", "notified", "expired"}

(* Every variable has its type, only a waiting thread is in a call, only   *)
(* a timed wait expires and only pushes to a bounded queue wait.           *)
TypeOK ==
    /\ usePriority_ \in Disciplines /\ mode_ \in Modes /\ maxSize_ \in Capacities
    /\ closed_ \in BOOLEAN /\ producerActive_ \in BOOLEAN /\ consumerActive_ \in BOOLEAN
    /\ queue_ \in Seq(Item)
    /\ pc \in [Threads -> Waiting \cup {"idle", "reading"}]
    /\ op \in [Threads -> PushOp \cup PopOp \cup {NoOp}]
    /\ \A t \in Threads : pc[t] \in Waiting <=> op[t] # NoOp
    /\ \A t \in Threads : pc[t] = "expired" => op[t].timeout = "timed"
    /\ \A t \in Threads : op[t] \in PushOp => maxSize_ > 0
    /\ result \in [Threads -> Result]

-----------------------------------------------------------------------------

SingleProducer == mode_ \in {"SPSC", "SPMC"}
SingleConsumer == mode_ \in {"SPSC", "MPSC"}
AsPair(m) == [oneProducer |-> m \in {"SPSC", "SPMC"}, oneConsumer |-> m \in {"SPSC", "MPSC"}]
Full  == maxSize_ > 0 /\ Len(queue_) >= maxSize_
Empty == queue_ = <<>>

(* The threads inside a call of a kind, and those asleep in one. *)
InCall(kind)   == {t \in Threads : op[t] # NoOp /\ op[t].kind = kind}
Sleepers(kind) == {t \in InCall(kind) : pc[t] = "blocked"}
Woken(kind)    == {t \in InCall(kind) : pc[t] = "notified"}

(***************************************************************************)
(* notify_one wakes one of the threads asleep on a condition variable, if  *)
(* there is one, and notify_all all of them.  Pops sleep on notEmpty_ and  *)
(* pushes on notFull_.  p is pc after the caller's own change to it.       *)
(***************************************************************************)
NotifyNobody(kind, p) == {p}    \* mutant of NotifyOne

NotifyOne(kind, p) ==
    IF Sleepers(kind) = {} THEN {p}
    ELSE {[p EXCEPT ![w] = "notified"] : w \in Sleepers(kind)}

NotifyAll(kinds, p) ==
    [t \in Threads |-> IF pc[t] = "blocked" /\ op[t].kind \in kinds THEN "notified" ELSE p[t]]

Idle(t) == [pc EXCEPT ![t] = "idle"]

Return(t, status, item) ==
    /\ op' = [op EXCEPT ![t] = NoOp]
    /\ result' = [result EXCEPT ![t] = [status |-> status, item |-> item]]

(* return false, return std::nullopt, or throw: nothing is notified. *)
Fail(t, status) ==
    /\ pc' = Idle(t)
    /\ Return(t, status, NoItem)
    /\ UNCHANGED queue_

(* The wait of a call gives up the mutex and puts the thread to sleep. *)
Sleep(t, o) ==
    /\ pc' = [pc EXCEPT ![t] = "blocked"]
    /\ op' = [op EXCEPT ![t] = o]
    /\ result' = [result EXCEPT ![t] = NoResult]
    /\ UNCHANGED queue_

(* A notified thread finds its predicate false and waits on. *)
SleepAgain(t) ==
    /\ pc' = [pc EXCEPT ![t] = "blocked"]
    /\ UNCHANGED <<queue_, op, result>>

(* A concurrent unlocked read may see every size the queue goes through. *)
NoteSize ==
    /\ seen' = [t \in Threads |-> IF pc[t] = "reading" THEN seen[t] \cup {Len(queue_')}
                                  ELSE seen[t]]
    /\ UNCHANGED observed

-----------------------------------------------------------------------------
(***************************************************************************)
(*                                 push                                    *)
(***************************************************************************)

PushItem(t, item) ==
    /\ queue_' = Append(queue_, item)
    /\ pc' \in NotifyOne("pop", Idle(t))
    /\ Return(t, "true", NoItem)

\* Mutants of FinishPush: the flag stays up when the push fails, and a push
\* woken by close() goes on regardless.
FinishPushKeepsFlag(t, item, success) ==
    \/ (~success \/ closed_) /\ Fail(t, "false") /\ UNCHANGED producerActive_
    \/ /\ success /\ ~closed_ /\ PushItem(t, item)
       /\ producerActive_' = (producerActive_ /\ ~SingleProducer)
FinishPushAfterClose(t, item, success) ==
    /\ producerActive_' = (producerActive_ /\ ~SingleProducer)
    /\ IF success THEN PushItem(t, item) ELSE Fail(t, "false")

(* pushImpl from its wait on, given what the wait returned. *)
FinishPush(t, item, success) ==
    /\ producerActive_' = (producerActive_ /\ ~SingleProducer)
    /\ \/ (~success \/ closed_) /\ Fail(t, "false")
       \/ success /\ ~closed_ /\ PushItem(t, item)

(***************************************************************************)
(* The bound UnlimitedCap applies to new calls; a queue with a maximum     *)
(* size needs none.                                                        *)
(***************************************************************************)
Push(t, item, timeout) ==
    /\ pc[t] = "idle"
    /\ maxSize_ = 0 => Len(queue_) < UnlimitedCap
    /\ \/ closed_ /\ Fail(t, "false") /\ UNCHANGED producerActive_
       \/ ~closed_ /\ SingleProducer /\ producerActive_
          /\ Fail(t, "throw") /\ UNCHANGED producerActive_
       \/ ~closed_ /\ ~(SingleProducer /\ producerActive_)
          /\ \/ ~Full /\ FinishPush(t, item, TRUE)
             \/ Full /\ timeout = "nowait" /\ FinishPush(t, item, FALSE)
             \/ Full /\ timeout # "nowait"
                /\ Sleep(t, [kind |-> "push", item |-> item, timeout |-> timeout])
                /\ producerActive_' = (producerActive_ \/ SingleProducer)
    /\ NoteSize
    /\ UNCHANGED <<config, closed_, consumerActive_>>

TakeWakeupForRoom == TRUE       \* mutant of NotFullOrClosed: if for while

(* The predicate of both waits of waitForNotFull. *)
NotFullOrClosed == Len(queue_) < maxSize_ \/ closed_

(***************************************************************************)
(* A woken thread tests the predicate.  If it is false a notified one goes *)
(* back to sleep and wait_for returns false to an expired one.  A timed    *)
(* wait returns the predicate, an unlimited one is followed by             *)
(* return !closed_.                                                        *)
(***************************************************************************)
ResumePush(t) ==
    /\ t \in InCall("push") /\ pc[t] \in {"notified", "expired"}
    /\ \/ /\ pc[t] = "notified" /\ ~NotFullOrClosed
          /\ SleepAgain(t)
          /\ UNCHANGED producerActive_
       \/ /\ pc[t] = "expired" \/ NotFullOrClosed
          /\ FinishPush(t, op[t].item,
                        IF op[t].timeout = "timed" THEN NotFullOrClosed ELSE ~closed_)
    /\ NoteSize
    /\ UNCHANGED <<config, closed_, consumerActive_>>

-----------------------------------------------------------------------------
(***************************************************************************)
(*                                  pop                                    *)
(***************************************************************************)

NewestFirst == {Len(queue_)}    \* mutant of Front

(***************************************************************************)
(* The oldest element, or the top of the priority queue: any element whose *)
(* priority no other exceeds (operator< compares priorities only).         *)
(***************************************************************************)
Front == {i \in 1 .. Len(queue_) :
            IF usePriority_
            THEN \A j \in 1 .. Len(queue_) : queue_[j].priority <= queue_[i].priority
            ELSE i = 1}

Without(s, i) == SubSeq(s, 1, i - 1) \o SubSeq(s, i + 1, Len(s))

TakeItem(t) ==
    \E i \in Front :
        /\ queue_' = Without(queue_, i)
        /\ pc' \in NotifyOne("push", Idle(t))
        /\ Return(t, "true", queue_[i])

(* waitForNonEmpty from its wait on, and the rest of popImpl. *)
FinishPop(t, success) ==
    /\ consumerActive_' = (consumerActive_ /\ ~SingleConsumer)
    /\ \/ (Empty \/ ~success) /\ Fail(t, "false")
       \/ ~Empty /\ success /\ TakeItem(t)

Pop(t, timeout) ==
    /\ pc[t] = "idle"
    /\ \/ closed_ /\ Empty /\ Fail(t, "false") /\ UNCHANGED consumerActive_
       \/ ~(closed_ /\ Empty) /\ SingleConsumer /\ consumerActive_
          /\ Fail(t, "throw") /\ UNCHANGED consumerActive_
       \/ ~(closed_ /\ Empty) /\ ~(SingleConsumer /\ consumerActive_)
          /\ \/ ~Empty /\ FinishPop(t, TRUE)
             \/ Empty /\ timeout = "nowait" /\ FinishPop(t, FALSE)
             \/ Empty /\ timeout # "nowait"
                /\ Sleep(t, [kind |-> "pop", item |-> NoItem, timeout |-> timeout])
                /\ consumerActive_' = (consumerActive_ \/ SingleConsumer)
    /\ NoteSize
    /\ UNCHANGED <<config, closed_, producerActive_>>

(* The predicate of both waits of waitForNonEmpty. *)
NonEmptyOrClosed == ~Empty \/ closed_

ResumePop(t) ==
    /\ t \in InCall("pop") /\ pc[t] \in {"notified", "expired"}
    /\ \/ /\ pc[t] = "notified" /\ ~NonEmptyOrClosed
          /\ SleepAgain(t)
          /\ UNCHANGED consumerActive_
       \/ /\ pc[t] = "expired" \/ NonEmptyOrClosed
          /\ FinishPop(t, NonEmptyOrClosed)
    /\ NoteSize
    /\ UNCHANGED <<config, closed_, producerActive_>>

-----------------------------------------------------------------------------
(***************************************************************************)
(*                    wakeups, close, clear, unlocked reads                *)
(***************************************************************************)

(* A condition variable may wake a thread that nobody notified. *)
SpuriousWakeup(t) ==
    /\ pc[t] = "blocked"
    /\ pc' = [pc EXCEPT ![t] = "notified"]
    /\ UNCHANGED <<config, closed_, producerActive_, consumerActive_, queue_, op,
                   result, reads>>

\* Mutants of Expire.
ExpireAny(t) ==
    /\ pc[t] = "blocked"
    /\ pc' = [pc EXCEPT ![t] = "expired"]
    /\ UNCHANGED <<config, closed_, producerActive_, consumerActive_, queue_, op,
                   result, reads>>
ExpireOnlyPush(t) ==
    /\ pc[t] = "blocked" /\ op[t].timeout = "timed" /\ op[t].kind = "push"
    /\ pc' = [pc EXCEPT ![t] = "expired"]
    /\ UNCHANGED <<config, closed_, producerActive_, consumerActive_, queue_, op,
                   result, reads>>

Expire(t) ==
    /\ pc[t] = "blocked" /\ op[t].timeout = "timed"
    /\ pc' = [pc EXCEPT ![t] = "expired"]
    /\ UNCHANGED <<config, closed_, producerActive_, consumerActive_, queue_, op,
                   result, reads>>

\* Mutants of Close and Clear.
CloseForgetsPushes ==
    /\ closed_' = TRUE
    /\ pc' = NotifyAll({"pop"}, pc)
    /\ UNCHANGED <<config, producerActive_, consumerActive_, queue_, op, result, reads>>
ClearSilently ==
    /\ queue_' = <<>>
    /\ NoteSize
    /\ UNCHANGED <<config, closed_, producerActive_, consumerActive_, pc, op, result>>

(* Called by any thread, and by the destructor. *)
Close ==
    /\ closed_' = TRUE
    /\ pc' = NotifyAll({"pop", "push"}, pc)
    /\ UNCHANGED <<config, producerActive_, consumerActive_, queue_, op, result, reads>>

Clear ==
    /\ queue_' = <<>>
    /\ pc' = NotifyAll({"push"}, pc)
    /\ NoteSize
    /\ UNCHANGED <<config, closed_, producerActive_, consumerActive_, op, result>>

BeginRead(t) ==
    /\ pc[t] = "idle"
    /\ pc' = [pc EXCEPT ![t] = "reading"]
    /\ seen' = [seen EXCEPT ![t] = {Len(queue_)}]
    /\ UNCHANGED <<config, closed_, producerActive_, consumerActive_, queue_, op,
                   result, observed>>

EndRead(t) ==
    /\ pc[t] = "reading"
    /\ \E n \in IF Cardinality(seen[t]) = 1 THEN seen[t] ELSE TornSizes :
          observed' = [observed EXCEPT ![t] = n]
    /\ pc' = Idle(t)
    /\ UNCHANGED <<config, closed_, producerActive_, consumerActive_, queue_, op,
                   result, seen>>

-----------------------------------------------------------------------------

Init ==
    /\ usePriority_ \in Disciplines /\ mode_ \in Modes /\ maxSize_ \in Capacities
    /\ closed_ = FALSE /\ producerActive_ = FALSE /\ consumerActive_ = FALSE
    /\ queue_ = <<>>
    /\ pc = [t \in Threads |-> "idle"]
    /\ op = [t \in Threads |-> NoOp]
    /\ result = [t \in Threads |-> NoResult]
    /\ seen = [t \in Threads |-> {}]
    /\ observed = [t \in Threads |-> 0]

Resume(t) == ResumePush(t) \/ ResumePop(t)

Next ==
    \/ \E t \in Producers, item \in Item, timeout \in Timeouts : Push(t, item, timeout)
    \/ \E t \in Consumers, timeout \in Timeouts : Pop(t, timeout)
    \/ \E t \in Threads : Resume(t) \/ SpuriousWakeup(t) \/ Expire(t)
    \/ \E t \in Observers : BeginRead(t) \/ EndRead(t)
    \/ Close
    \/ Clear

Spec == Init /\ [][Next]_vars

(***************************************************************************)
(* A woken thread gets the mutex and goes on, and the deadline of a timed  *)
(* wait comes, however often the thread is woken before it.  Nobody has to *)
(* call anything, and no wakeup has to be spurious.                        *)
(***************************************************************************)
Fairness == \A t \in Threads : WF_vars(Resume(t)) /\ SF_vars(Expire(t))

LiveSpec == Spec /\ Fairness
-----------------------------------------------------------------------------
(***************************************************************************)
(*                              Properties                                 *)
(***************************************************************************)

(* A bounded queue never holds more than maxSize_ elements, however many   *)
(* producers slip in between the notification of another and its resuming. *)
CapacityRespected == maxSize_ > 0 => Len(queue_) <= maxSize_

(* While a pop sleeps, there are no more elements than woken pops, so no   *)
(* element waits for a pop that nobody will wake (no wakeup of notEmpty_   *)
(* is lost, in whatever order calls, timeouts and spurious wakeups come).  *)
NoLostPop == Sleepers("pop") # {} => Len(queue_) <= Cardinality(Woken("pop"))

(* While a push sleeps, there are no more free places than woken pushes.   *)
NoLostPush ==
    Sleepers("push") # {} => maxSize_ - Len(queue_) <= Cardinality(Woken("push"))

(* Nobody sleeps on a closed queue, nor falls asleep on it later.          *)
ClosedWakesAll == closed_ => \A t \in Threads : pc[t] # "blocked"

(* In the modes for one producer (consumer) the flag is up exactly while a *)
(* push (pop) is waiting, and then for one thread: neither does a timeout, *)
(* a close or a throw leave it up, which would lock everybody out, nor     *)
(* does a second thread take it down under the first.                      *)
FlagsMatchWaiters ==
    /\ producerActive_ <=> SingleProducer /\ InCall("push") # {}
    /\ consumerActive_ <=> SingleConsumer /\ InCall("pop") # {}
    /\ SingleProducer => \A t, u \in InCall("push") : t = u
    /\ SingleConsumer => \A t, u \in InCall("pop") : t = u

(* The queue stays closed, and no push that was waiting when it was closed *)
(* puts its element in afterwards.                                         *)
NothingAddedAfterClose == [][closed_ => closed_' /\ Len(queue_') <= Len(queue_)]_vars

(* The queue implements the linearizable bounded buffer: elements leave in *)
(* order (or by priority), none is lost or doubled, and a call fails or    *)
(* throws only for the reasons the buffer gives.                           *)
Buffer == INSTANCE BoundedBuffer WITH
    usePriority <- usePriority_,
    mode <- AsPair(mode_), Modes <- {AsPair(m) : m \in Modes},
    maxSize <- maxSize_, items <- queue_, closed <- closed_,
    pending <- op
BufferSpec == Buffer!Spec

(* Every waiting call returns once the queue is closed.                    *)
CloseReleasesWaiters == \A t \in Threads : closed_ /\ pc[t] \in Waiting ~> pc[t] = "idle"

(* A call with a finite timeout returns, whatever the other threads do.    *)
TimedCallsReturn ==
    \A t \in Threads : (op[t] # NoOp /\ op[t].timeout = "timed") ~> op[t] = NoOp

(* No pop sleeps for ever beside an element, no push beside a free place.  *)
NobodySleepsForNothing ==
    \A t \in Threads :
        /\ ~<>[](t \in Sleepers("pop") /\ queue_ # <<>>)
        /\ ~<>[](t \in Sleepers("push") /\ ~Full)
=============================================================================
