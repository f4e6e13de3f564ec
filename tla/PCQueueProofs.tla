--------------------------- MODULE PCQueueProofs ---------------------------
(* Proofs about PCQueue, for any threads, elements, modes and sizes.       *)
EXTENDS PCQueue, TLAPS, FiniteSetTheorems, SequenceTheorems

-----------------------------------------------------------------------------
(***************************************************************************)
(*                          Type correctness                               *)
(***************************************************************************)

(* The part of TypeOK that a call can disturb.                             *)
CallsOK ==
    /\ queue_ \in Seq(Item)
    /\ pc \in [Threads -> Waiting \cup {"idle", "reading"}]
    /\ op \in [Threads -> PushOp \cup PopOp \cup {NoOp}]
    /\ \A t \in Threads : pc[t] \in Waiting <=> op[t] # NoOp
    /\ \A t \in Threads : pc[t] = "expired" => op[t].timeout = "timed"
    /\ \A t \in Threads : op[t] \in PushOp => maxSize_ > 0
    /\ result \in [Threads -> Result]

(* Taking one element out of a sequence leaves a sequence of the others,   *)
(* one shorter.                                                            *)
LEMMA WithoutType ==
    ASSUME NEW S, NEW s \in Seq(S), NEW i \in 1 .. Len(s)
    PROVE  Without(s, i) \in Seq(S) /\ Len(Without(s, i)) = Len(s) - 1
<1> DEFINE before == SubSeq(s, 1, i - 1)
           after  == SubSeq(s, i + 1, Len(s))
<1>1. before \in Seq(S) /\ Len(before) = i - 1
  OBVIOUS
<1>2. after \in Seq(S) /\ Len(after) = Len(s) - i
  OBVIOUS
<1>3. before \o after \in Seq(S) /\ Len(before \o after) = Len(before) + Len(after)
  <2> HIDE DEF before, after
  <2> QED BY <1>1, <1>2, ConcatProperties
<1>4. Len(before) + Len(after) = Len(s) - 1
  <2> HIDE DEF before, after
  <2> QED BY <1>1, <1>2, LenProperties
<1>5. Without(s, i) = before \o after
  BY DEF Without
<1> HIDE DEF before, after
<1> QED BY <1>3, <1>4, <1>5

(* Notifying one sleeper keeps every thread where its call says it is.     *)
LEMMA NotifyOneType ==
    ASSUME TypeOK, NEW t \in Threads, NEW kind, t \notin Sleepers(kind),
           pc' \in NotifyOne(kind, Idle(t))
    PROVE  /\ pc' \in [Threads -> Waiting \cup {"idle", "reading"}]
           /\ pc'[t] = "idle"
           /\ \A u \in Threads \ {t} :
              pc'[u] = pc[u] \/ (pc[u] = "blocked" /\ pc'[u] = "notified")
<1>1. CASE Sleepers(kind) = {}
  BY <1>1 DEF TypeOK, NotifyOne, Idle, Waiting
<1>2. CASE Sleepers(kind) # {}
  <2>1. PICK w \in Sleepers(kind) : pc' = [Idle(t) EXCEPT ![w] = "notified"]
    BY <1>2 DEF NotifyOne
  <2>2. w \in Threads /\ w # t /\ pc[w] = "blocked"
    BY DEF Sleepers, InCall
  <2> QED BY <2>1, <2>2 DEF TypeOK, Idle, Waiting
<1> QED BY <1>1, <1>2

(* The three ways a step of a call can end keep the types.                 *)
LEMMA FailType ==
    ASSUME TypeOK, NEW t \in Threads, NEW status \in {"false", "throw"}, Fail(t, status), UNCHANGED config
    PROVE  CallsOK'
BY NoOpAssumption DEF TypeOK, Fail, Idle, Return, CallsOK, Waiting, Result, config

(* A thread goes back to its wait.                                         *)
LEMMA SleepAgainType ==
    ASSUME TypeOK, NEW t \in Threads, op[t] # NoOp, SleepAgain(t), UNCHANGED config
    PROVE  CallsOK'
BY DEF TypeOK, SleepAgain, CallsOK, Waiting, config

(* A thread begins to wait.                                                *)
LEMMA SleepType ==
    ASSUME TypeOK, NEW t \in Threads, NEW o \in PushOp \cup PopOp, Sleep(t, o),
           o \in PushOp => maxSize_ > 0, UNCHANGED config
    PROVE  CallsOK'
BY NoOpAssumption DEF TypeOK, Sleep, CallsOK, Waiting, Result, NoResult, config

(* An item goes into the queue.                                            *)
LEMMA PushItemType ==
    ASSUME TypeOK, NEW t \in Threads, NEW item \in Item,
           t \notin Sleepers("pop"), PushItem(t, item), UNCHANGED config
    PROVE  CallsOK'
<1>1. queue_' \in Seq(Item)
  BY AppendProperties DEF TypeOK, PushItem
<1>2. /\ pc' \in [Threads -> Waiting \cup {"idle", "reading"}]
      /\ pc'[t] = "idle"
      /\ \A u \in Threads \ {t} :
              pc'[u] = pc[u] \/ (pc[u] = "blocked" /\ pc'[u] = "notified")
  BY NotifyOneType DEF PushItem
<1> QED BY <1>1, <1>2, NoOpAssumption
        DEF TypeOK, PushItem, Return, CallsOK, Result, Waiting, config

(* An item is taken from the queue.                                        *)
LEMMA TakeItemType ==
    ASSUME TypeOK, NEW t \in Threads, t \notin Sleepers("push"), TakeItem(t), UNCHANGED config
    PROVE  CallsOK'
<1>1. PICK i \in Front : /\ queue_' = Without(queue_, i)
                         /\ pc' \in NotifyOne("push", Idle(t))
                         /\ Return(t, "true", queue_[i])
  BY DEF TakeItem
<1>2. queue_[i] \in Item /\ queue_' \in Seq(Item)
  BY <1>1, WithoutType, ElementOfSeq DEF Front, TypeOK
<1>3. /\ pc' \in [Threads -> Waiting \cup {"idle", "reading"}]
      /\ pc'[t] = "idle"
      /\ \A u \in Threads \ {t} :
              pc'[u] = pc[u] \/ (pc[u] = "blocked" /\ pc'[u] = "notified")
  BY <1>1, NotifyOneType
<1> QED BY <1>1, <1>2, <1>3, NoOpAssumption
        DEF TypeOK, Return, CallsOK, Result, Waiting, config

(* A pop is not a push.                                                    *)
LEMMA PopIsNoPush == \A o \in PopOp : o \notin PushOp
BY DEF PopOp, PushOp

(* Where a thread that can make or resume a call is not.                   *)
LEMMA CallerAwake ==
    ASSUME NEW t \in Threads, pc[t] # "blocked", NEW kind
    PROVE  t \notin Sleepers(kind)
BY DEF Sleepers

(***************************************************************************)
(* Every variable keeps its type; only a waiting thread is in a call.      *)
(***************************************************************************)
THEOREM TypeCorrect == Spec => []TypeOK
<1>1. Init => TypeOK
  <2> SUFFICES ASSUME Init PROVE TypeOK
    OBVIOUS
  <2>1. queue_ \in Seq(Item)
    BY EmptySeq DEF Init
  <2>2. NoResult \in Result
    BY DEF NoResult, Result
  <2> QED BY <2>1, <2>2, ModesAssumption, NoOpAssumption DEF Init, TypeOK, Waiting
<1>2. TypeOK /\ [Next]_vars => TypeOK'
  <2> SUFFICES ASSUME TypeOK, [Next]_vars PROVE TypeOK'
    OBVIOUS
  <2>1. ASSUME NEW t \in Producers, NEW item \in Item, NEW timeout \in Timeouts,
               Push(t, item, timeout)
        PROVE  TypeOK'
    <3>1. t \in Threads /\ t \notin Sleepers("pop")
      BY <2>1, CallerAwake DEF Push, Threads
    <3>2. ASSUME NEW success, FinishPush(t, item, success)
          PROVE  CallsOK' /\ producerActive_' \in BOOLEAN
      BY <2>1, <3>1, <3>2, FailType, PushItemType DEF FinishPush, Push, ResumePush
    <3>3. [kind |-> "push", item |-> item, timeout |-> timeout] \in PushOp
      BY DEF PushOp
    <3>4. CallsOK' /\ producerActive_' \in BOOLEAN
      BY <2>1, <3>1, <3>2, <3>3, FailType, SleepType
         DEF Push, TypeOK, SingleProducer, Full
    <3> QED BY <2>1, <3>4 DEF Push, config, TypeOK, CallsOK
  <2>2. ASSUME NEW t \in Consumers, NEW timeout \in Timeouts, Pop(t, timeout)
        PROVE  TypeOK'
    <3>1. t \in Threads /\ t \notin Sleepers("push")
      BY <2>2, CallerAwake DEF Pop, Threads
    <3>2. ASSUME NEW success, FinishPop(t, success)
          PROVE  CallsOK' /\ consumerActive_' \in BOOLEAN
      BY <2>2, <3>1, <3>2, FailType, TakeItemType DEF FinishPop, Pop, ResumePop
    <3>3. [kind |-> "pop", item |-> NoItem, timeout |-> timeout] \in PopOp
      BY DEF PopOp
    <3>4. CallsOK' /\ consumerActive_' \in BOOLEAN
      BY <2>2, <3>1, <3>2, <3>3, FailType, SleepType, PopIsNoPush
         DEF Pop, TypeOK, SingleConsumer
    <3> QED BY <2>2, <3>4 DEF Pop, config, TypeOK, CallsOK
  <2>3. ASSUME NEW t \in Threads, ResumePush(t) PROVE TypeOK'
    <3>1. t \notin Sleepers("pop") /\ op[t] \in PushOp \cup PopOp
      BY <2>3, CallerAwake DEF ResumePush, InCall, TypeOK
    <3>2. op[t].item \in Item
      BY <2>3, <3>1 DEF ResumePush, InCall, PushOp, PopOp
    <3>3. ASSUME NEW success, FinishPush(t, op[t].item, success)
          PROVE  CallsOK' /\ producerActive_' \in BOOLEAN
      BY <2>3, <3>1, <3>2, <3>3, FailType, PushItemType DEF FinishPush, Push, ResumePush
    <3>4. CallsOK' /\ producerActive_' \in BOOLEAN
      BY <2>3, <3>1, <3>3, SleepAgainType DEF ResumePush, InCall, TypeOK
    <3> QED BY <2>3, <3>4 DEF ResumePush, config, TypeOK, CallsOK
  <2>4. ASSUME NEW t \in Threads, ResumePop(t) PROVE TypeOK'
    <3>1. t \notin Sleepers("push") /\ op[t] \in PushOp \cup PopOp
      BY <2>4, CallerAwake DEF ResumePop, InCall, TypeOK
    <3>2. ASSUME NEW success, FinishPop(t, success)
          PROVE  CallsOK' /\ consumerActive_' \in BOOLEAN
      BY <2>4, <3>1, <3>2, FailType, TakeItemType DEF FinishPop, Pop, ResumePop
    <3>3. CallsOK' /\ consumerActive_' \in BOOLEAN
      BY <2>4, <3>1, <3>2, SleepAgainType DEF ResumePop, InCall, TypeOK
    <3> QED BY <2>4, <3>3 DEF ResumePop, config, TypeOK, CallsOK
  <2>5. ASSUME NEW t \in Threads, SpuriousWakeup(t) \/ Expire(t) PROVE TypeOK'
    BY <2>5 DEF SpuriousWakeup, Expire, TypeOK, config, Waiting
  <2>6. ASSUME NEW t \in Observers, BeginRead(t) \/ EndRead(t) PROVE TypeOK'
    <3>1. t \in Threads
      BY ThreadsAssumption
    <3> QED BY <2>6, <3>1 DEF BeginRead, EndRead, Idle, TypeOK, config, Waiting
  <2>7. CASE Close
    BY <2>7 DEF Close, NotifyAll, TypeOK, config, Waiting
  <2>8. CASE Clear
    BY <2>8, EmptySeq DEF Clear, NotifyAll, TypeOK, config, Waiting
  <2>9. CASE UNCHANGED vars
    BY <2>9 DEF vars, TypeOK
  <2> QED BY <2>1, <2>2, <2>3, <2>4, <2>5, <2>6, <2>7, <2>8, <2>9 DEF Next, Resume
<1> QED BY <1>1, <1>2, PTL DEF Spec

-----------------------------------------------------------------------------
(***************************************************************************)
(*                     Capacity, close and the flags                       *)
(***************************************************************************)

(* The constructor's parameters never change.                             *)
LEMMA ConfigFixed == [Next]_vars => UNCHANGED config
<1>1. ASSUME NEW t \in Threads,
             Resume(t) \/ SpuriousWakeup(t) \/ Expire(t) \/ BeginRead(t) \/ EndRead(t)
      PROVE  UNCHANGED config
  BY <1>1 DEF Resume, ResumePush, ResumePop, SpuriousWakeup, Expire, BeginRead, EndRead
<1>2. ASSUME NEW t, NEW item, NEW timeout, Push(t, item, timeout) \/ Pop(t, timeout)
      PROVE  UNCHANGED config
  BY <1>2 DEF Push, Pop
<1>3. Close \/ Clear \/ UNCHANGED vars => UNCHANGED config
  BY DEF Close, Clear, vars, config
<1> QED BY <1>1, <1>2, <1>3, ThreadsAssumption DEF Next, Threads

(* A push that gets past its wait finds room in a bounded queue.           *)
LEMMA ResumedPushFindsRoom ==
    ASSUME TypeOK, NEW t \in Threads, ResumePush(t), ~closed_, maxSize_ > 0,
           ~ UNCHANGED queue_
    PROVE  Len(queue_) < maxSize_ /\ queue_' = Append(queue_, op[t].item)
BY DEF ResumePush, FinishPush, PushItem, Fail, SleepAgain, NotFullOrClosed, TypeOK

(* A pop removes one element or leaves the queue alone.                    *)
LEMMA PopShortens ==
    ASSUME TypeOK, NEW t \in Threads, TakeItem(t)
    PROVE  Len(queue_') = Len(queue_) - 1 /\ ~Empty
<1>1. PICK i \in Front : queue_' = Without(queue_, i)
  BY DEF TakeItem
<1>2. i \in 1 .. Len(queue_) /\ queue_ \in Seq(Item)
  BY DEF Front, TypeOK
<1> QED BY <1>1, <1>2, WithoutType DEF Empty

(***************************************************************************)
(* A bounded queue never holds more than maxSize_ elements.                *)
(***************************************************************************)
THEOREM NeverOverfull == Spec => []CapacityRespected
<1>1. Init => CapacityRespected
  BY CapacitiesAssumption DEF Init, CapacityRespected
<1>2. TypeOK /\ CapacityRespected /\ [Next]_vars => CapacityRespected'
  <2> SUFFICES ASSUME TypeOK, CapacityRespected, [Next]_vars, maxSize_ > 0,
                      ~ UNCHANGED queue_
               PROVE  Len(queue_') <= maxSize_
    BY ConfigFixed DEF CapacityRespected, config
  <2>0. Len(queue_) \in Nat /\ maxSize_ \in Nat /\ Len(queue_) <= maxSize_
    BY CapacitiesAssumption, LenProperties DEF TypeOK, CapacityRespected
  <2>1. ASSUME NEW t \in Producers, NEW item \in Item, NEW timeout \in Timeouts,
               Push(t, item, timeout)
        PROVE  Len(queue_') <= maxSize_
    <3>1. Len(queue_) < maxSize_ /\ queue_' = Append(queue_, item)
      BY <2>0, <2>1 DEF Push, FinishPush, PushItem, Fail, Sleep, Full
    <3> QED BY <2>0, <2>1, <3>1, AppendProperties DEF Push, config, TypeOK
  <2>2. ASSUME NEW t \in Threads, ResumePush(t)
        PROVE  Len(queue_') <= maxSize_
    <3>1. ~closed_ /\ t \in Threads
      BY <2>2 DEF ResumePush, FinishPush, Fail, Sleep, SleepAgain
    <3>2. Len(queue_) < maxSize_ /\ queue_' = Append(queue_, op[t].item)
      BY <2>2, <3>1, ResumedPushFindsRoom
    <3>3. op[t].item \in Item
      BY <2>2 DEF ResumePush, InCall, TypeOK, PushOp, PopOp
    <3> QED BY <2>0, <2>2, <3>2, <3>3, AppendProperties DEF ResumePush, config, TypeOK
  <2>3. ASSUME NEW t \in Threads, ResumePop(t) \/ \E timeout \in Timeouts : Pop(t, timeout)
        PROVE  Len(queue_') <= maxSize_
    <3>1. TakeItem(t)
      BY <2>3 DEF ResumePop, Pop, FinishPop, Fail, Sleep, SleepAgain
    <3> QED BY <2>0, <2>3, <3>1, PopShortens DEF ResumePop, Pop, config
  <2>4. CASE Clear
    BY <2>0, <2>4 DEF Clear, config
  <2>5. QED
    BY <2>1, <2>2, <2>3, <2>4
       DEF Next, Resume, SpuriousWakeup, Expire, Close, BeginRead, EndRead, vars, Threads
<1> QED BY <1>1, <1>2, TypeCorrect, PTL DEF Spec

(***************************************************************************)
(* Nobody sleeps on a closed queue: close() wakes everybody, and no call   *)
(* goes to sleep afterwards.                                               *)
(***************************************************************************)
THEOREM CloseWakesEverybody == Spec => []ClosedWakesAll
<1>1. Init => ClosedWakesAll
  BY DEF Init, ClosedWakesAll
<1>2. TypeOK /\ ClosedWakesAll /\ [Next]_vars => ClosedWakesAll'
  <2> SUFFICES ASSUME TypeOK, ClosedWakesAll, [Next]_vars PROVE ClosedWakesAll'
    OBVIOUS
  <2>1. ASSUME NEW t \in Threads,
               ResumePush(t) \/ \E item \in Item, timeout \in Timeouts : Push(t, item, timeout)
        PROVE  ClosedWakesAll'
    <3>1. closed_' = closed_
      BY <2>1 DEF Push, ResumePush
    <3>2. CASE ~closed_
      BY <3>1, <3>2 DEF ClosedWakesAll
    <3>3. CASE closed_
      <4>1. Fail(t, "false")
        BY <2>1, <3>3 DEF Push, ResumePush, FinishPush, NotFullOrClosed
      <4> QED BY <3>3, <4>1 DEF ClosedWakesAll, Fail, Idle, TypeOK
    <3> QED BY <3>2, <3>3
  <2>2. ASSUME NEW t \in Threads, ResumePop(t) \/ \E timeout \in Timeouts : Pop(t, timeout)
        PROVE  ClosedWakesAll'
    <3>1. closed_' = closed_
      BY <2>2 DEF Pop, ResumePop
    <3>2. CASE ~closed_
      BY <3>1, <3>2 DEF ClosedWakesAll
    <3>3. CASE closed_ /\ pc' = Idle(t)
      BY <3>3 DEF ClosedWakesAll, Idle, TypeOK
    <3>4. CASE closed_ /\ TakeItem(t)
      <4>1. Sleepers("push") = {}
        BY <3>4 DEF ClosedWakesAll, Sleepers, InCall
      <4> QED BY <3>3, <3>4, <4>1 DEF TakeItem, NotifyOne
    <3>5. closed_ => pc' = Idle(t) \/ TakeItem(t)
      BY <2>2 DEF Pop, ResumePop, FinishPop, Fail, NonEmptyOrClosed
    <3> QED BY <3>2, <3>3, <3>4, <3>5
  <2>3. ASSUME NEW t \in Threads, SpuriousWakeup(t) \/ Expire(t) \/ BeginRead(t) \/ EndRead(t)
        PROVE  ClosedWakesAll'
    BY <2>3 DEF SpuriousWakeup, Expire, BeginRead, EndRead, Idle, ClosedWakesAll, TypeOK
  <2>4. CASE Close
    <3>1. \A u \in Threads : pc[u] = "blocked" => op[u].kind \in {"pop", "push"}
      BY NoOpAssumption DEF TypeOK, Waiting, PushOp, PopOp
    <3>2. \A u \in Threads : pc'[u] # "blocked"
      BY <2>4, <3>1 DEF Close, NotifyAll
    <3> QED BY <3>2 DEF ClosedWakesAll
  <2>5. CASE Clear
    BY <2>5 DEF Clear, NotifyAll, ClosedWakesAll
  <2>6. CASE UNCHANGED vars
    BY <2>6 DEF vars, ClosedWakesAll
  <2> QED BY <2>1, <2>2, <2>3, <2>4, <2>5, <2>6, ThreadsAssumption
          DEF Next, Resume, Threads
<1> QED BY <1>1, <1>2, TypeCorrect, PTL DEF Spec

(***************************************************************************)
(* The queue stays closed, and nothing comes into a closed queue, be it    *)
(* from a push that was waiting when it was closed.                        *)
(***************************************************************************)
THEOREM ClosedForGood == Spec => NothingAddedAfterClose
<1>1. TypeOK /\ [Next]_vars => [closed_ => closed_' /\ Len(queue_') <= Len(queue_)]_vars
  <2> SUFFICES ASSUME TypeOK, [Next]_vars, closed_
               PROVE  closed_' /\ Len(queue_') <= Len(queue_)
    OBVIOUS
  <2>1. Len(queue_) \in Nat /\ Len(<<>>) = 0
    BY LenProperties DEF TypeOK
  <2>2. closed_'
    BY DEF Next, Push, Pop, Resume, ResumePush, ResumePop, SpuriousWakeup, Expire, Close, Clear,
           BeginRead, EndRead, vars
  <2>3. ASSUME NEW t \in Threads,
               ResumePush(t) \/ \E item \in Item, timeout \in Timeouts : Push(t, item, timeout)
        PROVE  UNCHANGED queue_
    <3>1. Fail(t, "false")
      BY <2>3 DEF Push, ResumePush, FinishPush, NotFullOrClosed
    <3> QED BY <3>1 DEF Fail
  <2>4. ASSUME NEW t \in Threads, ResumePop(t) \/ \E timeout \in Timeouts : Pop(t, timeout)
        PROVE  Len(queue_') <= Len(queue_)
    <3>1. UNCHANGED queue_ \/ TakeItem(t)
      BY <2>4 DEF Pop, ResumePop, FinishPop, Fail, Sleep, SleepAgain
    <3> QED BY <2>1, <3>1, PopShortens
  <2>5. CASE Clear
    BY <2>1, <2>2, <2>5 DEF Clear
  <2>6. CASE UNCHANGED queue_
    BY <2>1, <2>2, <2>6
  <2>7. ASSUME NEW t, SpuriousWakeup(t) \/ Expire(t) \/ BeginRead(t) \/ EndRead(t)
        PROVE  UNCHANGED queue_
    BY <2>7 DEF SpuriousWakeup, Expire, BeginRead, EndRead
  <2>8. CASE Close \/ UNCHANGED vars
    BY <2>6, <2>8 DEF Close, vars
  <2> QED BY <2>2, <2>3, <2>4, <2>5, <2>6, <2>7, <2>8 DEF Next, Resume, Threads
<1> QED BY <1>1, TypeCorrect, PTL DEF Spec, NothingAddedAfterClose

-----------------------------------------------------------------------------

(* A step that ends the call of t takes t out of the calls of its kind.    *)
LEMMA CallEnds ==
    ASSUME TypeOK, NEW t \in Threads, NEW kind, op' = [op EXCEPT ![t] = NoOp]
    PROVE  /\ InCall(kind)' = InCall(kind) \ {t}
           /\ t \notin InCall(kind) => InCall(kind)' = InCall(kind)
<1>1. InCall(kind)' = InCall(kind) \ {t}
  BY DEF TypeOK, InCall
<1> QED BY <1>1

(* A thread that goes to sleep is in its call and in no other.             *)
LEMMA CallSleeps ==
    ASSUME TypeOK, NEW t \in Threads, NEW o \in PushOp \cup PopOp, NEW kind, Sleep(t, o)
    PROVE  /\ o.kind = kind => InCall(kind)' = InCall(kind) \cup {t}
           /\ o.kind # kind => InCall(kind)' = InCall(kind) \ {t}
           /\ (t \in InCall(kind) <=> o.kind = kind) => InCall(kind)' = InCall(kind)
<1>1. InCall(kind)' = IF o.kind = kind THEN InCall(kind) \cup {t} ELSE InCall(kind) \ {t}
  BY NoOpAssumption DEF TypeOK, InCall, Sleep
<1> QED BY <1>1

(* Idle and reading threads are in no call.                                *)
LEMMA RestingThread ==
    ASSUME TypeOK, NEW t \in Threads, pc[t] \in {"idle", "reading"}, NEW kind
    PROVE  op[t] = NoOp /\ t \notin InCall(kind)
BY DEF TypeOK, InCall, Waiting

(***************************************************************************)
(* The flag of a mode for one producer or one consumer is up exactly while *)
(* one thread waits in such a call.                                        *)
(***************************************************************************)
THEOREM FlagsAreRight == Spec => []FlagsMatchWaiters
<1>1. Init => FlagsMatchWaiters
  BY DEF Init, FlagsMatchWaiters, InCall
<1>2. TypeOK /\ FlagsMatchWaiters /\ [Next]_vars => FlagsMatchWaiters'
  <2> SUFFICES ASSUME TypeOK, FlagsMatchWaiters, [Next]_vars PROVE FlagsMatchWaiters'
    OBVIOUS
  <2>0. SingleProducer' = SingleProducer /\ SingleConsumer' = SingleConsumer
    BY ConfigFixed DEF config, SingleProducer, SingleConsumer
  <2>1. ASSUME InCall("push")' = InCall("push"), InCall("pop")' = InCall("pop"),
               producerActive_' = producerActive_, consumerActive_' = consumerActive_
        PROVE  FlagsMatchWaiters'
    BY <2>0, <2>1 DEF FlagsMatchWaiters
  <2>2. ASSUME NEW t \in Producers, NEW item \in Item, NEW timeout \in Timeouts,
               Push(t, item, timeout)
        PROVE  FlagsMatchWaiters'
    <3> DEFINE o == [kind |-> "push", item |-> item, timeout |-> timeout]
    <3>1. t \in Threads /\ pc[t] = "idle" /\ o \in PushOp \cup PopOp /\ o.kind = "push"
      BY <2>2 DEF Threads, Push, PushOp
    <3>2. t \notin InCall("push") /\ t \notin InCall("pop")
      BY <3>1, RestingThread
    <3>3. CASE op' = [op EXCEPT ![t] = NoOp] /\ producerActive_' = producerActive_
      BY <2>1, <2>2, <3>1, <3>2, <3>3, CallEnds DEF Push
    <3>4. CASE /\ op' = [op EXCEPT ![t] = NoOp]
               /\ ~(SingleProducer /\ producerActive_)
               /\ producerActive_' = (producerActive_ /\ ~SingleProducer)
      BY <2>1, <2>2, <3>1, <3>2, <3>4, CallEnds DEF Push, FlagsMatchWaiters, TypeOK
    <3> HIDE DEF o
    <3>5. CASE /\ Sleep(t, o)
               /\ ~(SingleProducer /\ producerActive_)
               /\ producerActive_' = (producerActive_ \/ SingleProducer)
      <4>1. InCall("push")' = InCall("push") \cup {t} /\ InCall("pop")' = InCall("pop")
        BY <3>1, <3>2, <3>5, CallSleeps
      <4>2. consumerActive_' = consumerActive_
        BY <2>2 DEF Push
      <4> QED BY <2>0, <3>5, <4>1, <4>2 DEF FlagsMatchWaiters, TypeOK
    <3> QED BY <2>2, <3>3, <3>4, <3>5 DEF o, Push, FinishPush, PushItem, Fail, Return
  <2>3. ASSUME NEW t \in Threads, ResumePush(t) PROVE FlagsMatchWaiters'
    <3>1. t \in InCall("push") /\ t \notin InCall("pop") /\ consumerActive_' = consumerActive_
      BY <2>3 DEF ResumePush, InCall
    <3>2. op[t] \in PushOp \cup PopOp /\ op[t].kind = "push"
      BY <3>1 DEF InCall, TypeOK
    <3>3. CASE SleepAgain(t) /\ UNCHANGED producerActive_
      BY <2>1, <3>1, <3>3 DEF SleepAgain, InCall
    <3>4. CASE /\ op' = [op EXCEPT ![t] = NoOp]
               /\ producerActive_' = (producerActive_ /\ ~SingleProducer)
      <4>1. InCall("push")' = InCall("push") \ {t} /\ InCall("pop")' = InCall("pop")
        BY <3>1, <3>4, CallEnds
      <4> QED BY <2>0, <3>1, <3>4, <4>1 DEF FlagsMatchWaiters, TypeOK
    <3> QED BY <2>3, <3>3, <3>4 DEF ResumePush, FinishPush, PushItem, Fail, Return
  <2>4. ASSUME NEW t \in Consumers, NEW timeout \in Timeouts, Pop(t, timeout)
        PROVE  FlagsMatchWaiters'
    <3> DEFINE o == [kind |-> "pop", item |-> NoItem, timeout |-> timeout]
    <3>1. t \in Threads /\ pc[t] = "idle" /\ o \in PushOp \cup PopOp /\ o.kind = "pop"
      BY <2>4 DEF Threads, Pop, PopOp
    <3>2. t \notin InCall("push") /\ t \notin InCall("pop")
      BY <3>1, RestingThread
    <3>3. CASE op' = [op EXCEPT ![t] = NoOp] /\ consumerActive_' = consumerActive_
      BY <2>1, <2>4, <3>1, <3>2, <3>3, CallEnds DEF Pop
    <3>4. CASE /\ op' = [op EXCEPT ![t] = NoOp]
               /\ ~(SingleConsumer /\ consumerActive_)
               /\ consumerActive_' = (consumerActive_ /\ ~SingleConsumer)
      BY <2>1, <2>4, <3>1, <3>2, <3>4, CallEnds DEF Pop, FlagsMatchWaiters, TypeOK
    <3> HIDE DEF o
    <3>5. CASE /\ Sleep(t, o)
               /\ ~(SingleConsumer /\ consumerActive_)
               /\ consumerActive_' = (consumerActive_ \/ SingleConsumer)
      <4>1. InCall("pop")' = InCall("pop") \cup {t} /\ InCall("push")' = InCall("push")
        BY <3>1, <3>2, <3>5, CallSleeps
      <4>2. producerActive_' = producerActive_
        BY <2>4 DEF Pop
      <4> QED BY <2>0, <3>5, <4>1, <4>2 DEF FlagsMatchWaiters, TypeOK
    <3> QED BY <2>4, <3>3, <3>4, <3>5 DEF o, Pop, FinishPop, TakeItem, Fail, Return
  <2>5. ASSUME NEW t \in Threads, ResumePop(t) PROVE FlagsMatchWaiters'
    <3>1. t \in InCall("pop") /\ t \notin InCall("push") /\ producerActive_' = producerActive_
      BY <2>5 DEF ResumePop, InCall
    <3>2. op[t] \in PushOp \cup PopOp /\ op[t].kind = "pop"
      BY <3>1 DEF InCall, TypeOK
    <3>3. CASE SleepAgain(t) /\ UNCHANGED consumerActive_
      BY <2>1, <3>1, <3>3 DEF SleepAgain, InCall
    <3>4. CASE /\ op' = [op EXCEPT ![t] = NoOp]
               /\ consumerActive_' = (consumerActive_ /\ ~SingleConsumer)
      <4>1. InCall("pop")' = InCall("pop") \ {t} /\ InCall("push")' = InCall("push")
        BY <3>1, <3>4, CallEnds
      <4> QED BY <2>0, <3>1, <3>4, <4>1 DEF FlagsMatchWaiters, TypeOK
    <3> QED BY <2>5, <3>3, <3>4 DEF ResumePop, FinishPop, TakeItem, Fail, Return
  <2>6. ASSUME UNCHANGED <<op, producerActive_, consumerActive_>> PROVE FlagsMatchWaiters'
    BY <2>1, <2>6 DEF InCall
  <2> QED BY <2>2, <2>3, <2>4, <2>5, <2>6
          DEF Next, Resume, SpuriousWakeup, Expire, Close, Clear, BeginRead, EndRead, vars
<1> QED BY <1>1, <1>2, TypeCorrect, PTL DEF Spec

-----------------------------------------------------------------------------
(***************************************************************************)
(*                        No wakeup is lost                                *)
(***************************************************************************)

(* How the number of woken threads changes with the set of them.           *)
LEMMA WokenCount ==
    ASSUME NEW W \in SUBSET Threads, NEW V \in SUBSET Threads
    PROVE  /\ Cardinality(W) \in Nat /\ Cardinality(V) \in Nat
           /\ W \subseteq V => Cardinality(W) <= Cardinality(V)
           /\ \A w \in V \ W : W \subseteq V => Cardinality(W) + 1 <= Cardinality(V)
           /\ \A t : W \ {t} \subseteq V => Cardinality(W) - 1 <= Cardinality(V)
<1>1. IsFiniteSet(W) /\ IsFiniteSet(V)
  BY ThreadsAssumption, FS_Subset
<1>2. Cardinality(W) \in Nat /\ Cardinality(V) \in Nat
  BY <1>1, FS_CardinalityType
<1>3. ASSUME NEW X, NEW Y, IsFiniteSet(Y), X \subseteq Y
      PROVE  Cardinality(X) <= Cardinality(Y) /\ IsFiniteSet(X)
  BY <1>3, FS_Subset
<1>4. ASSUME NEW w \in V \ W, W \subseteq V PROVE Cardinality(W) + 1 <= Cardinality(V)
  <2>1. Cardinality(W \cup {w}) = Cardinality(W) + 1
    BY <1>1, <1>4, FS_AddElement
  <2>2. W \cup {w} \subseteq V
    BY <1>4
  <2> QED BY <1>1, <1>3, <2>1, <2>2
<1>5. ASSUME NEW t, W \ {t} \subseteq V PROVE Cardinality(W) - 1 <= Cardinality(V)
  <2>1. Cardinality(W \ {t}) = Cardinality(W) - 1 \/ W \ {t} = W
    BY <1>1, FS_RemoveElement
  <2>2. Cardinality(W \ {t}) <= Cardinality(V)
    BY <1>1, <1>3, <1>5
  <2> QED BY <1>2, <2>1, <2>2
<1> QED BY <1>1, <1>2, <1>3, <1>4, <1>5

(* A step of t that changes nobody else's place and leaves t outside the   *)
(* calls of a kind disturbs at most t's own place among them.              *)
LEMMA OwnStep ==
    ASSUME TypeOK, NEW t \in Threads, NEW kind, NEW p, NEW o, o = NoOp \/ o.kind # kind,
           pc' = [pc EXCEPT ![t] = p], op' = [op EXCEPT ![t] = o]
    PROVE  /\ Sleepers(kind)' = Sleepers(kind) \ {t}
           /\ Woken(kind)' = Woken(kind) \ {t}
BY DEF TypeOK, Sleepers, Woken, InCall

(* notify_one by a caller that returns: if anybody of the kind sleeps, one *)
(* of them, w, is woken; the other kind is not disturbed.                  *)
LEMMA NotifyOneEffect ==
    ASSUME TypeOK, NEW t \in Threads, NEW kind, NEW other, kind # other,
           t \notin Sleepers(kind),
           pc' \in NotifyOne(kind, Idle(t)), op' = [op EXCEPT ![t] = NoOp]
    PROVE  /\ Sleepers(other)' = Sleepers(other) \ {t}
           /\ Woken(other)' = Woken(other) \ {t}
           /\ \/ Sleepers(kind)' = {}
              \/ \E w \in Sleepers(kind) \ {t} :
                    /\ Sleepers(kind)' \subseteq Sleepers(kind)
                    /\ Woken(kind)' = (Woken(kind) \ {t}) \cup {w}
<1>1. CASE Sleepers(kind) = {}
  <2>1. pc' = [pc EXCEPT ![t] = "idle"]
    BY <1>1 DEF NotifyOne, Idle
  <2>2. ASSUME NEW k PROVE Sleepers(k)' = Sleepers(k) \ {t} /\ Woken(k)' = Woken(k) \ {t}
    <3> DEFINE none == NoOp
    <3>1. op' = [op EXCEPT ![t] = none] /\ (none = NoOp \/ none.kind # k)
      OBVIOUS
    <3> HIDE DEF none
    <3> QED BY <2>1, <3>1, OwnStep
  <2>3. Sleepers(kind)' = {}
    BY <1>1, <2>2
  <2> QED BY <2>2, <2>3
<1>2. CASE Sleepers(kind) # {}
  <2>1. PICK w \in Sleepers(kind) : pc' = [Idle(t) EXCEPT ![w] = "notified"]
    BY <1>2 DEF NotifyOne
  <2>2. w \in Threads /\ w # t /\ op[w] # NoOp /\ op[w].kind = kind /\ pc[w] = "blocked"
    BY <2>1 DEF Sleepers, InCall
  <2>3. /\ pc'[t] = "idle" /\ pc'[w] = "notified"
        /\ \A u \in Threads : u # t /\ u # w => pc'[u] = pc[u]
    BY <2>1, <2>2 DEF Idle, TypeOK
  <2>4. op'[t] = NoOp /\ \A u \in Threads : u # t => op'[u] = op[u]
    BY DEF TypeOK
  <2>5. Sleepers(other)' = Sleepers(other) \ {t} /\ Woken(other)' = Woken(other) \ {t}
    <3>1. InCall(other)' = InCall(other) \ {t} /\ w \notin InCall(other)
      BY <2>2, <2>4 DEF InCall
    <3>2. \A u \in InCall(other)' : u \in Threads /\ u # t /\ u # w
      BY <3>1, <2>2 DEF InCall
    <3>3. \A u \in InCall(other)' : pc'[u] = pc[u]
      BY <2>3, <3>2
    <3> QED BY <3>1, <3>3 DEF Sleepers, Woken
  <2>6. /\ Sleepers(kind)' \subseteq Sleepers(kind)
        /\ Woken(kind)' = (Woken(kind) \ {t}) \cup {w}
    BY <2>2, <2>3, <2>4 DEF Sleepers, Woken, InCall
  <2> QED BY <2>1, <2>2, <2>5, <2>6
<1> QED BY <1>1, <1>2

(* The same for a thread of another kind that goes back to sleep.          *)
LEMMA OwnSleepAgain ==
    ASSUME TypeOK, NEW t \in Threads, NEW kind, t \notin InCall(kind), SleepAgain(t)
    PROVE  /\ Sleepers(kind)' = Sleepers(kind)
           /\ Woken(kind)' = Woken(kind)
           /\ queue_' = queue_
<1>1. \A u \in InCall(kind) : u # t /\ u \in Threads
  BY DEF InCall
<1>2. InCall(kind)' = InCall(kind) /\ \A u \in InCall(kind) : pc'[u] = pc[u]
  BY <1>1 DEF SleepAgain, InCall, TypeOK
<1> QED BY <1>2 DEF SleepAgain, Sleepers, Woken

(* A spurious wakeup, an expired timeout or an unlocked read only moves    *)
(* sleeping threads to the awake ones.                                     *)
LEMMA OtherWakeups ==
    ASSUME TypeOK, NEW t \in Threads, NEW kind,
           SpuriousWakeup(t) \/ Expire(t) \/ BeginRead(t) \/ EndRead(t)
    PROVE  Sleepers(kind)' \subseteq Sleepers(kind) /\ Woken(kind) \subseteq Woken(kind)'
<1>1. CASE SpuriousWakeup(t)
  BY <1>1 DEF SpuriousWakeup, TypeOK, Sleepers, Woken, InCall
<1>2. CASE Expire(t)
  BY <1>2 DEF Expire, TypeOK, Sleepers, Woken, InCall
<1>3. CASE BeginRead(t) \/ EndRead(t)
  <2>1. op[t] = NoOp /\ op' = op
    BY <1>3, RestingThread DEF BeginRead, EndRead
  <2>2. \A u \in Threads \ {t} : pc'[u] = pc[u]
    BY <1>3 DEF BeginRead, EndRead, Idle, TypeOK
  <2> QED BY <2>1, <2>2 DEF Sleepers, Woken, InCall
<1> QED BY <1>1, <1>2, <1>3

(***************************************************************************)
(* While a pop sleeps, every element has a woken pop to take it.           *)
(***************************************************************************)
THEOREM NoPopLosesItsWakeup == Spec => []NoLostPop
<1>1. Init => NoLostPop
  BY DEF Init, NoLostPop, Sleepers, InCall
<1>2. TypeOK /\ NoLostPop /\ [Next]_vars => NoLostPop'
  <2> SUFFICES ASSUME TypeOK, NoLostPop, [Next]_vars, Sleepers("pop")' # {}
               PROVE  Len(queue_') <= Cardinality(Woken("pop")')
    BY DEF NoLostPop
  <2> DEFINE S  == Sleepers("pop")
             W  == Woken("pop")
             W1 == Woken("pop")'
  <2>0. /\ W \in SUBSET Threads /\ W1 \in SUBSET Threads
        /\ Cardinality(W) \in Nat /\ Cardinality(W1) \in Nat /\ Len(queue_) \in Nat
    <3>1. W \in SUBSET Threads /\ W1 \in SUBSET Threads
      BY DEF Woken, InCall
    <3> QED BY <3>1, WokenCount, LenProperties DEF TypeOK
  <2>1. ASSUME S' \subseteq S, W \subseteq W1, queue_' = queue_
        PROVE  Len(queue_') <= Cardinality(W1)
    <3>1. S # {} /\ Cardinality(W) <= Cardinality(W1)
      BY <2>0, <2>1, WokenCount
    <3>2. Len(queue_) <= Cardinality(W)
      BY <3>1 DEF NoLostPop
    <3> HIDE DEF S, W, W1
    <3> QED BY <2>0, <2>1, <3>1, <3>2
  <2>2. ASSUME queue_' = <<>> PROVE Len(queue_') <= Cardinality(W1)
    BY <2>0, <2>2
  <2>3. ASSUME NEW t \in Threads,
               ResumePush(t) \/ \E item \in Item, timeout \in Timeouts : Push(t, item, timeout)
        PROVE  Len(queue_') <= Cardinality(W1)
    <3>1. t \notin InCall("pop") /\ t \notin S /\ t \notin W
      BY <2>3, RestingThread DEF Push, ResumePush, InCall, Sleepers, Woken
    <3>2. CASE \E status : Fail(t, status)
      <4>1. S' = S \ {t} /\ W1 = W \ {t} /\ queue_' = queue_
        BY <3>2, OwnStep DEF Fail, Return, Idle
      <4> QED BY <2>1, <3>1, <4>1
    <3>3. CASE \E o \in PushOp : Sleep(t, o)
      <4>1. S' = S \ {t} /\ W1 = W \ {t} /\ queue_' = queue_
        BY <3>3, OwnStep DEF Sleep, PushOp
      <4> QED BY <2>1, <3>1, <4>1
    <3>4. ASSUME NEW item \in Item, PushItem(t, item)
          PROVE  Len(queue_') <= Cardinality(W1)
      <4>1. Len(queue_') = Len(queue_) + 1
        BY <3>4, AppendProperties DEF PushItem, TypeOK
      <4>2. PICK w \in S \ {t} : S' \subseteq S /\ W1 = (W \ {t}) \cup {w}
        BY <3>1, <3>4, NotifyOneEffect DEF PushItem, Return
      <4>3. w \in W1 \ W /\ W \subseteq W1 /\ S # {}
        BY <3>1, <4>2 DEF Sleepers, Woken
      <4>4. Cardinality(W) + 1 <= Cardinality(W1)
        BY <2>0, <4>3, WokenCount
      <4>5. Len(queue_) <= Cardinality(W)
        BY <4>3 DEF NoLostPop
      <4> HIDE DEF S, W, W1
      <4> QED BY <2>0, <4>1, <4>4, <4>5
    <3>5. t \in InCall("push") => op[t] \in PushOp /\ op[t].item \in Item
      BY DEF InCall, TypeOK, PushOp, PopOp
    <3>6. CASE SleepAgain(t)
      BY <2>1, <3>1, <3>6, OwnSleepAgain
    <3> QED BY <2>3, <3>2, <3>3, <3>4, <3>5, <3>6 DEF Push, ResumePush, FinishPush, PushOp
  <2>4. ASSUME NEW t \in Threads, ResumePop(t) \/ \E timeout \in Timeouts : Pop(t, timeout)
        PROVE  Len(queue_') <= Cardinality(W1)
    <3>1. t \notin Sleepers("push") /\ t \notin S
      BY <2>4 DEF Pop, ResumePop, Sleepers
    <3>2. CASE Empty /\ UNCHANGED queue_
      BY <2>2, <3>2 DEF Empty
    <3>3. CASE pc[t] = "idle" /\ Fail(t, "throw")
      <4>1. S' = S \ {t} /\ W1 = W \ {t} /\ queue_' = queue_ /\ t \notin W
        BY <3>3, OwnStep DEF Fail, Return, Idle, Woken
      <4> QED BY <2>1, <3>1, <4>1
    <3>4. CASE TakeItem(t)
      <4>1. Len(queue_') = Len(queue_) - 1
        BY <3>4, PopShortens
      <4>2. S' = S \ {t} /\ W1 = W \ {t}
        BY <3>1, <3>4, NotifyOneEffect DEF TakeItem, Return
      <4>3. S # {} /\ Cardinality(W) - 1 <= Cardinality(W1)
        BY <2>0, <4>2, WokenCount
      <4>4. Len(queue_) <= Cardinality(W)
        BY <4>3 DEF NoLostPop
      <4> HIDE DEF S, W, W1
      <4> QED BY <2>0, <4>1, <4>3, <4>4
    <3> QED BY <2>4, <3>2, <3>3, <3>4
            DEF Pop, ResumePop, FinishPop, Fail, Sleep, SleepAgain, NonEmptyOrClosed
  <2>5. ASSUME NEW t \in Threads, SpuriousWakeup(t) \/ Expire(t) \/ BeginRead(t) \/ EndRead(t)
        PROVE  Len(queue_') <= Cardinality(W1)
    <3>1. S' \subseteq S /\ W \subseteq W1
      BY <2>5, OtherWakeups
    <3>2. queue_' = queue_
      BY <2>5 DEF SpuriousWakeup, Expire, BeginRead, EndRead
    <3> QED BY <2>1, <3>1, <3>2
  <2>6. CASE Close
    BY <2>6 DEF Close, NotifyAll, Sleepers, InCall
  <2>7. CASE Clear
    BY <2>2, <2>7 DEF Clear
  <2>8. CASE UNCHANGED vars
    BY <2>1, <2>8 DEF vars, Sleepers, Woken, InCall
  <2> QED BY <2>3, <2>4, <2>5, <2>6, <2>7, <2>8, ThreadsAssumption
          DEF Next, Resume, Threads
<1> QED BY <1>1, <1>2, TypeCorrect, PTL DEF Spec

(***************************************************************************)
(* While a push sleeps, every free place has a woken push to fill it.      *)
(***************************************************************************)
THEOREM NoPushLosesItsWakeup == Spec => []NoLostPush
<1>1. Init => NoLostPush
  BY DEF Init, NoLostPush, Sleepers, InCall
<1>2. TypeOK /\ ClosedWakesAll /\ NoLostPush /\ [Next]_vars => NoLostPush'
  <2> SUFFICES ASSUME TypeOK, ClosedWakesAll, NoLostPush, [Next]_vars,
                      Sleepers("push")' # {}
               PROVE  maxSize_ - Len(queue_') <= Cardinality(Woken("push")')
    BY ConfigFixed DEF NoLostPush, config
  <2> DEFINE S  == Sleepers("push")
             W  == Woken("push")
             W1 == Woken("push")'
  <2>0. /\ W \in SUBSET Threads /\ W1 \in SUBSET Threads
        /\ Cardinality(W) \in Nat /\ Cardinality(W1) \in Nat
        /\ Len(queue_) \in Nat /\ maxSize_ \in Nat
    <3>1. W \in SUBSET Threads /\ W1 \in SUBSET Threads
      BY DEF Woken, InCall
    <3> QED BY <3>1, WokenCount, LenProperties, CapacitiesAssumption DEF TypeOK
  <2>1. ASSUME S' \subseteq S, W \subseteq W1, queue_' = queue_
        PROVE  maxSize_ - Len(queue_') <= Cardinality(W1)
    <3>1. S # {} /\ Cardinality(W) <= Cardinality(W1)
      BY <2>0, <2>1, WokenCount
    <3>2. maxSize_ - Len(queue_) <= Cardinality(W)
      BY <3>1 DEF NoLostPush
    <3> HIDE DEF S, W, W1
    <3> QED BY <2>0, <2>1, <3>1, <3>2
  <2>2. ASSUME Len(queue_) >= maxSize_, queue_' = queue_
        PROVE  maxSize_ - Len(queue_') <= Cardinality(W1)
    <3> HIDE DEF W1
    <3> QED BY <2>0, <2>2
  <2>3. ASSUME NEW t \in Threads, ResumePop(t) \/ \E timeout \in Timeouts : Pop(t, timeout)
        PROVE  maxSize_ - Len(queue_') <= Cardinality(W1)
    <3>1. t \notin InCall("push") /\ t \notin S /\ t \notin W
      BY <2>3, RestingThread DEF Pop, ResumePop, InCall, Sleepers, Woken
    <3>2. CASE \E status : Fail(t, status)
      <4>1. S' = S \ {t} /\ W1 = W \ {t} /\ queue_' = queue_
        BY <3>2, OwnStep DEF Fail, Return, Idle
      <4> QED BY <2>1, <3>1, <4>1
    <3>3. CASE \E o \in PopOp : Sleep(t, o)
      <4>1. S' = S \ {t} /\ W1 = W \ {t} /\ queue_' = queue_
        BY <3>3, OwnStep DEF Sleep, PopOp
      <4> QED BY <2>1, <3>1, <4>1
    <3>4. CASE TakeItem(t)
      <4>1. Len(queue_') = Len(queue_) - 1
        BY <3>4, PopShortens
      <4>2. PICK w \in S \ {t} : S' \subseteq S /\ W1 = (W \ {t}) \cup {w}
        BY <3>1, <3>4, NotifyOneEffect DEF TakeItem, Return
      <4>3. w \in W1 \ W /\ W \subseteq W1 /\ S # {}
        BY <3>1, <4>2 DEF Sleepers, Woken
      <4>4. Cardinality(W) + 1 <= Cardinality(W1)
        BY <2>0, <4>3, WokenCount
      <4>5. maxSize_ - Len(queue_) <= Cardinality(W)
        BY <4>3 DEF NoLostPush
      <4> HIDE DEF S, W, W1
      <4> QED BY <2>0, <4>1, <4>4, <4>5
    <3>5. t \in InCall("pop") => op[t] \in PopOp
      BY DEF InCall, TypeOK, PushOp, PopOp
    <3>6. CASE SleepAgain(t)
      BY <2>1, <3>1, <3>6, OwnSleepAgain
    <3> QED BY <2>3, <3>2, <3>3, <3>4, <3>5, <3>6 DEF Pop, ResumePop, FinishPop, PopOp
  <2>4. ASSUME NEW t \in Threads, NEW item \in Item, PushItem(t, item), pc[t] # "blocked"
        PROVE  maxSize_ - Len(queue_') <= Cardinality(W1)
    <3>1. Len(queue_') = Len(queue_) + 1
      BY <2>4, AppendProperties DEF PushItem, TypeOK
    <3>2. t \notin Sleepers("pop") /\ t \notin S
      BY <2>4 DEF Sleepers
    <3>3. S' = S \ {t} /\ W1 = W \ {t}
      BY <2>4, <3>2, NotifyOneEffect DEF PushItem, Return
    <3>4. S # {} /\ Cardinality(W) - 1 <= Cardinality(W1)
      BY <2>0, <3>3, WokenCount
    <3>5. maxSize_ - Len(queue_) <= Cardinality(W)
      BY <3>4 DEF NoLostPush
    <3> HIDE DEF S, W, W1
    <3> QED BY <2>0, <3>1, <3>4, <3>5
  <2>5. ASSUME NEW t \in Threads, NEW item \in Item, NEW timeout \in Timeouts,
               Push(t, item, timeout)
        PROVE  maxSize_ - Len(queue_') <= Cardinality(W1)
    <3>1. pc[t] = "idle" /\ t \notin S /\ t \notin W
      BY <2>5 DEF Push, Sleepers, Woken
    <3>2. CASE \E status : Fail(t, status)
      <4>1. S' = S \ {t} /\ W1 = W \ {t} /\ queue_' = queue_
        BY <3>2, OwnStep DEF Fail, Return, Idle
      <4> QED BY <2>1, <3>1, <4>1
    <3>3. CASE Full /\ UNCHANGED queue_
      BY <2>2, <3>3 DEF Full
    <3> QED BY <2>4, <2>5, <3>1, <3>2, <3>3 DEF Push, FinishPush, Sleep
  <2>6. ASSUME NEW t \in Threads, ResumePush(t)
        PROVE  maxSize_ - Len(queue_') <= Cardinality(W1)
    <3>1. t \notin S /\ op[t].item \in Item
      BY <2>6 DEF ResumePush, InCall, Sleepers, TypeOK, PushOp, PopOp
    <3>2. CASE closed_ /\ Fail(t, "false")
      <4>1. S' = S \ {t}
        BY <3>2, OwnStep DEF Fail, Return, Idle
      <4> QED BY <3>2, <4>1 DEF ClosedWakesAll, Sleepers, InCall
    <3>3. CASE Len(queue_) >= maxSize_ /\ UNCHANGED queue_
      BY <2>2, <3>3
    <3>4. ~NotFullOrClosed => Len(queue_) >= maxSize_
      BY <2>0 DEF NotFullOrClosed
    <3>5. pc[t] # "blocked"
      BY <2>6 DEF ResumePush
    <3> QED BY <2>4, <2>6, <3>1, <3>2, <3>3, <3>4, <3>5
            DEF ResumePush, FinishPush, SleepAgain, Fail
  <2>7. ASSUME NEW t \in Threads, SpuriousWakeup(t) \/ Expire(t) \/ BeginRead(t) \/ EndRead(t)
        PROVE  maxSize_ - Len(queue_') <= Cardinality(W1)
    <3>1. S' \subseteq S /\ W \subseteq W1
      BY <2>7, OtherWakeups
    <3>2. queue_' = queue_
      BY <2>7 DEF SpuriousWakeup, Expire, BeginRead, EndRead
    <3> QED BY <2>1, <3>1, <3>2
  <2>8. CASE Close \/ Clear
    BY <2>8 DEF Close, Clear, NotifyAll, Sleepers, InCall
  <2>9. CASE UNCHANGED vars
    BY <2>1, <2>9 DEF vars, Sleepers, Woken, InCall
  <2> QED BY <2>3, <2>5, <2>6, <2>7, <2>8, <2>9, ThreadsAssumption
          DEF Next, Resume, Threads
<1> QED BY <1>1, <1>2, TypeCorrect, CloseWakesEverybody, PTL DEF Spec

-----------------------------------------------------------------------------
(***************************************************************************)
(*               The queue implements the bounded buffer                   *)
(***************************************************************************)

(* The buffer's pending calls of the other threads are the queue's flag:   *)
(* in a mode for one thread of a kind a caller that finds the flag up has  *)
(* another in its way, and one that finds it down has not.                 *)
LEMMA FlagMeansInTheWay ==
    ASSUME TypeOK, FlagsMatchWaiters, NEW t \in Threads, NEW o, op[t] = NoOp
    PROVE  /\ o.kind = "push" =>
                (Buffer!InTheWay(t, o) <=> SingleProducer /\ producerActive_)
           /\ o.kind = "pop" =>
                (Buffer!InTheWay(t, o) <=> SingleConsumer /\ consumerActive_)
<1>1. ASSUME NEW kind, o.kind = kind
      PROVE  (InCall(kind) # {}) <=>
                \E u \in Threads \ {t} : op[u] # NoOp /\ op[u].kind = o.kind
  BY <1>1 DEF InCall
<1>2. /\ AsPair(mode_).oneProducer <=> SingleProducer
      /\ AsPair(mode_).oneConsumer <=> SingleConsumer
  BY DEF AsPair, SingleProducer, SingleConsumer
<1>3. CASE o.kind = "push"
  <2>1. Buffer!InTheWay(t, o) <=> SingleProducer /\ InCall("push") # {}
    BY <1>1, <1>2, <1>3 DEF Buffer!InTheWay, Buffer!Threads, Threads
  <2> QED BY <1>3, <2>1 DEF FlagsMatchWaiters, TypeOK
<1>4. CASE o.kind = "pop"
  <2>1. Buffer!InTheWay(t, o) <=> SingleConsumer /\ InCall("pop") # {}
    BY <1>1, <1>2, <1>4 DEF Buffer!InTheWay, Buffer!Threads, Threads
  <2> QED BY <1>4, <2>1 DEF FlagsMatchWaiters, TypeOK
<1> QED BY <1>3, <1>4

(* The ways a call ends are those of the buffer.                           *)
LEMMA EndsMatch ==
    ASSUME NEW t \in Threads
    PROVE  /\ \A status : Fail(t, status) =>
                 Buffer!Done(t, status, NoItem) /\ UNCHANGED queue_
           /\ \A item : PushItem(t, item) =>
                 queue_' = Append(queue_, item) /\ Buffer!Done(t, "true", NoItem)
           /\ TakeItem(t) =>
                 \E i \in Buffer!NextOut : /\ queue_' = Buffer!Without(queue_, i)
                                           /\ Buffer!Done(t, "true", queue_[i])
<1>1. Buffer!NextOut = Front
  BY DEF Buffer!NextOut, Front
<1>2. \A i : Buffer!Without(queue_, i) = Without(queue_, i)
  BY DEF Buffer!Without, Without
<1> QED BY <1>1, <1>2 DEF Fail, PushItem, TakeItem, Return, Buffer!Done

(* A push is a call of the bounded buffer.                                 *)
LEMMA PushImplements ==
    ASSUME TypeOK, FlagsMatchWaiters, NEW t \in Producers, NEW item \in Item,
           NEW timeout \in Timeouts, Push(t, item, timeout)
    PROVE  Buffer!Call(t)
<1> DEFINE o == [kind |-> "push", item |-> item, timeout |-> timeout]
<1>1. /\ t \in Threads /\ op[t] = NoOp
      /\ o \in Buffer!PushOp
      /\ o.kind = "push" /\ o.item = item /\ o.timeout = timeout
  BY RestingThread DEF Push, Threads, Buffer!PushOp
<1>2. Buffer!InTheWay(t, o) <=> SingleProducer /\ producerActive_
  BY <1>1, FlagMeansInTheWay
<1>3. UNCHANGED <<config, closed_>> /\ AsPair(mode_)' = AsPair(mode_)
  BY DEF Push, config, AsPair
<1>4. Buffer!Full <=> Full
  BY DEF Buffer!Full, Full
<1>5. ASSUME closed_ /\ Fail(t, "false")
      PROVE  Buffer!Refuse(t, o)
  BY <1>1, <1>5, EndsMatch DEF Buffer!Refuse
<1>6. ASSUME SingleProducer /\ producerActive_ /\ Fail(t, "throw")
      PROVE  Buffer!Reject(t, o)
  BY <1>1, <1>2, <1>6, EndsMatch DEF Buffer!Reject
<1>7. ASSUME /\ ~closed_ /\ ~(SingleProducer /\ producerActive_)
             /\ ~Full /\ PushItem(t, item)
      PROVE  Buffer!Accept(t, o)
  BY <1>1, <1>2, <1>4, <1>7, EndsMatch DEF Buffer!Accept, Buffer!MayProceed
<1>8. ASSUME /\ ~(SingleProducer /\ producerActive_)
             /\ Full /\ timeout = "nowait" /\ Fail(t, "false")
      PROVE  Buffer!Refuse(t, o)
  BY <1>1, <1>2, <1>4, <1>8, EndsMatch DEF Buffer!Refuse, Buffer!MayProceed
<1>9. ASSUME /\ ~closed_ /\ ~(SingleProducer /\ producerActive_)
             /\ Full /\ timeout # "nowait" /\ Sleep(t, o)
      PROVE  Buffer!Suspend(t, o)
  BY <1>1, <1>2, <1>4, <1>9
     DEF Buffer!Suspend, Sleep, NoResult, Buffer!NoResult
<1> HIDE DEF o
<1>10. \/ Buffer!Refuse(t, o) \/ Buffer!Reject(t, o) \/ Buffer!Accept(t, o)
       \/ Buffer!Suspend(t, o)
  BY <1>5, <1>6, <1>7, <1>8, <1>9 DEF Push, FinishPush, o
<1>11. Buffer!Act(t, o)
  BY <1>3, <1>10 DEF Buffer!Act, config
<1> QED BY <1>1, <1>11 DEF Buffer!Call

(* So is a pop.                                                            *)
LEMMA PopImplements ==
    ASSUME TypeOK, FlagsMatchWaiters, NEW t \in Consumers, NEW timeout \in Timeouts,
           Pop(t, timeout)
    PROVE  Buffer!Call(t)
<1> DEFINE o == [kind |-> "pop", item |-> NoItem, timeout |-> timeout]
<1>1. /\ t \in Threads /\ op[t] = NoOp
      /\ o \in Buffer!PopOp
      /\ o.kind = "pop" /\ o.timeout = timeout
  BY RestingThread DEF Pop, Threads, Buffer!PopOp
<1>2. Buffer!InTheWay(t, o) <=> SingleConsumer /\ consumerActive_
  BY <1>1, FlagMeansInTheWay
<1>3. UNCHANGED <<config, closed_>> /\ AsPair(mode_)' = AsPair(mode_)
  BY DEF Pop, config, AsPair
<1>4. ASSUME closed_ /\ Empty /\ Fail(t, "false")
      PROVE  Buffer!Refuse(t, o)
  BY <1>1, <1>4, EndsMatch DEF Buffer!Refuse, Empty
<1>5. ASSUME SingleConsumer /\ consumerActive_ /\ Fail(t, "throw")
      PROVE  Buffer!Reject(t, o)
  BY <1>1, <1>2, <1>5, EndsMatch DEF Buffer!Reject
<1>6. ASSUME ~(SingleConsumer /\ consumerActive_) /\ TakeItem(t)
      PROVE  Buffer!Deliver(t, o)
  BY <1>1, <1>2, <1>6, EndsMatch DEF Buffer!Deliver, Buffer!MayProceed
<1>7. ASSUME /\ ~(SingleConsumer /\ consumerActive_)
             /\ Empty /\ timeout = "nowait" /\ Fail(t, "false")
      PROVE  Buffer!Refuse(t, o)
  BY <1>1, <1>2, <1>7, EndsMatch DEF Buffer!Refuse, Buffer!MayProceed, Empty
<1>8. ASSUME /\ ~closed_ /\ ~(SingleConsumer /\ consumerActive_)
             /\ Empty /\ timeout # "nowait" /\ Sleep(t, o)
      PROVE  Buffer!Suspend(t, o)
  BY <1>1, <1>2, <1>8
     DEF Buffer!Suspend, Sleep, Empty, NoResult, Buffer!NoResult
<1> HIDE DEF o
<1>9. \/ Buffer!Refuse(t, o) \/ Buffer!Reject(t, o) \/ Buffer!Deliver(t, o)
      \/ Buffer!Suspend(t, o)
  BY <1>4, <1>5, <1>6, <1>7, <1>8 DEF Pop, FinishPop, o
<1>10. Buffer!Act(t, o)
  BY <1>3, <1>9 DEF Buffer!Act, config
<1> QED BY <1>1, <1>10 DEF Buffer!Call

(* A push that wakes up goes on in the buffer, or does nothing there.      *)
LEMMA ResumePushImplements ==
    ASSUME TypeOK, NEW t \in Threads, ResumePush(t)
    PROVE  Buffer!Call(t) \/ UNCHANGED Buffer!vars
<1>1. /\ op[t] # NoOp /\ op[t].kind = "push" /\ op[t] \in PushOp
      /\ Len(queue_) \in Nat /\ maxSize_ \in Nat /\ maxSize_ > 0
  <2>1. op[t] # NoOp /\ op[t].kind = "push"
    BY DEF ResumePush, InCall
  <2>2. op[t] \in PushOp
    BY <2>1 DEF TypeOK, PopOp
  <2> QED BY <2>1, <2>2, LenProperties, CapacitiesAssumption DEF TypeOK
<1>2. UNCHANGED <<config, closed_>> /\ AsPair(mode_)' = AsPair(mode_)
  BY DEF ResumePush, config, AsPair
<1>3. CASE SleepAgain(t)
  BY <1>2, <1>3 DEF SleepAgain, Buffer!vars, config
<1>4. ASSUME closed_ /\ Fail(t, "false")
      PROVE  Buffer!Refuse(t, op[t])
  BY <1>1, <1>4, EndsMatch DEF Buffer!Refuse
<1>5. ASSUME /\ ~NotFullOrClosed /\ op[t].timeout = "timed" /\ Fail(t, "false")
      PROVE  Buffer!Refuse(t, op[t])
  <2>1. Buffer!Full
    BY <1>1, <1>5 DEF NotFullOrClosed, Buffer!Full
  <2> QED BY <1>1, <1>5, <2>1, EndsMatch DEF Buffer!Refuse, Buffer!MayProceed
<1>6. ASSUME ~closed_ /\ NotFullOrClosed /\ PushItem(t, op[t].item)
      PROVE  Buffer!Accept(t, op[t])
  <2>1. ~Buffer!Full
    BY <1>1, <1>6 DEF NotFullOrClosed, Buffer!Full
  <2> QED BY <1>1, <1>6, <2>1, EndsMatch DEF Buffer!Accept, Buffer!MayProceed
<1>7. \/ SleepAgain(t)
      \/ Buffer!Refuse(t, op[t]) \/ Buffer!Accept(t, op[t])
  <2>1. pc[t] = "expired" => op[t].timeout = "timed"
    BY DEF TypeOK
  <2> QED BY <1>4, <1>5, <1>6, <2>1 DEF ResumePush, FinishPush
<1>8. Buffer!Refuse(t, op[t]) \/ Buffer!Accept(t, op[t]) => Buffer!Act(t, op[t])
  BY <1>2 DEF Buffer!Act, config
<1> QED BY <1>1, <1>3, <1>7, <1>8 DEF Buffer!Call

(* So does a pop that wakes up.                                            *)
LEMMA ResumePopImplements ==
    ASSUME TypeOK, NEW t \in Threads, ResumePop(t)
    PROVE  Buffer!Call(t) \/ UNCHANGED Buffer!vars
<1>1. op[t] # NoOp /\ op[t].kind = "pop"
  BY DEF ResumePop, InCall
<1>2. UNCHANGED <<config, closed_>> /\ AsPair(mode_)' = AsPair(mode_)
  BY DEF ResumePop, config, AsPair
<1>3. CASE SleepAgain(t)
  BY <1>2, <1>3 DEF SleepAgain, Buffer!vars, config
<1>4. ASSUME /\ Empty /\ (closed_ \/ op[t].timeout = "timed")
             /\ Fail(t, "false")
      PROVE  Buffer!Refuse(t, op[t])
  BY <1>1, <1>4, EndsMatch DEF Buffer!Refuse, Buffer!MayProceed, Empty
<1>5. ASSUME TakeItem(t)
      PROVE  Buffer!Deliver(t, op[t])
  BY <1>1, <1>5, EndsMatch DEF Buffer!Deliver, Buffer!MayProceed
<1>6. SleepAgain(t) \/ Buffer!Refuse(t, op[t]) \/ Buffer!Deliver(t, op[t])
  <2>1. pc[t] = "expired" => op[t].timeout = "timed"
    BY DEF TypeOK
  <2> QED BY <1>4, <1>5, <2>1 DEF ResumePop, FinishPop, NonEmptyOrClosed
<1>7. Buffer!Refuse(t, op[t]) \/ Buffer!Deliver(t, op[t]) => Buffer!Act(t, op[t])
  BY <1>2 DEF Buffer!Act, config
<1> QED BY <1>1, <1>3, <1>6, <1>7 DEF Buffer!Call

(***************************************************************************)
(* Every behaviour of the queue is one of the linearizable bounded buffer. *)
(***************************************************************************)
THEOREM ImplementsBuffer == Spec => BufferSpec
<1>1. Init => Buffer!Init
  BY DEF Init, Buffer!Init, Threads, Buffer!Threads, NoResult, Buffer!NoResult
<1>2. TypeOK /\ FlagsMatchWaiters /\ [Next]_vars => [Buffer!Next]_(Buffer!vars)
  <2> SUFFICES ASSUME TypeOK, FlagsMatchWaiters, [Next]_vars
               PROVE  Buffer!Next \/ UNCHANGED Buffer!vars
    OBVIOUS
  <2>1. ASSUME NEW t \in Threads, Buffer!Call(t) PROVE Buffer!Next
    BY <2>1 DEF Buffer!Next, Buffer!Threads, Threads
  <2>2. ASSUME NEW t \in Producers, NEW item \in Item, NEW timeout \in Timeouts,
               Push(t, item, timeout)
        PROVE  Buffer!Next
    BY <2>1, <2>2, PushImplements DEF Threads
  <2>3. ASSUME NEW t \in Consumers, NEW timeout \in Timeouts, Pop(t, timeout)
        PROVE  Buffer!Next
    BY <2>1, <2>3, PopImplements DEF Threads
  <2>4. ASSUME NEW t \in Threads, Resume(t)
        PROVE  Buffer!Next \/ UNCHANGED Buffer!vars
    BY <2>1, <2>4, ResumePushImplements, ResumePopImplements DEF Resume
  <2>5. ASSUME NEW t, SpuriousWakeup(t) \/ Expire(t) \/ BeginRead(t) \/ EndRead(t)
        PROVE  UNCHANGED Buffer!vars
    BY <2>5 DEF SpuriousWakeup, Expire, BeginRead, EndRead, Buffer!vars, config, AsPair
  <2>6. CASE Close
    BY <2>6 DEF Close, Buffer!Next, Buffer!Close, config, AsPair
  <2>7. CASE Clear
    BY <2>7 DEF Clear, Buffer!Next, Buffer!Clear, config, AsPair
  <2>8. CASE UNCHANGED vars
    BY <2>8 DEF vars, Buffer!vars, AsPair
  <2> QED BY <2>2, <2>3, <2>4, <2>5, <2>6, <2>7, <2>8 DEF Next
<1> QED BY <1>1, <1>2, TypeCorrect, FlagsAreRight, PTL DEF Spec, BufferSpec, Buffer!Spec
=============================================================================
