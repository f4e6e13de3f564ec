------------------------ MODULE OutputWorkersProofs ------------------------
(***************************************************************************)
(* Proofs about OutputWorkers: what holds of the output threads whatever   *)
(* the program around them does, for any submitters and blocks.            *)
(***************************************************************************)
EXTENDS OutputWorkers, TLAPS, FiniteSetTheorems, SequenceTheorems

-----------------------------------------------------------------------------
(***************************************************************************)
(*                          Type correctness                               *)
(***************************************************************************)

(* The threads are named once each in the order in which they are started. *)
LEMMA ThreadOrderType == ThreadOrder \in Seq(Workers) /\ ThreadOrder # <<>>
BY DEF ThreadOrder, Workers

(* The three threads, in the order in which they are started.              *)
LEMMA ThreadOrderIs ==
    /\ \A j, k \in 1 .. Len(ThreadOrder) : ThreadOrder[j] = ThreadOrder[k] => j = k
    /\ \A w \in Workers : \E k \in 1 .. Len(ThreadOrder) : w = ThreadOrder[k]
<1>1. Len(ThreadOrder) = 3
  BY DEF ThreadOrder
<1>2. ThreadOrder[1] = "log" /\ ThreadOrder[2] = "file1" /\ ThreadOrder[3] = "file2"
  BY DEF ThreadOrder
<1>3. 1 .. 3 = {1, 2, 3}
  OBVIOUS
<1> QED BY <1>1, <1>2, <1>3 DEF Workers

(* A block can be anything; submitted is a sequence of those pushed.       *)
SubmittedOK == submitted \in Seq({submitted[i] : i \in 1 .. Len(submitted)})

(* The part of the types that a worker with a block can disturb.           *)
OutputsOK ==
    /\ log_queue \in Seq(1 .. Len(submitted)) /\ file_queue \in Seq(1 .. Len(submitted))
    /\ wpc \in [Workers -> WorkerState]
    /\ hand \in [Workers -> 0 .. Len(submitted)]
    /\ \A w \in Workers : hand[w] # 0 <=> wpc[w] = "writing"
    /\ logged \in Seq(1 .. Len(submitted))
    /\ files \subseteq [block : 1 .. Len(submitted), name : FileWorkers \X Nat]
    /\ unwritten \subseteq 1 .. Len(submitted)
    /\ file_counter \in Nat

TypesOK == WorkersTypeOK /\ SubmittedOK

(* A sequence whose elements are those of a set is one of its own elements.*)
LEMMA OwnElements ==
    ASSUME NEW S, NEW s \in Seq(S)
    PROVE  s \in Seq({s[i] : i \in 1 .. Len(s)})
<1> DEFINE T == {s[i] : i \in 1 .. Len(s)}
<1>1. Len(s) \in Nat /\ s \in [1 .. Len(s) -> S]
  BY LenProperties
<1>2. s \in [1 .. Len(s) -> T]
  BY <1>1
<1> HIDE DEF T
<1> QED BY <1>1, <1>2, SeqDef

(* A push makes submitted one block longer and keeps what was there.       *)
LEMMA PushGrows ==
    ASSUME SubmittedOK, NEW block, submitted' = Append(submitted, block)
    PROVE  /\ SubmittedOK'
           /\ Len(submitted) \in Nat
           /\ Len(submitted') = Len(submitted) + 1
           /\ \A i \in 1 .. Len(submitted) : submitted'[i] = submitted[i]
<1> DEFINE S == {submitted[i] : i \in 1 .. Len(submitted)} \cup {block}
<1>1. submitted \in Seq(S)
  BY SeqMonotonic DEF SubmittedOK
<1>2. /\ Len(submitted) \in Nat /\ submitted' \in Seq(S)
      /\ Len(submitted') = Len(submitted) + 1
      /\ \A i \in 1 .. Len(submitted) : submitted'[i] = submitted[i]
  <2> HIDE DEF S
  <2> block \in S
    BY DEF S
  <2> QED BY <1>1, AppendProperties, LenProperties
<1>3. SubmittedOK'
  <2> HIDE DEF S
  <2> QED BY <1>2, OwnElements DEF SubmittedOK
<1> QED BY <1>2, <1>3

(* A step that wakes, starts, joins or stops workers keeps the types.      *)
LEMMA WpcType ==
    ASSUME TypesOK, UNCHANGED <<queues, hand, outputs>>,
           should_terminate' \in BOOLEAN, unnotified' \subseteq Submitters,
           wpc' \in [Workers -> WorkerState],
           \A w \in Workers : wpc'[w] = "writing" <=> wpc[w] = "writing"
    PROVE  TypesOK'
BY DEF TypesOK, WorkersTypeOK, SubmittedOK, queues, outputs

(* Waking keeps the states of threads.                                     *)
LEMMA WakeAllType ==
    ASSUME TypesOK
    PROVE  /\ WakeAll \in [Workers -> WorkerState]
           /\ \A w \in Workers : WakeAll[w] = "writing" <=> wpc[w] = "writing"
           /\ \A w \in Workers : WakeAll[w] # "asleep"
           /\ \A w \in Workers : WakeAll[w] = "holding" <=> wpc[w] = "holding"
BY DEF TypesOK, WorkersTypeOK, WakeAll, WorkerState

(* A notification starts and ends no worker.                               *)
LEMMA WakeAllSame ==
    ASSUME TypesOK, wpc' = WakeAll
    PROVE  \A w \in Workers : /\ wpc'[w] = "none" <=> wpc[w] = "none"
                              /\ wpc'[w] = "exited" <=> wpc[w] = "exited"
BY DEF WakeAll

(* What each kind of step does to the types.                               *)
LEMMA SubmitType ==
    ASSUME TypesOK, NEW s \in Submitters, NEW block, Submit(s, block)
    PROVE  TypesOK'
<1> DEFINE n == Len(submitted)
<1>1. SubmittedOK' /\ n \in Nat /\ Len(submitted') = n + 1
  BY PushGrows DEF Submit, TypesOK
<1>2. /\ log_queue \in Seq(1 .. n + 1) /\ file_queue \in Seq(1 .. n + 1)
      /\ logged \in Seq(1 .. n + 1)
  BY <1>1, SeqMonotonic, 1 .. n \subseteq 1 .. n + 1 DEF TypesOK, WorkersTypeOK
<1>3. log_queue' \in Seq(1 .. n + 1) /\ file_queue' \in Seq(1 .. n + 1)
  BY <1>1, <1>2, AppendProperties, n + 1 \in 1 .. n + 1 DEF Submit
<1> QED BY <1>1, <1>2, <1>3 DEF Submit, TypesOK, WorkersTypeOK, outputs

(* A step that only writes.                                                *)
LEMMA SameBlocksType ==
    ASSUME TypesOK, OutputsOK', UNCHANGED <<submitted, should_terminate, unnotified>>
    PROVE  TypesOK'
BY DEF TypesOK, WorkersTypeOK, SubmittedOK, OutputsOK

(* A thread takes the first block of its queue.                            *)
LEMMA TakeType ==
    ASSUME TypesOK, NEW w \in Workers, Take(w)
    PROVE  TypesOK'
<1> DEFINE n == Len(submitted)
<1>1. QueueOf(w) \in Seq(1 .. n) /\ QueueOf(w) # <<>>
  BY DEF Take, QueueOf, TypesOK, WorkersTypeOK
<1>2. Head(QueueOf(w)) \in 1 .. n /\ Tail(QueueOf(w)) \in Seq(1 .. n)
  BY <1>1, HeadTailProperties
<1>3. n \in Nat
  BY LenProperties DEF TypesOK, SubmittedOK
<1>4. Head(QueueOf(w)) \in 0 .. n /\ Head(QueueOf(w)) # 0
  BY <1>2, <1>3
<1>5. log_queue' \in Seq(1 .. n) /\ file_queue' \in Seq(1 .. n)
  BY <1>2 DEF Take, QueueOf, TypesOK, WorkersTypeOK
<1>6. hand' \in [Workers -> 0 .. n] /\ wpc' \in [Workers -> WorkerState]
  BY <1>4 DEF Take, TypesOK, WorkersTypeOK, WorkerState
<1>7. \A v \in Workers : hand'[v] # 0 <=> wpc'[v] = "writing"
  BY <1>4 DEF Take, TypesOK, WorkersTypeOK
<1>8. UNCHANGED <<submitted, should_terminate, unnotified, outputs>>
  BY DEF Take
<1> QED BY <1>5, <1>6, <1>7, <1>8, SameBlocksType DEF TypesOK, WorkersTypeOK, OutputsOK, outputs

(* The console thread writes.                                              *)
LEMMA WriteLogType ==
    ASSUME TypesOK, NEW w \in Workers, WriteLog(w)
    PROVE  TypesOK'
<1> DEFINE n == Len(submitted)
<1>1. n \in Nat /\ hand[w] \in 1 .. n
  BY LenProperties DEF TypesOK, SubmittedOK, WorkersTypeOK, WriteLog
<1>2. logged' \in Seq(1 .. n)
  BY <1>1, AppendProperties DEF WriteLog, TypesOK, WorkersTypeOK
<1>3. hand' \in [Workers -> 0 .. n] /\ wpc' \in [Workers -> WorkerState]
  BY <1>1 DEF WriteLog, TypesOK, WorkersTypeOK, WorkerState
<1>4. \A v \in Workers : hand'[v] # 0 <=> wpc'[v] = "writing"
  BY DEF WriteLog, TypesOK, WorkersTypeOK
<1>5. UNCHANGED <<queues, should_terminate, unnotified, files, unwritten, file_counter>>
  BY DEF WriteLog
<1> QED BY <1>2, <1>3, <1>4, <1>5, SameBlocksType DEF TypesOK, WorkersTypeOK, OutputsOK, queues

(* A file thread writes, or fails to open its file.                        *)
LEMMA WriteFileType ==
    ASSUME TypesOK, NEW w \in Workers, WriteFile(w)
    PROVE  TypesOK'
<1> DEFINE n == Len(submitted)
<1>1. n \in Nat /\ hand[w] \in 1 .. n
  BY LenProperties DEF TypesOK, SubmittedOK, WorkersTypeOK, WriteFile
<1>2. [block |-> hand[w], name |-> FileName(w)] \in [block : 1 .. n, name : FileWorkers \X Nat]
  BY <1>1 DEF WriteFile, FileName, TypesOK, WorkersTypeOK
<1>3. /\ files' \subseteq [block : 1 .. n, name : FileWorkers \X Nat]
      /\ unwritten' \subseteq 1 .. n
      /\ file_counter' \in Nat
  <2>1. /\ files \subseteq [block : 1 .. n, name : FileWorkers \X Nat]
        /\ unwritten \subseteq 1 .. n
        /\ file_counter \in Nat
    BY DEF TypesOK, WorkersTypeOK
  <2>2. /\ files' \subseteq files \cup {[block |-> hand[w], name |-> FileName(w)]}
        /\ unwritten' \subseteq unwritten \cup {hand[w]}
        /\ file_counter' = file_counter + 1
    BY DEF WriteFile
  <2> QED BY <1>1, <1>2, <2>1, <2>2
<1>4. hand' \in [Workers -> 0 .. n] /\ wpc' \in [Workers -> WorkerState]
  BY <1>1 DEF WriteFile, TypesOK, WorkersTypeOK, WorkerState
<1>5. \A v \in Workers : hand'[v] # 0 <=> wpc'[v] = "writing"
  BY DEF WriteFile, TypesOK, WorkersTypeOK
<1>6. UNCHANGED <<queues, should_terminate, unnotified, logged>>
  BY DEF WriteFile
<1> QED BY <1>3, <1>4, <1>5, <1>6, SameBlocksType DEF TypesOK, WorkersTypeOK, OutputsOK, queues

(* The steps that only move a worker from one place to another.            *)
Moves(w) ==
    \/ StartThread(w) \/ Join(w) \/ LeaveLoop(w) \/ DecideToSleep(w)
    \/ FallAsleep(w) \/ SpuriousWakeup(w)

(* A thread moves on without a block in its hand.                          *)
LEMMA MovesType ==
    ASSUME TypesOK, NEW w \in Workers, Moves(w)
    PROVE  TypesOK'
<1>1. /\ wpc' \in [Workers -> WorkerState]
      /\ \A v \in Workers : wpc'[v] = "writing" <=> wpc[v] = "writing"
  BY DEF TypesOK, WorkersTypeOK, WorkerState, Moves, StartThread, Join, LeaveLoop,
         DecideToSleep, FallAsleep, SpuriousWakeup
<1>2. UNCHANGED <<queues, should_terminate, unnotified, hand, outputs>>
  BY DEF Moves, StartThread, Join, LeaveLoop, DecideToSleep, FallAsleep, SpuriousWakeup
<1> QED BY <1>1, <1>2, WpcType DEF TypesOK, WorkersTypeOK

(***************************************************************************)
(* Every step of the workers or of the program around them is one of these;*)
(* the proofs below go through them.                                       *)
(***************************************************************************)
LEMMA WorkersSteps ==
    ASSUME [WorkersNext]_workerVars
    PROVE  \/ \E s \in Submitters : NotifyAll(s)
           \/ \E s \in Submitters : \E block : Submit(s, block)
           \/ \E b \in BOOLEAN : SetTerminate(b)
           \/ NotifyStop
           \/ \E w \in Workers : Moves(w)
           \/ \E w \in Workers : Take(w)
           \/ \E w \in Workers : WriteLog(w)
           \/ \E w \in Workers : WriteFile(w)
           \/ UNCHANGED workerVars
BY DEF WorkersNext, WorkerStep, Moves

(* The types hold before any thread runs.                                  *)
LEMMA TypesInit == WorkersInit => TypesOK
<1> SUFFICES ASSUME WorkersInit PROVE TypesOK
  OBVIOUS
<1>1. \A S : <<>> \in Seq(S) /\ Len(<<>>) = 0
  BY EmptySeq
<1>2. SubmittedOK
  BY <1>1 DEF WorkersInit, SubmittedOK
<1>3. Len(submitted) = 0
  BY <1>1 DEF WorkersInit
<1>4. /\ log_queue \in Seq(1 .. Len(submitted)) /\ file_queue \in Seq(1 .. Len(submitted))
      /\ logged \in Seq(1 .. Len(submitted))
  BY <1>1 DEF WorkersInit
<1>5. hand \in [Workers -> 0 .. Len(submitted)]
  BY <1>3 DEF WorkersInit
<1> QED BY <1>2, <1>4, <1>5 DEF WorkersInit, TypesOK, WorkersTypeOK, WorkerState

(* Every step keeps the types.                                             *)
LEMMA TypesStep == TypesOK /\ [WorkersNext]_workerVars => TypesOK'
<1> SUFFICES ASSUME TypesOK, [WorkersNext]_workerVars PROVE TypesOK'
  OBVIOUS
<1>1. ASSUME NEW s \in Submitters, NotifyAll(s) PROVE TypesOK'
  BY <1>1, WakeAllType, WpcType DEF NotifyAll, TypesOK, WorkersTypeOK
<1>2. ASSUME NEW b \in BOOLEAN, SetTerminate(b) PROVE TypesOK'
  BY <1>2, WpcType DEF SetTerminate, TypesOK, WorkersTypeOK
<1>3. CASE NotifyStop
  BY <1>3, WakeAllType, WpcType DEF NotifyStop, TypesOK, WorkersTypeOK
<1>4. CASE UNCHANGED workerVars
  BY <1>4 DEF workerVars, TypesOK, WorkersTypeOK, SubmittedOK
<1> QED BY <1>1, <1>2, <1>3, <1>4, WorkersSteps, SubmitType, MovesType, TakeType,
           WriteLogType, WriteFileType

(* The types are an invariant.                                             *)
LEMMA TypesInvariant == WorkersSpec => []TypesOK
BY TypesInit, TypesStep, PTL DEF WorkersSpec

(***************************************************************************)
(* The queues, the hands and the outputs hold numbers of pushed blocks and *)
(* nothing else, and a worker has a block exactly while it writes, in every*)
(* program that uses the threads.                                          *)
(***************************************************************************)
THEOREM WorkersTypeCorrect == WorkersSpec => []WorkersTypeOK
<1>1. TypesOK => WorkersTypeOK
  BY DEF TypesOK
<1> QED BY <1>1, TypesInvariant, PTL

-----------------------------------------------------------------------------
(***************************************************************************)
(*                             The console                                 *)
(***************************************************************************)

UpTo(n) == [i \in 1 .. n |-> i]

(* The numbers from 1 to n, and the next.                                  *)
LEMMA UpToGrows ==
    ASSUME NEW n \in Nat
    PROVE  UpTo(n) \in Seq(Nat) /\ Append(UpTo(n), n + 1) = UpTo(n + 1)
<1>1. UpTo(n) \in Seq(Nat) /\ Len(UpTo(n)) = n
  BY DEF UpTo
<1>2. UpTo(n + 1) \in Seq(Nat) /\ Len(UpTo(n + 1)) = n + 1
  BY DEF UpTo
<1>3. n + 1 \in Nat
  OBVIOUS
<1>4. /\ Append(UpTo(n), n + 1) \in Seq(Nat)
      /\ Len(Append(UpTo(n), n + 1)) = n + 1
      /\ \A i \in 1 .. n : Append(UpTo(n), n + 1)[i] = UpTo(n)[i]
      /\ Append(UpTo(n), n + 1)[n + 1] = n + 1
  BY <1>1, <1>3, AppendProperties
<1>5. \A i \in 1 .. n + 1 : Append(UpTo(n), n + 1)[i] = UpTo(n + 1)[i]
  BY <1>4 DEF UpTo
<1> QED BY <1>1, <1>2, <1>4, <1>5, SeqEqual

(* The blocks on their way to the console: printed, in hand, queued.       *)
ConsolePath == logged \o InHand("log") \o log_queue

(* What is on its way to the console are numbers of blocks.                *)
LEMMA ConsoleTypes ==
    ASSUME TypesOK
    PROVE  /\ logged \in Seq(Nat) /\ InHand("log") \in Seq(Nat) /\ log_queue \in Seq(Nat)
           /\ Len(submitted) \in Nat
           /\ hand["log"] \in Nat
<1>1. Len(submitted) \in Nat
  BY LenProperties DEF TypesOK, SubmittedOK
<1>2. 1 .. Len(submitted) \subseteq Nat /\ hand["log"] \in Nat
  BY <1>1 DEF TypesOK, WorkersTypeOK, Workers
<1>3. <<>> \in Seq(Nat) /\ <<hand["log"]>> \in Seq(Nat)
  BY <1>2, EmptySeq
<1>4. InHand("log") \in Seq(Nat)
  BY <1>3 DEF InHand
<1> QED BY <1>1, <1>2, <1>4, SeqMonotonic DEF TypesOK, WorkersTypeOK

(* Another worker's step, or none, leaves the console's path alone.        *)
LEMMA ConsoleUntouched ==
    ASSUME LoggedInOrder, Len(submitted') = Len(submitted),
           logged' = logged, log_queue' = log_queue, hand'["log"] = hand["log"]
    PROVE  LoggedInOrder'
BY DEF LoggedInOrder, InHand

(* A block pushed goes to the end of the way to the console.               *)
LEMMA SubmitLogged ==
    ASSUME TypesOK, LoggedInOrder, NEW s \in Submitters, NEW block, Submit(s, block)
    PROVE  LoggedInOrder'
<1> DEFINE n == Len(submitted)
           before == logged \o InHand("log")
<1>1. n \in Nat /\ Len(submitted') = n + 1
  BY PushGrows DEF Submit, TypesOK
<1>2. InHand("log")' = InHand("log") /\ logged' = logged
  BY DEF Submit, InHand, outputs
<1>3. log_queue' = Append(log_queue, n + 1) /\ log_queue \in Seq(Nat) /\ before \in Seq(Nat)
  BY <1>1, ConsoleTypes, ConcatProperties DEF Submit
<1>4. <<n + 1>> \in Seq(Nat) /\ log_queue' = log_queue \o <<n + 1>>
  BY <1>1, <1>3, AppendIsConcat
<1>5. before \o log_queue' = (before \o log_queue) \o <<n + 1>>
  <2> HIDE DEF before, n
  <2> QED BY <1>3, <1>4, ConcatAssociative
<1>6. before \o log_queue = UpTo(n)
  BY DEF LoggedInOrder, UpTo
<1>7. (before \o log_queue) \o <<n + 1>> = UpTo(n + 1)
  <2>1. UpTo(n) \in Seq(Nat) /\ n + 1 \in Nat /\ Append(UpTo(n), n + 1) = UpTo(n + 1)
    BY <1>1, UpToGrows
  <2>2. Append(UpTo(n), n + 1) = UpTo(n) \o <<n + 1>>
    <3> HIDE DEF n
    <3> QED BY <2>1, AppendIsConcat
  <2> QED BY <1>6, <2>1, <2>2
<1> QED BY <1>1, <1>2, <1>5, <1>7 DEF LoggedInOrder, UpTo

(* A sequence put together from two parts, behind another one.             *)
LEMMA ConcatParts ==
    ASSUME NEW S, NEW first \in Seq(S), NEW a \in Seq(S), NEW b \in Seq(S), NEW s, s = a \o b
    PROVE  (first \o a) \o b = first \o s
<1>1. (first \o a) \o b = first \o (a \o b)
  BY ConcatAssociative
<1>2. first \o (a \o b) = first \o s
  OBVIOUS
<1> QED BY <1>1, <1>2, Zenon

(* A block taken stays where it is on that way.                            *)
LEMMA TakeLogged ==
    ASSUME TypesOK, LoggedInOrder, NEW w \in Workers, Take(w)
    PROVE  LoggedInOrder'
<1>1. CASE w # "log"
  BY <1>1, ConsoleUntouched DEF Take, outputs, TypesOK, WorkersTypeOK, Workers
<1>2. CASE w = "log"
  <2>1. /\ log_queue # <<>> /\ hand["log"] = 0 /\ logged' = logged
        /\ log_queue' = Tail(log_queue) /\ hand'["log"] = Head(log_queue)
        /\ submitted' = submitted
    BY <1>2 DEF Take, QueueOf, outputs, TypesOK, WorkersTypeOK, Workers
  <2>2. Head(log_queue) # 0 /\ Head(log_queue) \in Nat /\ Tail(log_queue) \in Seq(Nat)
    <3>1. Head(log_queue) \in 1 .. Len(submitted)
      BY <2>1, HeadTailProperties DEF TypesOK, WorkersTypeOK
    <3> QED BY <2>1, <3>1, ConsoleTypes, HeadTailProperties
  <2>3. log_queue = <<Head(log_queue)>> \o Tail(log_queue)
    BY <2>1, ConsoleTypes
  <2>4. InHand("log") = <<>> /\ InHand("log")' = <<Head(log_queue)>>
    BY <2>1, <2>2 DEF InHand
  <2>5. logged \o <<>> = logged
    BY ConsoleTypes, ConcatEmptySeq
  <2>6. <<Head(log_queue)>> \in Seq(Nat)
    BY <2>2
  <2>7. (logged \o <<Head(log_queue)>>) \o Tail(log_queue) = logged \o log_queue
    <3> DEFINE a == <<Head(log_queue)>>
               b == Tail(log_queue)
    <3>1. /\ a \in Seq(Nat) /\ b \in Seq(Nat) /\ logged \in Seq(Nat)
          /\ log_queue = a \o b
      BY <2>2, <2>3, <2>6, ConsoleTypes
    <3> HIDE DEF a, b
    <3>2. (logged \o a) \o b = logged \o log_queue
      BY <3>1, ConcatParts
    <3> QED BY <3>2 DEF a, b
  <2> QED BY <2>1, <2>4, <2>5, <2>7 DEF LoggedInOrder
<1> QED BY <1>1, <1>2

(* So does a block written.                                                *)
LEMMA WriteLogged ==
    ASSUME TypesOK, LoggedInOrder, NEW w \in Workers, WriteLog(w)
    PROVE  LoggedInOrder'
<1>1. /\ hand["log"] # 0 /\ hand'["log"] = 0 /\ logged' = Append(logged, hand["log"])
      /\ UNCHANGED <<submitted, log_queue>>
  BY DEF WriteLog, queues, TypesOK, WorkersTypeOK, Workers
<1>2. logged' = logged \o <<hand["log"]>> /\ logged' \in Seq(Nat)
  BY <1>1, ConsoleTypes, AppendIsConcat, AppendProperties
<1>3. InHand("log") = <<hand["log"]>> /\ InHand("log")' = <<>>
  BY <1>1 DEF InHand
<1>4. logged' \o <<>> = logged'
  BY <1>2, ConcatEmptySeq
<1> QED BY <1>1, <1>2, <1>3, <1>4 DEF LoggedInOrder

(***************************************************************************)
(* The console shows every block once and in the order of the pushes,      *)
(* whoever pushes and whenever the log thread wakes, sleeps, stops and is  *)
(* started again.                                                          *)
(***************************************************************************)
THEOREM ConsoleInOrder == WorkersSpec => []LoggedInOrder
<1>1. WorkersInit => LoggedInOrder
  <2> SUFFICES ASSUME WorkersInit PROVE LoggedInOrder
    OBVIOUS
  <2>1. <<>> \in Seq(Nat) /\ Len(<<>>) = 0
    BY EmptySeq
  <2>2. <<>> \o <<>> = <<>>
    BY <2>1, ConcatEmptySeq
  <2>3. [i \in 1 .. 0 |-> i] = <<>>
    BY <2>1
  <2> QED BY <2>1, <2>2, <2>3 DEF WorkersInit, LoggedInOrder, InHand, Workers
<1>2. TypesOK /\ LoggedInOrder /\ [WorkersNext]_workerVars => LoggedInOrder'
  <2> SUFFICES ASSUME TypesOK, LoggedInOrder, [WorkersNext]_workerVars
               PROVE  LoggedInOrder'
    OBVIOUS
  <2>1. ASSUME NEW s \in Submitters, NotifyAll(s) PROVE LoggedInOrder'
    BY <2>1, ConsoleUntouched DEF NotifyAll, queues, outputs
  <2>2. ASSUME NEW b \in BOOLEAN, SetTerminate(b) PROVE LoggedInOrder'
    BY <2>2, ConsoleUntouched DEF SetTerminate, queues, outputs
  <2>3. CASE NotifyStop
    BY <2>3, ConsoleUntouched DEF NotifyStop, queues, outputs
  <2>4. ASSUME NEW w \in Workers, Moves(w) PROVE LoggedInOrder'
    BY <2>4, ConsoleUntouched DEF Moves, StartThread, Join, LeaveLoop, DecideToSleep,
       FallAsleep, SpuriousWakeup, queues, outputs
  <2>5. ASSUME NEW w \in Workers, WriteFile(w) PROVE LoggedInOrder'
    BY <2>5, ConsoleUntouched
       DEF WriteFile, FileWorkers, queues, TypesOK, WorkersTypeOK, Workers
  <2>6. CASE UNCHANGED workerVars
    BY <2>6, ConsoleUntouched DEF workerVars
  <2> QED BY <2>1, <2>2, <2>3, <2>4, <2>5, <2>6, WorkersSteps, SubmitLogged, TakeLogged,
             WriteLogged
<1> QED BY <1>1, <1>2, TypesInvariant, PTL DEF WorkersSpec

-----------------------------------------------------------------------------
(***************************************************************************)
(*                         Wakeups and file names                          *)
(***************************************************************************)

(***************************************************************************)
(* The inductive form of NoBlockMissed: a worker that has decided to sleep *)
(* found its queue empty and still holds queue_mutex, so that nothing can  *)
(* be pushed before it sleeps.                                             *)
(***************************************************************************)
SleepersInv ==
    /\ NoBlockMissed
    /\ \A w \in Workers : wpc[w] = "holding" => QueueOf(w) = <<>>

(* A thread asleep over a block will be notified, after every step.        *)
LEMMA SleepersStep == TypesOK /\ SleepersInv /\ [WorkersNext]_workerVars => SleepersInv'
<1> SUFFICES ASSUME TypesOK, SleepersInv, [WorkersNext]_workerVars
             PROVE  SleepersInv'
  OBVIOUS
<1>1. CASE \/ \E s \in Submitters : NotifyAll(s)
           \/ NotifyStop
  <2>1. wpc' = WakeAll /\ UNCHANGED queues
    BY <1>1 DEF NotifyAll, NotifyStop
  <2> QED BY <2>1, WakeAllType DEF SleepersInv, NoBlockMissed, QueueOf, queues
<1>2. ASSUME NEW s \in Submitters, NEW block, Submit(s, block) PROVE SleepersInv'
  BY <1>2 DEF Submit, MutexFree, SleepersInv, NoBlockMissed
<1>3. ASSUME NEW b \in BOOLEAN, SetTerminate(b) PROVE SleepersInv'
  BY <1>3 DEF SetTerminate, SleepersInv, NoBlockMissed, QueueOf, queues
<1>4. ASSUME NEW w \in Workers, Moves(w) PROVE SleepersInv'
  <2>1. UNCHANGED <<log_queue, file_queue, unnotified>>
    BY <1>4 DEF Moves, StartThread, Join, LeaveLoop, DecideToSleep, FallAsleep,
                SpuriousWakeup, queues
  <2>2. \A v \in Workers \ {w} : wpc'[v] = wpc[v]
    BY <1>4 DEF Moves, StartThread, Join, LeaveLoop, DecideToSleep, FallAsleep,
                SpuriousWakeup, TypesOK, WorkersTypeOK
  <2>3. wpc'[w] \in {"asleep", "holding"} => QueueOf(w) = <<>>
    BY <1>4 DEF Moves, StartThread, Join, LeaveLoop, DecideToSleep, FallAsleep,
                SpuriousWakeup, TypesOK, WorkersTypeOK, SleepersInv
  <2> QED BY <2>1, <2>2, <2>3 DEF SleepersInv, NoBlockMissed, QueueOf
<1>5. ASSUME NEW w \in Workers, Take(w) PROVE SleepersInv'
  <2>1. /\ unnotified' = unnotified /\ wpc'[w] = "writing" /\ MutexFree
        /\ \A v \in Workers \ {w} : wpc'[v] = wpc[v]
    BY <1>5 DEF Take, TypesOK, WorkersTypeOK
  <2>2. \A v \in Workers : QueueOf(v)' # <<>> => QueueOf(v) # <<>>
    BY <1>5 DEF Take, QueueOf
  <2> QED BY <2>1, <2>2 DEF SleepersInv, NoBlockMissed, MutexFree
<1>6. ASSUME NEW w \in Workers, WriteLog(w) \/ WriteFile(w) PROVE SleepersInv'
  <2>1. /\ UNCHANGED <<log_queue, file_queue, unnotified>> /\ wpc'[w] = "running"
        /\ \A v \in Workers \ {w} : wpc'[v] = wpc[v]
    BY <1>6 DEF WriteLog, WriteFile, queues, TypesOK, WorkersTypeOK
  <2> QED BY <2>1 DEF SleepersInv, NoBlockMissed, QueueOf
<1>7. CASE UNCHANGED workerVars
  BY <1>7 DEF workerVars, SleepersInv, NoBlockMissed, QueueOf
<1> QED BY <1>1, <1>2, <1>3, <1>4, <1>5, <1>6, <1>7, WorkersSteps

(***************************************************************************)
(* A worker asleep beside a block in its queue is about to be notified: no *)
(* wakeup is lost between the test of the predicate and the sleep.         *)
(***************************************************************************)
THEOREM NoWakeupLost == WorkersSpec => []NoBlockMissed
<1>1. WorkersInit => SleepersInv
  BY DEF WorkersInit, SleepersInv, NoBlockMissed
<1>2. SleepersInv => NoBlockMissed
  BY DEF SleepersInv
<1> QED BY <1>1, <1>2, SleepersStep, TypesInvariant, PTL DEF WorkersSpec

(* The counter has passed every name that was given.                       *)
NamesInv ==
    /\ FileNamesDiffer
    /\ \A f \in files : f.name[2] < file_counter

(* Every step keeps file names apart.                                      *)
LEMMA NamesStep == TypesOK /\ NamesInv /\ [WorkersNext]_workerVars => NamesInv'
<1> SUFFICES ASSUME TypesOK, NamesInv, [WorkersNext]_workerVars
             PROVE  NamesInv'
  OBVIOUS
<1>1. ASSUME NEW w \in Workers, WriteFile(w) PROVE NamesInv'
  <2> DEFINE new == [block |-> hand[w], name |-> FileName(w)]
  <2>1. files' \subseteq files \cup {new} /\ file_counter' = file_counter + 1
    BY <1>1 DEF WriteFile
  <2>2. new.name[2] = file_counter /\ file_counter \in Nat
    BY DEF FileName, TypesOK, WorkersTypeOK
  <2>3. \A f \in files : f.name[2] \in Nat /\ f.name[2] < file_counter
    BY DEF TypesOK, WorkersTypeOK, NamesInv
  <2> HIDE DEF new
  <2>4. \A f \in files' : f.name[2] < file_counter'
    BY <2>1, <2>2, <2>3
  <2>5. \A f \in files : f.name # new.name
    BY <2>2, <2>3
  <2> QED BY <2>1, <2>4, <2>5 DEF NamesInv, FileNamesDiffer
<1>2. CASE UNCHANGED <<files, file_counter>>
  BY <1>2 DEF NamesInv, FileNamesDiffer
<1>3. (\A w \in Workers : ~WriteFile(w)) => UNCHANGED <<files, file_counter>>
  BY WorkersSteps DEF NotifyAll, Submit, SetTerminate, NotifyStop, Moves, StartThread, Join,
     LeaveLoop, DecideToSleep, FallAsleep, SpuriousWakeup, Take, WriteLog, outputs, workerVars
<1> QED BY <1>1, <1>2, <1>3

(***************************************************************************)
(* No two files have the same name, although two threads name them.        *)
(***************************************************************************)
THEOREM NamesAreUnique == WorkersSpec => []FileNamesDiffer
<1>1. WorkersInit => NamesInv
  BY DEF WorkersInit, NamesInv, FileNamesDiffer
<1>2. NamesInv => FileNamesDiffer
  BY DEF NamesInv
<1> QED BY <1>1, <1>2, NamesStep, TypesInvariant, PTL DEF WorkersSpec

-----------------------------------------------------------------------------
(***************************************************************************)
(*                               The files                                 *)
(***************************************************************************)

(* The places of a block on its way to a file.                             *)
Queued(i)    == \E k \in 1 .. Len(file_queue) : file_queue[k] = i
Held(i)      == \E w \in FileWorkers : hand[w] = i
InFile(i)    == \E f \in files : f.block = i
Passed(i)    == i \in unwritten

(* Every block is somewhere, and nowhere else.                             *)
OnePlace ==
    \A i \in 1 .. Len(submitted) :
        /\ Queued(i) \/ Held(i) \/ InFile(i) \/ Passed(i)
        /\ Queued(i) => ~Held(i) /\ ~InFile(i) /\ ~Passed(i)
        /\ Held(i) => ~InFile(i) /\ ~Passed(i)
        /\ InFile(i) => ~Passed(i)

(* No place has a block twice.                                             *)
QueueOnce == \A j, k \in 1 .. Len(file_queue) : file_queue[j] = file_queue[k] => j = k
HeldOnce  == \A v, w \in FileWorkers : hand[v] = hand[w] /\ hand[v] # 0 => v = w
FileOnce  == \A f, g \in files : f.block = g.block => f = g

(***************************************************************************)
(* The inductive form of OneFilePerBlock, which counts what these say.     *)
(***************************************************************************)
PlacesInv == OnePlace /\ QueueOnce /\ HeldOnce /\ FileOnce

(* What is on its way to the files are numbers of blocks.                  *)
LEMMA FileTypes ==
    ASSUME TypesOK
    PROVE  /\ Len(submitted) \in Nat /\ Len(file_queue) \in Nat
           /\ \A k \in 1 .. Len(file_queue) : file_queue[k] \in 1 .. Len(submitted)
           /\ \A w \in Workers : hand[w] \in 0 .. Len(submitted)
           /\ \A f \in files : f.block \in 1 .. Len(submitted)
           /\ \A i \in unwritten : i \in 1 .. Len(submitted)
<1>1. Len(submitted) \in Nat
  BY LenProperties DEF TypesOK, SubmittedOK
<1>2. /\ Len(file_queue) \in Nat
      /\ \A k \in 1 .. Len(file_queue) : file_queue[k] \in 1 .. Len(submitted)
  BY LenProperties, ElementOfSeq DEF TypesOK, WorkersTypeOK
<1> QED BY <1>1, <1>2 DEF TypesOK, WorkersTypeOK

(* A pushed block is queued, and nowhere before.                           *)
LEMMA SubmitPlaces ==
    ASSUME TypesOK, PlacesInv, NEW s \in Submitters, NEW block, Submit(s, block)
    PROVE  PlacesInv'
<1> DEFINE n == Len(submitted)
           m == Len(file_queue)
<1>1. n \in Nat /\ Len(submitted') = n + 1 /\ m \in Nat
  BY PushGrows, FileTypes DEF Submit, TypesOK
<1>2. UNCHANGED <<hand, files, unwritten>>
  BY DEF Submit, outputs
<1>3. /\ Len(file_queue') = m + 1 /\ file_queue'[m + 1] = n + 1
      /\ \A k \in 1 .. m : file_queue'[k] = file_queue[k]
  <2>1. file_queue \in Seq(1 .. n + 1) /\ n + 1 \in 1 .. n + 1
    BY <1>1, SeqMonotonic, 1 .. n \subseteq 1 .. n + 1 DEF TypesOK, WorkersTypeOK
  <2>2. file_queue' = Append(file_queue, n + 1)
    BY <1>1 DEF Submit
  <2> QED BY <2>1, <2>2, AppendProperties
<1>4. \A k \in 1 .. m : file_queue[k] \in 1 .. n
  BY FileTypes
<1>5. \A k \in 1 .. m + 1 : k \in 1 .. m \/ k = m + 1
  BY <1>1
<1>6. \A i \in 1 .. n : Queued(i)' <=> Queued(i)
  BY <1>1, <1>3, <1>4, <1>5 DEF Queued
<1>7. \A i : i = n + 1 => Queued(i)' /\ ~Held(i) /\ ~InFile(i) /\ ~Passed(i)
  <2> SUFFICES ASSUME NEW i, i = n + 1
               PROVE  Queued(i)' /\ ~Held(i) /\ ~InFile(i) /\ ~Passed(i)
    OBVIOUS
  <2>1. m + 1 \in 1 .. Len(file_queue') /\ file_queue'[m + 1] = i
    BY <1>1, <1>3
  <2>2. Queued(i)'
    BY <2>1 DEF Queued
  <2>3. ~Held(i) /\ ~InFile(i) /\ ~Passed(i)
    BY <1>1, FileTypes DEF Held, InFile, Passed, FileWorkers, Workers
  <2> QED BY <2>2, <2>3
<1>8. \A i : /\ Held(i)' <=> Held(i)
             /\ InFile(i)' <=> InFile(i)
             /\ Passed(i)' <=> Passed(i)
  BY <1>2 DEF Held, InFile, Passed
<1>9. OnePlace'
  <2> SUFFICES ASSUME NEW i \in 1 .. n + 1
               PROVE  /\ Queued(i)' \/ Held(i)' \/ InFile(i)' \/ Passed(i)'
                      /\ Queued(i)' => ~Held(i)' /\ ~InFile(i)' /\ ~Passed(i)'
                      /\ Held(i)' => ~InFile(i)' /\ ~Passed(i)'
                      /\ InFile(i)' => ~Passed(i)'
    BY <1>1 DEF OnePlace
  <2>1. CASE i = n + 1
    BY <2>1, <1>7, <1>8
  <2>2. CASE i \in 1 .. n
    BY <2>2, <1>6, <1>8 DEF PlacesInv, OnePlace
  <2> QED BY <1>1, <2>1, <2>2
<1>10. QueueOnce'
  BY <1>1, <1>3, <1>4, <1>5 DEF PlacesInv, QueueOnce
<1> QED BY <1>2, <1>9, <1>10 DEF PlacesInv, HeldOnce, FileOnce

(* A file thread takes the oldest block out of the queue into its hand.    *)
LEMMA TakePlaces ==
    ASSUME TypesOK, PlacesInv, NEW w \in FileWorkers, Take(w)
    PROVE  PlacesInv'
<1> DEFINE n == Len(submitted)
           m == Len(file_queue)
           h == Head(file_queue)
<1>1. /\ file_queue # <<>> /\ file_queue' = Tail(file_queue) /\ hand[w] = 0
      /\ hand' = [hand EXCEPT ![w] = h]
      /\ UNCHANGED <<submitted, files, unwritten>>
  BY DEF Take, QueueOf, FileWorkers, Workers, outputs, TypesOK, WorkersTypeOK
<1>2. /\ m \in Nat \ {0} /\ h = file_queue[1] /\ h \in 1 .. n
      /\ Len(file_queue') = m - 1
      /\ \A k \in 1 .. m - 1 : file_queue'[k] = file_queue[k + 1]
  <2>1. file_queue \in Seq(1 .. n)
    BY DEF TypesOK, WorkersTypeOK
  <2>2. m \in Nat \ {0}
    BY <1>1, <2>1, EmptySeq
  <2>3. /\ Len(file_queue') = m - 1
        /\ \A k \in 1 .. m - 1 : file_queue'[k] = file_queue[k + 1]
    BY <1>1, <2>1, HeadTailProperties
  <2>4. h = file_queue[1]
    BY <2>1, <2>2
  <2>5. h \in 1 .. n
    BY <1>1, <2>1, HeadTailProperties
  <2> QED BY <2>2, <2>3, <2>4, <2>5
<1>3. hand'[w] = h /\ \A v \in FileWorkers \ {w} : hand'[v] = hand[v]
  BY <1>1 DEF TypesOK, WorkersTypeOK, FileWorkers, Workers
<1>4. Queued(h) /\ ~Held(h)
  BY <1>2 DEF Queued, PlacesInv, OnePlace
<1>5. \A i \in 1 .. n : Queued(i)' <=> Queued(i) /\ i # h
  <2> SUFFICES ASSUME NEW i \in 1 .. n PROVE Queued(i)' <=> Queued(i) /\ i # h
    OBVIOUS
  <2>1. ASSUME NEW k \in 1 .. m - 1, file_queue'[k] = i PROVE Queued(i) /\ i # h
    <3>1. k + 1 \in 1 .. m /\ 1 \in 1 .. m /\ k + 1 # 1 /\ file_queue[k + 1] = i
      BY <1>2, <2>1
    <3> QED BY <1>2, <3>1 DEF Queued, PlacesInv, QueueOnce
  <2>2. ASSUME NEW k \in 1 .. m, file_queue[k] = i, i # h PROVE Queued(i)'
    <3>1. k - 1 \in 1 .. m - 1 /\ (k - 1) + 1 = k
      BY <1>2, <2>2
    <3> QED BY <1>2, <2>2, <3>1 DEF Queued
  <2> QED BY <1>2, <2>1, <2>2 DEF Queued
<1>6. \A i \in 1 .. n : Held(i)' <=> Held(i) \/ i = h
  BY <1>1, <1>2, <1>3 DEF Held
<1>7. \A i : (InFile(i)' <=> InFile(i)) /\ (Passed(i)' <=> Passed(i))
  BY <1>1 DEF InFile, Passed
<1>8. OnePlace'
  <2> HIDE DEF h
  <2> QED BY <1>1, <1>4, <1>5, <1>6, <1>7 DEF PlacesInv, OnePlace
<1>9. QueueOnce'
  <2> SUFFICES ASSUME NEW j \in 1 .. m - 1, NEW k \in 1 .. m - 1,
                      file_queue'[j] = file_queue'[k]
               PROVE  j = k
    BY <1>2 DEF QueueOnce
  <2>1. j + 1 \in 1 .. m /\ k + 1 \in 1 .. m /\ file_queue[j + 1] = file_queue[k + 1]
    BY <1>2
  <2>2. j + 1 = k + 1
    BY <2>1 DEF PlacesInv, QueueOnce
  <2> QED BY <2>2
<1>10. HeldOnce'
  <2> HIDE DEF h
  <2> QED BY <1>2, <1>3, <1>4 DEF PlacesInv, HeldOnce, Held
<1> QED BY <1>1, <1>8, <1>9, <1>10 DEF PlacesInv, FileOnce

(* It is written out of the hand, to a new file or not at all.             *)
LEMMA WritePlaces ==
    ASSUME TypesOK, PlacesInv, NEW w \in Workers, WriteFile(w)
    PROVE  PlacesInv'
<1> DEFINE b == hand[w]
           new == [block |-> b, name |-> FileName(w)]
<1>1. /\ w \in FileWorkers /\ b # 0 /\ UNCHANGED <<submitted, file_queue>>
      /\ hand' = [hand EXCEPT ![w] = 0]
  BY DEF WriteFile, queues, TypesOK, WorkersTypeOK
<1>2. \/ files' = files \cup {new} /\ unwritten' = unwritten
      \/ files' = files /\ unwritten' = unwritten \cup {b}
  BY DEF WriteFile
<1>3. b \in 1 .. Len(submitted) /\ Held(b) /\ ~InFile(b) /\ ~Passed(b)
  BY <1>1, FileTypes DEF Held, PlacesInv, OnePlace
<1>4. \A i : Queued(i)' <=> Queued(i)
  BY <1>1 DEF Queued
<1>5. \A i \in 1 .. Len(submitted) : Held(i)' <=> Held(i) /\ i # b
  <2>0. Len(submitted) \in Nat
    BY FileTypes
  <2>1. hand'[w] = 0 /\ \A v \in FileWorkers \ {w} : hand'[v] = hand[v]
    BY <1>1 DEF TypesOK, WorkersTypeOK, FileWorkers, Workers
  <2>2. \A v \in FileWorkers \ {w} : hand[v] # b
    BY <1>1 DEF PlacesInv, HeldOnce
  <2> QED BY <1>1, <2>0, <2>1, <2>2 DEF Held
<1>6. new.block = b
  OBVIOUS
<1>7. \A i : /\ InFile(i) => InFile(i)'
             /\ Passed(i) => Passed(i)'
             /\ InFile(i)' => InFile(i) \/ i = b
             /\ Passed(i)' => Passed(i) \/ i = b
             /\ i = b => (InFile(i)' /\ ~Passed(i)') \/ (Passed(i)' /\ ~InFile(i)')
  <2> HIDE DEF new, b
  <2> QED BY <1>2, <1>3, <1>6 DEF InFile, Passed
<1>8. OnePlace'
  <2> HIDE DEF new, b
  <2> QED BY <1>1, <1>3, <1>4, <1>5, <1>7 DEF PlacesInv, OnePlace
<1>9. HeldOnce'
  BY <1>1 DEF PlacesInv, HeldOnce, TypesOK, WorkersTypeOK, FileWorkers, Workers
<1>10. FileOnce'
  <2> HIDE DEF new, b
  <2> QED BY <1>2, <1>3, <1>6 DEF PlacesInv, FileOnce, InFile
<1> QED BY <1>1, <1>8, <1>9, <1>10 DEF PlacesInv, QueueOnce

(* Every step keeps each block in one place.                               *)
LEMMA PlacesStep == TypesOK /\ PlacesInv /\ [WorkersNext]_workerVars => PlacesInv'
<1> SUFFICES ASSUME TypesOK, PlacesInv, [WorkersNext]_workerVars
             PROVE  PlacesInv'
  OBVIOUS
<1>1. ASSUME UNCHANGED <<submitted, file_queue, files, unwritten>>,
             \A w \in FileWorkers : hand'[w] = hand[w]
      PROVE  PlacesInv'
  <2>1. \A i : /\ Queued(i)' <=> Queued(i)
               /\ Held(i)' <=> Held(i)
               /\ InFile(i)' <=> InFile(i)
               /\ Passed(i)' <=> Passed(i)
    BY <1>1 DEF Queued, Held, InFile, Passed
  <2> QED BY <1>1, <2>1 DEF PlacesInv, OnePlace, QueueOnce, HeldOnce, FileOnce
<1>2. ASSUME NEW s \in Submitters, NotifyAll(s) PROVE PlacesInv'
  BY <1>1, <1>2 DEF NotifyAll, queues, outputs
<1>3. ASSUME NEW b \in BOOLEAN, SetTerminate(b) PROVE PlacesInv'
  BY <1>1, <1>3 DEF SetTerminate, queues, outputs
<1>4. CASE NotifyStop
  BY <1>1, <1>4 DEF NotifyStop, queues, outputs
<1>5. ASSUME NEW w \in Workers, Moves(w) PROVE PlacesInv'
  BY <1>1, <1>5 DEF Moves, StartThread, Join, LeaveLoop, DecideToSleep, FallAsleep,
                    SpuriousWakeup, queues, outputs
<1>6. ASSUME NEW w \in Workers, WriteLog(w) PROVE PlacesInv'
  BY <1>1, <1>6 DEF WriteLog, queues, FileWorkers, TypesOK, WorkersTypeOK, Workers
<1>7. ASSUME NEW w \in Workers, Take(w) PROVE PlacesInv'
  <2>1. CASE w \in FileWorkers
    BY <1>7, <2>1, TakePlaces
  <2>2. CASE w = "log"
    BY <1>1, <1>7, <2>2 DEF Take, FileWorkers, TypesOK, WorkersTypeOK, Workers, outputs
  <2> QED BY <2>1, <2>2 DEF Workers, FileWorkers
<1>8. CASE UNCHANGED workerVars
  BY <1>1, <1>8 DEF workerVars
<1> QED BY <1>2, <1>3, <1>4, <1>5, <1>6, <1>7, <1>8, WorkersSteps, SubmitPlaces, WritePlaces

(* A set with at most one element has one if it is not empty.              *)
LEMMA CardinalityOfOne ==
    ASSUME NEW S, \A x, y \in S : x = y
    PROVE  Cardinality(S) = IF S = {} THEN 0 ELSE 1
<1>1. CASE S = {}
  BY <1>1, FS_EmptySet
<1>2. CASE S # {}
  <2>1. PICK x \in S : TRUE
    BY <1>2
  <2>2. S = {x}
    BY <2>1
  <2> QED BY <1>2, <2>2, FS_Singleton
<1> QED BY <1>1, <1>2

(* One place for each block makes the count the property states.           *)
LEMMA PlacesCount == TypesOK /\ PlacesInv => OneFilePerBlock
<1> SUFFICES ASSUME TypesOK, PlacesInv, NEW i \in 1 .. Len(submitted)
             PROVE  Cardinality({k \in 1 .. Len(file_queue) : file_queue[k] = i})
                  + Cardinality({w \in FileWorkers : hand[w] = i})
                  + Cardinality({f \in files : f.block = i})
                  + Cardinality(unwritten \cap {i}) = 1
  BY DEF OneFilePerBlock
<1> DEFINE Q == {k \in 1 .. Len(file_queue) : file_queue[k] = i}
           H == {w \in FileWorkers : hand[w] = i}
           F == {f \in files : f.block = i}
           U == unwritten \cap {i}
<1>1. Cardinality(Q) = IF Queued(i) THEN 1 ELSE 0
  <2>1. \A x, y \in Q : x = y
    BY DEF PlacesInv, QueueOnce
  <2>2. Q = {} <=> ~Queued(i)
    BY DEF Queued
  <2> HIDE DEF Q
  <2> QED BY <2>1, <2>2, CardinalityOfOne
<1>2. Cardinality(H) = IF Held(i) THEN 1 ELSE 0
  <2>1. \A x, y \in H : x = y
    BY FileTypes DEF PlacesInv, HeldOnce
  <2>2. H = {} <=> ~Held(i)
    BY DEF Held
  <2> HIDE DEF H
  <2> QED BY <2>1, <2>2, CardinalityOfOne
<1>3. Cardinality(F) = IF InFile(i) THEN 1 ELSE 0
  <2>1. \A x, y \in F : x = y
    BY DEF PlacesInv, FileOnce
  <2>2. F = {} <=> ~InFile(i)
    BY DEF InFile
  <2> HIDE DEF F
  <2> QED BY <2>1, <2>2, CardinalityOfOne
<1>4. Cardinality(U) = IF Passed(i) THEN 1 ELSE 0
  <2>1. \A x, y \in U : x = y
    OBVIOUS
  <2>2. U = {} <=> ~Passed(i)
    BY DEF Passed
  <2> HIDE DEF U
  <2> QED BY <2>1, <2>2, CardinalityOfOne
<1> HIDE DEF Q, H, F, U
<1>5. Cardinality(Q) + Cardinality(H) + Cardinality(F) + Cardinality(U) = 1
  BY <1>1, <1>2, <1>3, <1>4 DEF PlacesInv, OnePlace
<1> QED BY <1>5 DEF Q, H, F, U

(***************************************************************************)
(* Every block is at all times in exactly one place on its way to a file:  *)
(* two file threads that share a queue never write one twice or lose it,   *)
(* and one whose file does not open is accounted for.                      *)
(***************************************************************************)
THEOREM BlocksReachOneFile == WorkersSpec => []OneFilePerBlock
<1>1. WorkersInit => PlacesInv
  <2> SUFFICES ASSUME WorkersInit PROVE PlacesInv
    OBVIOUS
  <2>1. Len(<<>>) = 0
    BY EmptySeq
  <2> QED BY <2>1 DEF WorkersInit, PlacesInv, OnePlace, QueueOnce, HeldOnce, FileOnce,
                      FileWorkers, Workers
<1> QED BY <1>1, PlacesStep, PlacesCount, TypesInvariant, PTL DEF WorkersSpec
=============================================================================
