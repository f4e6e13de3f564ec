--------------------------- MODULE OutputWorkers ---------------------------
(***************************************************************************)
(* The output side of the bulk libraries, HW_9/lib/async.cpp (HW_10 has    *)
(* the same code): blocks of commands go into log_queue and file_queue     *)
(* under queue_mutex, and one log thread and two file threads that wait on *)
(* queue_cv take them out and write them.                                  *)
(*                                                                         *)
(* The steps are those between which another thread can do something that  *)
(* matters: a worker that finds nothing to do still holds queue_mutex when *)
(* it decides to sleep ("holding") and gives it up as it falls asleep;     *)
(* should_terminate and notify_all need no mutex and may come in between.  *)
(*                                                                         *)
(* A block is known by its number in submitted, the history of all blocks  *)
(* ever pushed; the queues, the workers' hands and the outputs hold these  *)
(* numbers.                                                                *)
(***************************************************************************)
EXTENDS Naturals, Sequences, FiniteSets

CONSTANTS
    Submitters,     \* threads that push blocks
    FileOpens       \* the results of opening a file that are considered

\* The threads in the order init_threads and stop_threads go through them.
ThreadOrder == <<"log", "file1", "file2">>
Workers     == {"log", "file1", "file2"}
FileWorkers == {"file1", "file2"}

ASSUME FileOpensAssumption == FileOpens \subseteq BOOLEAN /\ FileOpens # {}

VARIABLES
    submitted,          \* the blocks pushed so far
    log_queue, file_queue,
    should_terminate,
    unnotified,         \* submitters between their push and their notify_all
    wpc,                \* where each worker is
    hand,               \* the block a worker is writing, or 0
    logged,             \* the console
    files,              \* the files written: records [block, name]
    unwritten,          \* blocks whose file could not be opened
    file_counter

queues     == <<submitted, log_queue, file_queue>>
outputs    == <<logged, files, unwritten, file_counter>>
workerVars == <<submitted, log_queue, file_queue, should_terminate, unnotified, wpc,
                hand, logged, files, unwritten, file_counter>>

(***************************************************************************)
(* "none" is a thread object with no thread, "running" a worker about to   *)
(* take the mutex and test its predicate, "exited" one that has returned   *)
(* and is not joined yet.                                                  *)
(***************************************************************************)
WorkerState == {"none", "running", "holding", "asleep", "writing", "exited"}

WorkersTypeOK ==
    /\ log_queue \in Seq(1 .. Len(submitted)) /\ file_queue \in Seq(1 .. Len(submitted))
    /\ should_terminate \in BOOLEAN
    /\ unnotified \subseteq Submitters
    /\ wpc \in [Workers -> WorkerState]
    /\ hand \in [Workers -> 0 .. Len(submitted)]
    /\ \A w \in Workers : hand[w] # 0 <=> wpc[w] = "writing"
    /\ logged \in Seq(1 .. Len(submitted))
    /\ files \subseteq [block : 1 .. Len(submitted), name : FileWorkers \X Nat]
    /\ unwritten \subseteq 1 .. Len(submitted)
    /\ file_counter \in Nat

-----------------------------------------------------------------------------

QueueOf(w) == IF w = "log" THEN log_queue ELSE file_queue

\* queue_mutex is free: every other critical section is a single step.
MutexFree == \A w \in Workers : wpc[w] # "holding"

WakeAll == [w \in Workers |-> IF wpc[w] = "asleep" THEN "running" ELSE wpc[w]]

(* process_tasks, from the lock to the end of its scope.                   *)
Submit(s, block) ==
    /\ MutexFree
    /\ submitted' = Append(submitted, block)
    /\ log_queue' = Append(log_queue, Len(submitted'))
    /\ file_queue' = Append(file_queue, Len(submitted'))
    /\ unnotified' = unnotified \cup {s}
    /\ UNCHANGED <<should_terminate, wpc, hand, outputs>>

NotifyNobody(s) ==      \* mutant of NotifyAll
    /\ unnotified' = unnotified \ {s}
    /\ UNCHANGED <<queues, should_terminate, wpc, hand, outputs>>

(* notify_all of process_tasks, after the lock is released.                *)
NotifyAll(s) ==
    /\ wpc' = WakeAll
    /\ unnotified' = unnotified \ {s}
    /\ UNCHANGED <<queues, should_terminate, hand, outputs>>

StartThread(w) ==
    /\ wpc[w] = "none"
    /\ wpc' = [wpc EXCEPT ![w] = "running"]
    /\ UNCHANGED <<queues, should_terminate, unnotified, hand, outputs>>

SetTerminate(b) ==
    /\ should_terminate' = b
    /\ UNCHANGED <<queues, unnotified, wpc, hand, outputs>>

NotifyStop ==
    /\ wpc' = WakeAll
    /\ UNCHANGED <<queues, should_terminate, unnotified, hand, outputs>>

(* join of a joinable thread returns when its worker has returned; a thread*)
(* object without a thread is not joinable and is passed over.             *)
Join(w) ==
    /\ wpc[w] \in {"none", "exited"}
    /\ wpc' = [wpc EXCEPT ![w] = "none"]
    /\ UNCHANGED <<queues, should_terminate, unnotified, hand, outputs>>

-----------------------------------------------------------------------------
(***************************************************************************)
(*                              The workers                                *)
(***************************************************************************)

\* Mutant of LeaveLoop: the flag alone ends the loop.
LeaveAtOnce(w) ==
    /\ wpc[w] = "running" /\ MutexFree
    /\ should_terminate
    /\ wpc' = [wpc EXCEPT ![w] = "exited"]
    /\ UNCHANGED <<queues, should_terminate, unnotified, hand, outputs>>

LeaveLoop(w) ==
    /\ wpc[w] = "running" /\ MutexFree
    /\ should_terminate /\ QueueOf(w) = <<>>
    /\ wpc' = [wpc EXCEPT ![w] = "exited"]
    /\ UNCHANGED <<queues, should_terminate, unnotified, hand, outputs>>

(* The predicate of the wait is false.                                     *)
DecideToSleep(w) ==
    /\ wpc[w] = "running" /\ MutexFree
    /\ ~should_terminate /\ QueueOf(w) = <<>>
    /\ wpc' = [wpc EXCEPT ![w] = "holding"]
    /\ UNCHANGED <<queues, should_terminate, unnotified, hand, outputs>>

FallAsleep(w) ==
    /\ wpc[w] = "holding"
    /\ wpc' = [wpc EXCEPT ![w] = "asleep"]
    /\ UNCHANGED <<queues, should_terminate, unnotified, hand, outputs>>

SpuriousWakeup(w) ==
    /\ wpc[w] = "asleep"
    /\ wpc' = [wpc EXCEPT ![w] = "running"]
    /\ UNCHANGED <<queues, should_terminate, unnotified, hand, outputs>>

\* Mutant of Take: front() without pop() on the file queue.
TakeWithoutPop(w) ==
    /\ wpc[w] = "running" /\ MutexFree
    /\ QueueOf(w) # <<>>
    /\ hand' = [hand EXCEPT ![w] = Head(QueueOf(w))]
    /\ wpc' = [wpc EXCEPT ![w] = "writing"]
    /\ log_queue' = IF w = "log" THEN Tail(log_queue) ELSE log_queue
    /\ UNCHANGED <<submitted, file_queue, should_terminate, unnotified, outputs>>

\* Mutant of Take: the newest block first.
TakeNewest(w) ==
    /\ wpc[w] = "running" /\ MutexFree
    /\ QueueOf(w) # <<>>
    /\ hand' = [hand EXCEPT ![w] = QueueOf(w)[Len(QueueOf(w))]]
    /\ wpc' = [wpc EXCEPT ![w] = "writing"]
    /\ IF w = "log"
       THEN log_queue' = SubSeq(log_queue, 1, Len(log_queue) - 1) /\ UNCHANGED file_queue
       ELSE file_queue' = SubSeq(file_queue, 1, Len(file_queue) - 1) /\ UNCHANGED log_queue
    /\ UNCHANGED <<submitted, should_terminate, unnotified, outputs>>

Take(w) ==
    /\ wpc[w] = "running" /\ MutexFree
    /\ QueueOf(w) # <<>>
    /\ hand' = [hand EXCEPT ![w] = Head(QueueOf(w))]
    /\ wpc' = [wpc EXCEPT ![w] = "writing"]
    /\ IF w = "log"
       THEN log_queue' = Tail(log_queue) /\ UNCHANGED file_queue
       ELSE file_queue' = Tail(file_queue) /\ UNCHANGED log_queue
    /\ UNCHANGED <<submitted, should_terminate, unnotified, outputs>>

WriteLog(w) ==
    /\ w = "log" /\ wpc[w] = "writing"
    /\ logged' = Append(logged, hand[w])
    /\ hand' = [hand EXCEPT ![w] = 0]
    /\ wpc' = [wpc EXCEPT ![w] = "running"]
    /\ UNCHANGED <<queues, should_terminate, unnotified, files, unwritten, file_counter>>

(***************************************************************************)
(* The name of a file is the block's second and context, the worker and    *)
(* the next value of file_counter.  Second and context only add to the     *)
(* differences between names and are left out.  A file that does not open  *)
(* is passed over.                                                         *)
(***************************************************************************)
NameWithoutCounter(w) == <<w, 0>>     \* mutant of FileName

FileName(w) == <<w, file_counter>>

WriteFile(w) ==
    /\ w \in FileWorkers /\ wpc[w] = "writing"
    /\ \E is_open \in FileOpens :
          IF is_open
          THEN /\ files' = files \cup {[block |-> hand[w], name |-> FileName(w)]}
               /\ UNCHANGED unwritten
          ELSE unwritten' = unwritten \cup {hand[w]} /\ UNCHANGED files
    /\ file_counter' = file_counter + 1
    /\ hand' = [hand EXCEPT ![w] = 0]
    /\ wpc' = [wpc EXCEPT ![w] = "running"]
    /\ UNCHANGED <<queues, should_terminate, unnotified, logged>>

WorkerStep(w) ==
    \/ LeaveLoop(w) \/ DecideToSleep(w) \/ FallAsleep(w)
    \/ Take(w) \/ WriteLog(w) \/ WriteFile(w)

-----------------------------------------------------------------------------

WorkersInit ==
    /\ submitted = <<>> /\ log_queue = <<>> /\ file_queue = <<>>
    /\ should_terminate = FALSE
    /\ unnotified = {}
    /\ wpc = [w \in Workers |-> "none"]
    /\ hand = [w \in Workers |-> 0]
    /\ logged = <<>> /\ files = {} /\ unwritten = {} /\ file_counter = 0

(***************************************************************************)
(* Any use of the workers at all: what holds of it holds of every program  *)
(* around them.                                                            *)
(***************************************************************************)
WorkersNext ==
    \/ \E s \in Submitters : NotifyAll(s) \/ \E block : Submit(s, block)
    \/ \E b \in BOOLEAN : SetTerminate(b)
    \/ NotifyStop
    \/ \E w \in Workers : StartThread(w) \/ Join(w) \/ WorkerStep(w) \/ SpuriousWakeup(w)

WorkersSpec == WorkersInit /\ [][WorkersNext]_workerVars

-----------------------------------------------------------------------------
(***************************************************************************)
(*                              Properties                                 *)
(***************************************************************************)

InHand(w) == IF hand[w] = 0 THEN <<>> ELSE <<hand[w]>>

(* The console shows every block once and in the order of the pushes: what *)
(* is printed, in the log thread's hand and queued are all the blocks.     *)
LoggedInOrder == logged \o InHand("log") \o log_queue = [i \in 1 .. Len(submitted) |-> i]

(* Every block is in exactly one place on its way to a file, and in the    *)
(* queue or with one of the two file threads only once.                    *)
OneFilePerBlock ==
    \A i \in 1 .. Len(submitted) :
        Cardinality({k \in 1 .. Len(file_queue) : file_queue[k] = i})
      + Cardinality({w \in FileWorkers : hand[w] = i})
      + Cardinality({f \in files : f.block = i})
      + Cardinality(unwritten \cap {i}) = 1

(* No two files have the same name, although two threads write them.       *)
FileNamesDiffer == \A f, g \in files : f.name = g.name => f = g

(* A worker asleep beside a block in its queue is about to be notified: no *)
(* push is missed, wherever the worker was when it happened.               *)
NoBlockMissed ==
    \A w \in Workers : wpc[w] = "asleep" /\ QueueOf(w) # <<>> => unnotified # {}
=============================================================================
