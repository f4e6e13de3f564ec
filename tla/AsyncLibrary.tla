---------------------------- MODULE AsyncLibrary ----------------------------
(***************************************************************************)
(* The library of HW_9/lib/async.cpp: connect, receive and disconnect,     *)
(* called by any number of threads, each with a context of its own, over   *)
(* the shared output threads of OutputWorkers.                             *)
(*                                                                         *)
(* A call is cut where another thread can notice: at the atomic flags, at  *)
(* contexts_mutex and queue_mutex, at every notify_all, and at the start   *)
(* and join of every thread.                                               *)
(***************************************************************************)
EXTENDS OutputWorkers, TaskManager, SequencesExt

CONSTANTS
    Clients,            \* the calling threads
    Chunks,             \* the data passed to receive: sequences of lines
    MaxInput,           \* bound: lines received per context
    MaxConnects,        \* bound: connects per client
    Orders              \* the values of orderly considered

ASSUME ClientsAssumption == Submitters = Clients
ASSUME ChunksAssumption == Chunks \subseteq Seq(STRING)
ASSUME BoundsAssumption == MaxInput \in Nat /\ MaxConnects \in Nat /\ Orders \subseteq BOOLEAN

VARIABLES
    threads_initialized,
    contexts,       \* the clients whose context is in the map
    manager,        \* the taskmanager of each client's context
    input,          \* all lines received in the context
    next_line,      \* the position receive has got to
    connects,       \* how often each client has called connect
    pc,             \* where each client is
    threads_left,   \* the threads a client has still to start or join
    terminated,     \* std::terminate was called
    orderly         \* do all connects come before any disconnect?

clientVars == <<threads_initialized, contexts, manager, input, next_line, connects, pc,
                threads_left, terminated, orderly>>
vars == <<submitted, log_queue, file_queue, should_terminate, unnotified, wpc, hand,
          logged, files, unwritten, file_counter, threads_initialized, contexts, manager,
          input, next_line, connects, pc, threads_left, terminated, orderly>>

(* The calls a client can be in, from connect to disconnect.               *)
ClientState == {"out", "starting", "inserting", "connected", "receiving", "notifying",
                "finishing", "checking", "stopping", "waking", "joining"}

TypeOK ==
    /\ WorkersTypeOK
    /\ threads_initialized \in BOOLEAN /\ terminated \in BOOLEAN /\ orderly \in Orders
    /\ contexts \subseteq Clients
    /\ manager \in [Clients -> Manager]
    /\ input \in [Clients -> Seq(STRING)]
    /\ \A c \in Clients : next_line[c] \in 0 .. Len(input[c])
    /\ connects \in [Clients -> 0 .. MaxConnects]
    /\ pc \in [Clients -> ClientState]
    /\ threads_left \in [Clients -> Seq(Workers)]
    /\ unnotified = {c \in Clients : pc[c] \in {"notifying", "finishing"}}

-----------------------------------------------------------------------------

\* contexts_mutex is held across a step only by the finish() of disconnect.
ContextsFree == \A c \in Clients : pc[c] # "finishing"

(* After std::terminate nothing moves.                                     *)
At(c, state) == pc[c] = state /\ ~terminated
Go(c, state) == pc' = [pc EXCEPT ![c] = state]

Block(c, commands) == [context |-> <<c, connects[c]>>, commands |-> commands]

-----------------------------------------------------------------------------
(***************************************************************************)
(*                                connect                                  *)
(***************************************************************************)

(* init_threads: exchange(true) on threads_initialized.                    *)
Connect(c) ==
    /\ At(c, "out") /\ connects[c] < MaxConnects
    /\ orderly => connects[c] = 0
    /\ connects' = [connects EXCEPT ![c] = @ + 1]
    /\ threads_initialized' = TRUE
    /\ IF threads_initialized
       THEN Go(c, "inserting") /\ UNCHANGED threads_left
       ELSE /\ Go(c, "starting")
            /\ threads_left' = [threads_left EXCEPT ![c] = ThreadOrder]
    /\ UNCHANGED <<workerVars, contexts, manager, input, next_line, terminated>>

(* Assigning to a std::thread that is still joinable ends the program.     *)
StartNext(c) ==
    /\ At(c, "starting")
    /\ threads_left' = [threads_left EXCEPT ![c] = Tail(@)]
    /\ Go(c, IF Len(threads_left[c]) = 1 THEN "inserting" ELSE "starting")
    /\ LET w == Head(threads_left[c])
       IN  \/ StartThread(w) /\ UNCHANGED terminated
           \/ wpc[w] # "none" /\ terminated' = TRUE /\ UNCHANGED workerVars
    /\ UNCHANGED <<threads_initialized, contexts, manager, input, next_line, connects>>

Insert(c) ==
    /\ At(c, "inserting") /\ ContextsFree
    /\ contexts' = contexts \cup {c}
    /\ manager' = [manager EXCEPT ![c] = NewManager]
    /\ input' = [input EXCEPT ![c] = <<>>]
    /\ next_line' = [next_line EXCEPT ![c] = 0]
    /\ Go(c, "connected")
    /\ UNCHANGED <<workerVars, threads_initialized, connects, threads_left, terminated>>

-----------------------------------------------------------------------------
(***************************************************************************)
(*                                receive                                  *)
(***************************************************************************)

Receive(c, chunk) ==
    /\ At(c, "connected") /\ ContextsFree /\ c \in contexts
    /\ Len(input[c]) + Len(chunk) <= MaxInput
    /\ input' = [input EXCEPT ![c] = @ \o chunk]
    /\ Go(c, "receiving")
    /\ UNCHANGED <<workerVars, threads_initialized, contexts, manager, next_line, connects,
                   threads_left, terminated>>

(* One line of the loop: add_task, up to the push of the block it forms.   *)
AddTask(c) ==
    /\ At(c, "receiving") /\ next_line[c] < Len(input[c])
    /\ LET p == next_line[c] + 1
           r == add_task(manager[c], input[c][p], p)
       IN  /\ manager' = [manager EXCEPT ![c] = r.manager]
           /\ next_line' = [next_line EXCEPT ![c] = p]
           /\ \/ r.block = <<>> /\ UNCHANGED <<workerVars, pc>>
              \/ r.block # <<>> /\ Submit(c, Block(c, r.block)) /\ Go(c, "notifying")
    /\ UNCHANGED <<threads_initialized, contexts, input, connects, threads_left, terminated>>

(* The notify_all of process_tasks in receive.                             *)
Notify(c) ==
    /\ At(c, "notifying")
    /\ NotifyAll(c)
    /\ Go(c, "receiving")
    /\ UNCHANGED <<threads_initialized, contexts, manager, input, next_line, connects,
                   threads_left, terminated>>

EndReceive(c) ==
    /\ At(c, "receiving") /\ next_line[c] = Len(input[c])
    /\ Go(c, "connected")
    /\ UNCHANGED <<workerVars, threads_initialized, contexts, manager, input, next_line,
                   connects, threads_left, terminated>>

-----------------------------------------------------------------------------
(***************************************************************************)
(*                              disconnect                                 *)
(***************************************************************************)

CallersConnected ==
    orderly => \A d \in Clients : connects[d] > 0 /\ pc[d] \notin {"starting", "inserting"}

\* Mutant of Disconnect: the context is erased without finish().
DisconnectUnfinished(c) ==
    /\ At(c, "connected") /\ ContextsFree /\ c \in contexts /\ CallersConnected
    /\ manager' = [manager EXCEPT ![c] = NewManager]
    /\ contexts' = contexts \ {c}
    /\ Go(c, "checking")
    /\ UNCHANGED <<workerVars, threads_initialized, input, next_line, connects,
                   threads_left, terminated>>

(* Under contexts_mutex: finish(), up to its push, or the erase if there   *)
(* is no block to push.                                                    *)
Disconnect(c) ==
    /\ At(c, "connected") /\ ContextsFree /\ c \in contexts /\ CallersConnected
    /\ manager' = [manager EXCEPT ![c] = NewManager]
    /\ LET block == FinishedBlock(manager[c])
       IN  \/ /\ block # <<>> /\ Submit(c, Block(c, block))
              /\ Go(c, "finishing")
              /\ UNCHANGED contexts
           \/ /\ block = <<>>
              /\ contexts' = contexts \ {c}
              /\ Go(c, "checking")
              /\ UNCHANGED workerVars
    /\ UNCHANGED <<threads_initialized, input, next_line, connects, threads_left, terminated>>

(* The notify_all of finish() and the erase; contexts_mutex is released.   *)
Erase(c) ==
    /\ At(c, "finishing")
    /\ NotifyAll(c)
    /\ contexts' = contexts \ {c}
    /\ Go(c, "checking")
    /\ UNCHANGED <<threads_initialized, manager, input, next_line, connects, threads_left,
                   terminated>>

(* contexts().empty(), read without the mutex, and stop_threads' exchange. *)
CheckLast(c) ==
    /\ At(c, "checking")
    /\ Go(c, IF contexts = {} THEN "stopping" ELSE "out")
    /\ UNCHANGED <<workerVars, threads_initialized, contexts, manager, input, next_line,
                   connects, threads_left, terminated>>

StopThreads(c) ==
    /\ At(c, "stopping")
    /\ threads_initialized' = FALSE
    /\ IF threads_initialized
       THEN Go(c, "waking") /\ SetTerminate(TRUE)
       ELSE Go(c, "out") /\ UNCHANGED workerVars
    /\ UNCHANGED <<contexts, manager, input, next_line, connects, threads_left, terminated>>

(* The notify_all of stop_threads, which holds no mutex.                   *)
WakeWorkers(c) ==
    /\ At(c, "waking")
    /\ NotifyStop
    /\ Go(c, "joining")
    /\ threads_left' = [threads_left EXCEPT ![c] = ThreadOrder]
    /\ UNCHANGED <<threads_initialized, contexts, manager, input, next_line, connects,
                   terminated>>

\* Mutant of JoinNext: the last thread is not joined.
JoinAllButLast(c) ==
    /\ At(c, "joining")
    /\ Join(Head(threads_left[c]))
    /\ threads_left' = [threads_left EXCEPT ![c] = IF Len(@) = 2 THEN <<>> ELSE Tail(@)]
    /\ Go(c, IF Len(threads_left[c]) = 2 THEN "out" ELSE "joining")
    /\ UNCHANGED <<threads_initialized, contexts, manager, input, next_line, connects,
                   terminated>>

JoinNext(c) ==
    /\ At(c, "joining")
    /\ Join(Head(threads_left[c]))
    /\ threads_left' = [threads_left EXCEPT ![c] = Tail(@)]
    /\ Go(c, IF Len(threads_left[c]) = 1 THEN "out" ELSE "joining")
    /\ UNCHANGED <<threads_initialized, contexts, manager, input, next_line, connects,
                   terminated>>

-----------------------------------------------------------------------------

Init ==
    /\ WorkersInit
    /\ threads_initialized = FALSE /\ terminated = FALSE /\ orderly \in Orders
    /\ contexts = {}
    /\ manager = [c \in Clients |-> NewManager]
    /\ input = [c \in Clients |-> <<>>]
    /\ next_line = [c \in Clients |-> 0]
    /\ connects = [c \in Clients |-> 0]
    /\ pc = [c \in Clients |-> "out"]
    /\ threads_left = [c \in Clients |-> <<>>]

(* What a client does inside a call, once it has made it.                  *)
InCall(c) ==
    \/ StartNext(c) \/ Insert(c)
    \/ AddTask(c) \/ Notify(c) \/ EndReceive(c)
    \/ Erase(c) \/ CheckLast(c) \/ StopThreads(c) \/ WakeWorkers(c) \/ JoinNext(c)

ClientStep(c) ==
    \/ Connect(c) \/ Disconnect(c) \/ InCall(c)
    \/ \E chunk \in Chunks : Receive(c, chunk)

Worker(w) ==
    /\ ~terminated
    /\ WorkerStep(w)
    /\ UNCHANGED clientVars

Wakeup(w) ==
    /\ ~terminated
    /\ SpuriousWakeup(w)
    /\ UNCHANGED clientVars

Next ==
    \/ \E c \in Clients : ClientStep(c) /\ UNCHANGED orderly
    \/ \E w \in Workers : Worker(w) \/ Wakeup(w)

Spec == Init /\ [][Next]_vars

(***************************************************************************)
(* Every thread the operating system runs goes on: the workers, and a      *)
(* client inside a call.  Nobody has to make a call, but a client that has *)
(* connected disconnects in the end.  No wakeup has to be spurious.  The   *)
(* fairness is strong because a thread that waits for queue_mutex gets it  *)
(* even if others, woken spuriously over and over, take it in between.     *)
(***************************************************************************)
Fairness ==
    /\ \A w \in Workers : SF_vars(Worker(w))
    /\ \A c \in Clients :
          /\ SF_vars(InCall(c) /\ UNCHANGED orderly)
          /\ SF_vars(Disconnect(c) /\ UNCHANGED orderly)

LiveSpec == Spec /\ Fairness

-----------------------------------------------------------------------------
(***************************************************************************)
(*                              Properties                                 *)
(***************************************************************************)

(* The blocks of a client's latest context, by their numbers.              *)
BlocksOf(c) == {i \in 1 .. Len(submitted) : submitted[i].context = <<c, connects[c]>>}

(* The commands of a context, and nothing of another, come out in the      *)
(* order they were received: its blocks one after the other and then the   *)
(* block being formed are the commands among the lines added so far, each  *)
(* of them once.                                                           *)
ContextsDoNotMix ==
    \A c \in contexts :
        LET block(i) == submitted[i].commands
            forming  == manager[c].static \o manager[c].dynamic
        IN  /\ \A i \in BlocksOf(c) : Increasing(block(i)) /\ Before(block(i), forming)
            /\ \A i, j \in BlocksOf(c) : i < j => Before(block(i), block(j))
            /\ Increasing(forming)
            /\ (UNION {ToSet(block(i)) : i \in BlocksOf(c)}) \cup ToSet(forming)
                 = {p \in CommandsOf(input[c]) : p <= next_line[c]}

(* No block holds commands from both sides of an outermost brace, and no   *)
(* static block more than Bulk commands (or one, should Bulk be 0).        *)
BlocksRespectBraces ==
    \A c \in contexts : \A i \in BlocksOf(c) :
        LET commands == submitted[i].commands
        IN  /\ OneKind(input[c], commands)
            /\ Depth(input[c])[commands[1]] = 0 => Len(commands) = 1 \/ Len(commands) <= Bulk

Returned(c) == pc[c] = "out" /\ connects[c] > 0

(* If all connects come before any disconnect, the last disconnect has     *)
(* waited, when it returns, for everything to be written: nothing is       *)
(* queued or in the hand of a worker, no worker is left, and a static block*)
(* begun is among those written.  Such calls never end the program.        *)
DisconnectFlushes ==
    /\ orderly => ~terminated
    /\ orderly /\ (\A c \in Clients : Returned(c)) =>
        /\ log_queue = <<>> /\ file_queue = <<>>
        /\ \A w \in Workers : wpc[w] = "none"
        /\ \A c \in Clients : \A p \in CommandsOf(input[c]) :
              Depth(input[c])[p] = 0 =>
                \E i \in BlocksOf(c) : p \in ToSet(submitted[i].commands)

(* Every block is printed in the end and written to a file, unless its     *)
(* file cannot be opened, even if disconnect hangs (async.cpp:254-297).    *)
(* It takes a client that connects once: threads started again find        *)
(* should_terminate still set, and may leave before their blocks come.     *)
Written(i) ==
    /\ i \in ToSet(logged)
    /\ i \in unwritten \/ \E f \in files : f.block = i
EveryBlockWritten == []<>(\A i \in 1 .. Len(submitted) : Written(i))

(* "disconnect() is called with the context passed. The call obliterates   *)
(* the context." (HW_9/README.md:37): the call comes back.                 *)
DisconnectReturns ==
    \A c \in Clients : pc[c] \in {"finishing", "checking", "stopping", "waking", "joining"}
                            ~> pc[c] \in {"out", "connected"}
=============================================================================
