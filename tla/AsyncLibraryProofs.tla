------------------------ MODULE AsyncLibraryProofs -------------------------
(***************************************************************************)
(* Proofs about AsyncLibrary, for any clients, chunks of lines and bounds. *)
(***************************************************************************)
EXTENDS AsyncLibrary, OutputWorkersProofs, BracesProofs

-----------------------------------------------------------------------------
(***************************************************************************)
(*                          Type correctness                               *)
(***************************************************************************)

(* What add_task makes of a manager is one, and it hands over a sequence.  *)
LEMMA AddTaskType ==
    ASSUME NEW m \in Manager, NEW text, NEW p \in Nat
    PROVE  /\ add_task(m, text, p).manager \in Manager
           /\ add_task(m, text, p).block \in Seq(Nat)
<1>1. /\ m.nesting \in Nat /\ m.static \in Seq(Nat) /\ m.dynamic \in Seq(Nat)
      /\ m = [nesting |-> m.nesting, static |-> m.static, dynamic |-> m.dynamic]
  BY DEF Manager
<1>2. /\ Append(m.static, p) \in Seq(Nat) /\ Append(m.dynamic, p) \in Seq(Nat)
      /\ <<>> \in Seq(Nat)
  BY <1>1, AppendProperties, EmptySeq
<1>3. OpenBrace(m).manager \in Manager /\ OpenBrace(m).block \in Seq(Nat)
  <2>1. CASE is_dynamic_block_active(m)
    BY <1>1, <1>2, <2>1 DEF OpenBrace, Manager
  <2>2. CASE ~is_dynamic_block_active(m)
    <3>1. OpenBrace(m).manager
            = [nesting |-> m.nesting + 1, static |-> <<>>, dynamic |-> m.dynamic]
      BY <1>1, <2>2 DEF OpenBrace
    <3>2. OpenBrace(m).block = m.static
      BY <2>2 DEF OpenBrace
    <3>3. m.nesting + 1 \in Nat
      BY <1>1
    <3> QED BY <1>1, <1>2, <3>1, <3>2, <3>3 DEF Manager
  <2> QED BY <2>1, <2>2
<1>4. m.nesting > 0 => CloseBrace(m).manager \in Manager /\ CloseBrace(m).block \in Seq(Nat)
  <2>1. CASE m.nesting = 1
    BY <1>1, <1>2, <2>1 DEF CloseBrace, Manager
  <2>2. CASE m.nesting > 1
    <3>1. m.nesting - 1 \in Nat
      BY <1>1, <2>2
    <3> QED BY <1>1, <1>2, <2>2, <3>1 DEF CloseBrace, Manager
  <2> QED BY <1>1, <2>1, <2>2
<1>5. Command(m, p).manager \in Manager /\ Command(m, p).block \in Seq(Nat)
  <2>1. CASE is_dynamic_block_active(m)
    BY <1>1, <1>2, <2>1 DEF Command, Manager
  <2>2. CASE ~is_dynamic_block_active(m) /\ Len(m.static) + 1 >= Bulk
    BY <1>1, <1>2, <2>2 DEF Command, Manager
  <2>3. CASE ~is_dynamic_block_active(m) /\ ~(Len(m.static) + 1 >= Bulk)
    BY <1>1, <1>2, <2>3 DEF Command, Manager
  <2> QED BY <2>1, <2>2, <2>3
<1> QED BY <1>3, <1>4, <1>5 DEF add_task

(***************************************************************************)
(* The types of what the clients keep, made inductive: a client that       *)
(* starts or joins threads has one left to go.                             *)
(***************************************************************************)
ClientTypes ==
    /\ threads_initialized \in BOOLEAN /\ terminated \in BOOLEAN /\ orderly \in Orders
    /\ contexts \subseteq Clients
    /\ manager \in [Clients -> Manager]
    /\ input \in [Clients -> Seq(STRING)]
    /\ next_line \in [Clients -> Nat]
    /\ \A c \in Clients : next_line[c] \in 0 .. Len(input[c])
    /\ connects \in [Clients -> 0 .. MaxConnects]
    /\ pc \in [Clients -> ClientState]
    /\ threads_left \in [Clients -> Seq(Workers)]
    /\ \A c \in Clients : pc[c] \in {"starting", "joining"} => threads_left[c] # <<>>
    /\ unnotified = {c \in Clients : pc[c] \in {"notifying", "finishing"}}

(* A manager begins outside braces, with nothing to hand over.             *)
LEMMA NewManagerType == NewManager \in Manager
<1> <<>> \in Seq(Nat)
  BY EmptySeq
<1> QED BY DEF NewManager, Manager

(* A client is done with its threads when one was left.                    *)
LEMMA NextThread ==
    ASSUME NEW q \in Seq(Workers), q # <<>>
    PROVE  /\ Head(q) \in Workers /\ Tail(q) \in Seq(Workers)
           /\ Len(q) # 1 => Tail(q) # <<>>
<1>1. /\ Head(q) \in Workers /\ Tail(q) \in Seq(Workers) /\ Len(Tail(q)) = Len(q) - 1
  BY HeadTailProperties
<1>2. Len(q) \in Nat \ {0}
  BY EmptySeq
<1>3. Tail(q) = <<>> => Len(Tail(q)) = 0
  BY EmptySeq
<1> QED BY <1>1, <1>2, <1>3

(* A step of a client that moves it, and leaves its input alone.           *)
LEMMA MoveType ==
    ASSUME ClientTypes, NEW c \in Clients, NEW state \in ClientState, Go(c, state),
           threads_initialized' \in BOOLEAN, terminated' \in BOOLEAN, orderly' = orderly,
           contexts' \subseteq Clients, manager' \in [Clients -> Manager],
           connects' \in [Clients -> 0 .. MaxConnects],
           threads_left' \in [Clients -> Seq(Workers)],
           \A d \in Clients \ {c} : threads_left'[d] = threads_left[d],
           state \in {"starting", "joining"} => threads_left'[c] # <<>>,
           unnotified' = IF state \in {"notifying", "finishing"}
                         THEN unnotified \cup {c} ELSE unnotified \ {c},
           input' \in [Clients -> Seq(STRING)], next_line' \in [Clients -> Nat],
           \A d \in Clients : next_line'[d] \in 0 .. Len(input'[d])
    PROVE  ClientTypes'
<1>1. pc' \in [Clients -> ClientState] /\ pc'[c] = state
      /\ \A d \in Clients \ {c} : pc'[d] = pc[d]
  BY DEF ClientTypes, Go
<1>2. \A d \in Clients : pc'[d] \in {"starting", "joining"} => threads_left'[d] # <<>>
  BY <1>1 DEF ClientTypes
<1>3. unnotified' = {d \in Clients : pc'[d] \in {"notifying", "finishing"}}
  BY <1>1 DEF ClientTypes
<1> QED BY <1>1, <1>2, <1>3 DEF ClientTypes

(* The clients' part of unnotified when neither push nor notify happens.   *)
LEMMA StillNotified ==
    ASSUME ClientTypes, NEW c \in Clients, pc[c] \notin {"notifying", "finishing"}
    PROVE  unnotified \ {c} = unnotified
BY DEF ClientTypes

(* Each action keeps the types of the clients.                             *)
LEMMA ConnectType ==
    ASSUME ClientTypes, NEW c \in Clients, Connect(c), UNCHANGED orderly
    PROVE  ClientTypes'
<1>1. unnotified' = unnotified \ {c}
  BY StillNotified DEF Connect, At, workerVars
<1>2. connects' \in [Clients -> 0 .. MaxConnects]
  BY BoundsAssumption DEF Connect, ClientTypes
<1>3. UNCHANGED <<contexts, manager, input, next_line, terminated>> /\ threads_initialized' = TRUE
  BY DEF Connect
<1>4. \/ Go(c, "inserting") /\ threads_left' = threads_left
      \/ Go(c, "starting") /\ threads_left' = [threads_left EXCEPT ![c] = ThreadOrder]
  BY DEF Connect
<1>5. CASE Go(c, "inserting") /\ threads_left' = threads_left
  BY <1>1, <1>2, <1>3, <1>5, MoveType DEF ClientTypes, ClientState
<1>6. CASE Go(c, "starting") /\ threads_left' = [threads_left EXCEPT ![c] = ThreadOrder]
  <2>1. /\ threads_left' \in [Clients -> Seq(Workers)] /\ threads_left'[c] # <<>>
        /\ \A d \in Clients \ {c} : threads_left'[d] = threads_left[d]
    BY <1>6, ThreadOrderType DEF ClientTypes
  <2> QED BY <1>1, <1>2, <1>3, <1>6, <2>1, MoveType DEF ClientTypes, ClientState
<1> QED BY <1>4, <1>5, <1>6

(* Starting the next thread.                                               *)
LEMMA StartNextType ==
    ASSUME ClientTypes, NEW c \in Clients, StartNext(c), UNCHANGED orderly
    PROVE  ClientTypes'
<1> DEFINE q == threads_left[c]
           state == IF Len(q) = 1 THEN "inserting" ELSE "starting"
<1>1. q \in Seq(Workers) /\ q # <<>> /\ pc[c] = "starting"
  BY DEF ClientTypes, StartNext, At
<1>2. unnotified' = unnotified \ {c}
  BY <1>1, StillNotified DEF StartNext, StartThread, workerVars
<1>3. /\ UNCHANGED <<contexts, manager, input, next_line, threads_initialized, connects>>
      /\ terminated' \in BOOLEAN /\ Go(c, state)
      /\ threads_left' = [threads_left EXCEPT ![c] = Tail(q)]
  BY DEF StartNext, ClientTypes
<1>4. Tail(q) \in Seq(Workers) /\ (state = "starting" => Tail(q) # <<>>)
  BY <1>1, NextThread
<1>5. /\ threads_left' \in [Clients -> Seq(Workers)] /\ threads_left'[c] = Tail(q)
      /\ \A d \in Clients \ {c} : threads_left'[d] = threads_left[d]
  BY <1>3, <1>4 DEF ClientTypes
<1>6. state \in ClientState /\ state \in {"inserting", "starting"}
  BY DEF ClientState
<1> HIDE DEF state, q
<1> QED BY <1>2, <1>3, <1>4, <1>5, <1>6, MoveType DEF ClientTypes

(* The new context goes into the map.                                      *)
LEMMA InsertType ==
    ASSUME ClientTypes, NEW c \in Clients, Insert(c), UNCHANGED orderly
    PROVE  ClientTypes'
<1>1. unnotified' = unnotified \ {c}
  BY StillNotified DEF Insert, At, workerVars
<1>2. /\ contexts' \subseteq Clients /\ manager' \in [Clients -> Manager]
      /\ input' \in [Clients -> Seq(STRING)] /\ next_line' \in [Clients -> Nat]
  BY NewManagerType, EmptySeq DEF Insert, ClientTypes
<1>3. \A d \in Clients : next_line'[d] \in 0 .. Len(input'[d])
  <2>1. Len(<<>>) = 0
    BY EmptySeq
  <2>2. next_line'[c] = 0 /\ input'[c] = <<>>
    BY DEF Insert, ClientTypes
  <2>3. \A d \in Clients \ {c} : next_line'[d] = next_line[d] /\ input'[d] = input[d]
    BY DEF Insert, ClientTypes
  <2> QED BY <2>1, <2>2, <2>3 DEF ClientTypes
<1> QED BY <1>1, <1>2, <1>3, MoveType DEF Insert, ClientTypes, ClientState

(* A chunk of input arrives.                                               *)
LEMMA ReceiveType ==
    ASSUME ClientTypes, NEW c \in Clients, NEW chunk \in Chunks, Receive(c, chunk),
           UNCHANGED orderly
    PROVE  ClientTypes'
<1>1. unnotified' = unnotified \ {c}
  BY StillNotified DEF Receive, At, workerVars
<1>2. /\ input[c] \in Seq(STRING) /\ chunk \in Seq(STRING)
      /\ input' = [input EXCEPT ![c] = input[c] \o chunk]
  BY ChunksAssumption DEF ClientTypes, Receive
<1>3. /\ input[c] \o chunk \in Seq(STRING) /\ Len(input[c] \o chunk) >= Len(input[c])
      /\ Len(input[c]) \in Nat /\ Len(input[c] \o chunk) \in Nat
  BY <1>2, ConcatProperties, LenProperties
<1>4. input' \in [Clients -> Seq(STRING)] /\ next_line' = next_line
  BY <1>2, <1>3 DEF Receive, ClientTypes
<1>5. \A d \in Clients : next_line'[d] \in 0 .. Len(input'[d])
  BY <1>2, <1>3, <1>4 DEF ClientTypes
<1> QED BY <1>1, <1>4, <1>5, MoveType DEF Receive, ClientTypes, ClientState

(* One line of it goes to the manager.                                     *)
LEMMA AddLineType ==
    ASSUME ClientTypes, NEW c \in Clients, AddTask(c), UNCHANGED orderly
    PROVE  ClientTypes'
<1> DEFINE p == next_line[c] + 1
           r == add_task(manager[c], input[c][p], p)
<1>1. /\ pc[c] = "receiving" /\ next_line[c] < Len(input[c])
      /\ manager' = [manager EXCEPT ![c] = r.manager]
      /\ next_line' = [next_line EXCEPT ![c] = p]
      /\ UNCHANGED <<threads_initialized, contexts, input, connects, threads_left, terminated>>
  BY DEF AddTask, At
<1>2. p \in Nat /\ p <= Len(input[c])
  BY <1>1, LenProperties DEF ClientTypes
<1>3. r.manager \in Manager
  BY <1>2, AddTaskType DEF ClientTypes
<1>4. /\ manager' \in [Clients -> Manager] /\ next_line' \in [Clients -> Nat]
      /\ \A d \in Clients : next_line'[d] \in 0 .. Len(input'[d])
  <2> HIDE DEF p, r
  <2>1. manager' \in [Clients -> Manager] /\ next_line' \in [Clients -> Nat]
    BY <1>1, <1>2, <1>3 DEF ClientTypes
  <2>2. p \in 0 .. Len(input[c])
    BY <1>2, LenProperties DEF ClientTypes
  <2>3. next_line'[c] = p /\ \A d \in Clients \ {c} : next_line'[d] = next_line[d]
    BY <1>1 DEF ClientTypes
  <2> QED BY <1>1, <2>1, <2>2, <2>3 DEF ClientTypes
<1>5. \/ UNCHANGED <<unnotified, pc>>
      \/ unnotified' = unnotified \cup {c} /\ Go(c, "notifying")
  BY DEF AddTask, workerVars, Submit
<1>6. CASE UNCHANGED <<unnotified, pc>>
  BY <1>1, <1>4, <1>6 DEF ClientTypes
<1>7. CASE unnotified' = unnotified \cup {c} /\ Go(c, "notifying")
  BY <1>1, <1>4, <1>7, MoveType DEF ClientTypes, ClientState
<1> QED BY <1>5, <1>6, <1>7

(* Steps that change no more than where the client is and what it holds of *)
(* the shared state.                                                       *)
LEMMA EndReceiveType ==
    ASSUME ClientTypes, NEW c \in Clients, Notify(c) \/ EndReceive(c), UNCHANGED orderly
    PROVE  ClientTypes'
<1>1. CASE Notify(c)
  BY <1>1, MoveType DEF Notify, NotifyAll, ClientTypes, ClientState
<1>2. CASE EndReceive(c)
  <2>1. unnotified' = unnotified \ {c}
    BY <1>2, StillNotified DEF EndReceive, At, workerVars
  <2> QED BY <1>2, <2>1, MoveType DEF EndReceive, ClientTypes, ClientState
<1> QED BY <1>1, <1>2

(* disconnect finishes the block and takes the context out of the map.     *)
LEMMA DisconnectType ==
    ASSUME ClientTypes, NEW c \in Clients, Disconnect(c), UNCHANGED orderly
    PROVE  ClientTypes'
<1>1. /\ manager' \in [Clients -> Manager] /\ pc[c] = "connected"
      /\ UNCHANGED <<threads_initialized, input, next_line, connects, threads_left, terminated>>
  BY NewManagerType DEF Disconnect, At, ClientTypes
<1>2. \/ unnotified' = unnotified \cup {c} /\ Go(c, "finishing") /\ contexts' = contexts
      \/ unnotified' = unnotified /\ Go(c, "checking") /\ contexts' = contexts \ {c}
  BY DEF Disconnect, Submit, workerVars
<1>3. CASE unnotified' = unnotified \cup {c} /\ Go(c, "finishing") /\ contexts' = contexts
  BY <1>1, <1>3, MoveType DEF ClientTypes, ClientState
<1>4. CASE unnotified' = unnotified /\ Go(c, "checking") /\ contexts' = contexts \ {c}
  <2>1. unnotified' = unnotified \ {c} /\ contexts' \subseteq Clients
    BY <1>1, <1>4, StillNotified DEF ClientTypes
  <2> QED BY <1>1, <1>4, <2>1, MoveType DEF ClientTypes, ClientState
<1> QED BY <1>2, <1>3, <1>4

(* The last steps of a disconnect.                                         *)
LEMMA LeaveType ==
    ASSUME ClientTypes, NEW c \in Clients, Erase(c) \/ CheckLast(c) \/ StopThreads(c),
           UNCHANGED orderly
    PROVE  ClientTypes'
<1>1. CASE Erase(c)
  BY <1>1, MoveType DEF Erase, NotifyAll, ClientTypes, ClientState
<1>2. CASE CheckLast(c)
  <2>1. unnotified' = unnotified \ {c}
    BY <1>2, StillNotified DEF CheckLast, At, workerVars
  <2>2. Go(c, "stopping") \/ Go(c, "out")
    BY <1>2 DEF CheckLast
  <2> QED BY <1>2, <2>1, <2>2, MoveType DEF CheckLast, ClientTypes, ClientState
<1>3. CASE StopThreads(c)
  <2>1. unnotified' = unnotified \ {c}
    BY <1>3, StillNotified DEF StopThreads, At, workerVars, SetTerminate
  <2>2. Go(c, "waking") \/ Go(c, "out")
    BY <1>3 DEF StopThreads
  <2> QED BY <1>3, <2>1, <2>2, MoveType DEF StopThreads, ClientTypes, ClientState
<1> QED BY <1>1, <1>2, <1>3

(* The threads are told that they should end.                              *)
LEMMA WakeWorkersType ==
    ASSUME ClientTypes, NEW c \in Clients, WakeWorkers(c), UNCHANGED orderly
    PROVE  ClientTypes'
<1>1. unnotified' = unnotified \ {c}
  BY StillNotified DEF WakeWorkers, At, NotifyStop
<1>2. /\ threads_left' \in [Clients -> Seq(Workers)] /\ threads_left'[c] # <<>>
      /\ \A d \in Clients \ {c} : threads_left'[d] = threads_left[d]
  BY ThreadOrderType DEF WakeWorkers, ClientTypes
<1> QED BY <1>1, <1>2, MoveType DEF WakeWorkers, ClientTypes, ClientState

(* The next thread is joined.                                              *)
LEMMA JoinNextType ==
    ASSUME ClientTypes, NEW c \in Clients, JoinNext(c), UNCHANGED orderly
    PROVE  ClientTypes'
<1> DEFINE q == threads_left[c]
           state == IF Len(q) = 1 THEN "out" ELSE "joining"
<1>1. q \in Seq(Workers) /\ q # <<>> /\ pc[c] = "joining"
  BY DEF ClientTypes, JoinNext, At
<1>2. unnotified' = unnotified \ {c}
  BY <1>1, StillNotified DEF JoinNext, Join
<1>3. /\ UNCHANGED <<contexts, manager, input, next_line, threads_initialized, connects,
                     terminated>>
      /\ Go(c, state) /\ threads_left' = [threads_left EXCEPT ![c] = Tail(q)]
  BY DEF JoinNext
<1>4. Tail(q) \in Seq(Workers) /\ (state = "joining" => Tail(q) # <<>>)
  BY <1>1, NextThread
<1>5. /\ threads_left' \in [Clients -> Seq(Workers)] /\ threads_left'[c] = Tail(q)
      /\ \A d \in Clients \ {c} : threads_left'[d] = threads_left[d]
  BY <1>3, <1>4 DEF ClientTypes
<1>6. state \in ClientState /\ state \in {"out", "joining"}
  BY DEF ClientState
<1> HIDE DEF state, q
<1> QED BY <1>2, <1>3, <1>4, <1>5, <1>6, MoveType DEF ClientTypes

(* Every step keeps the types.                                             *)
LEMMA ClientTypesStep == ClientTypes /\ [Next]_vars => ClientTypes'
<1> SUFFICES ASSUME ClientTypes, [Next]_vars PROVE ClientTypes'
  OBVIOUS
<1>1. ASSUME NEW c \in Clients, ClientStep(c), UNCHANGED orderly PROVE ClientTypes'
  BY <1>1, ConnectType, StartNextType, InsertType, ReceiveType, AddLineType, EndReceiveType,
     DisconnectType, LeaveType, WakeWorkersType, JoinNextType DEF ClientStep, InCall
<1>2. ASSUME NEW w \in Workers, Worker(w) \/ Wakeup(w) PROVE ClientTypes'
  <2>1. UNCHANGED clientVars
    BY <1>2 DEF Worker, Wakeup
  <2>2. UNCHANGED unnotified
    BY <1>2 DEF Worker, Wakeup, WorkerStep, LeaveLoop, DecideToSleep, FallAsleep, Take,
                WriteLog, WriteFile, SpuriousWakeup
  <2> QED BY <2>1, <2>2 DEF clientVars, ClientTypes
<1>3. CASE UNCHANGED vars
  BY <1>3 DEF vars, ClientTypes
<1> QED BY <1>1, <1>2, <1>3 DEF Next

(* The types hold when nobody has called anything.                         *)
LEMMA ClientTypesInit == Init => ClientTypes
<1> SUFFICES ASSUME Init PROVE ClientTypes
  OBVIOUS
<1>1. <<>> \in Seq(STRING) /\ <<>> \in Seq(Workers) /\ Len(<<>>) = 0
  BY EmptySeq
<1>2. input \in [Clients -> Seq(STRING)] /\ threads_left \in [Clients -> Seq(Workers)]
  BY <1>1 DEF Init
<1>3. next_line \in [Clients -> Nat] /\ \A c \in Clients : next_line[c] \in 0 .. Len(input[c])
  BY <1>1 DEF Init
<1>4. connects \in [Clients -> 0 .. MaxConnects] /\ manager \in [Clients -> Manager]
  BY NewManagerType, BoundsAssumption DEF Init
<1>5. pc \in [Clients -> ClientState] /\ \A c \in Clients : pc[c] = "out"
  BY DEF Init, ClientState
<1>6. unnotified = {c \in Clients : pc[c] \in {"notifying", "finishing"}}
  BY <1>5 DEF Init, WorkersInit
<1> QED BY <1>2, <1>3, <1>4, <1>5, <1>6 DEF Init, ClientTypes

-----------------------------------------------------------------------------
(***************************************************************************)
(*                       The output threads, used                          *)
(***************************************************************************)

(* What a client does to the output threads is a step of OutputWorkers.    *)
LEMMA ClientUsesWorkers ==
    ASSUME ClientTypes, NEW c \in Clients, ClientStep(c)
    PROVE  [WorkersNext]_workerVars
<1> c \in Submitters
  BY ClientsAssumption
<1>1. CASE StartNext(c)
  <2>1. Head(threads_left[c]) \in Workers
    BY <1>1, NextThread DEF StartNext, At, ClientTypes
  <2> QED BY <1>1, <2>1 DEF StartNext, WorkersNext
<1>2. CASE JoinNext(c)
  <2>1. Head(threads_left[c]) \in Workers
    BY <1>2, NextThread DEF JoinNext, At, ClientTypes
  <2> QED BY <1>2, <2>1 DEF JoinNext, WorkersNext
<1>3. CASE Connect(c) \/ Insert(c) \/ EndReceive(c) \/ CheckLast(c)
           \/ \E chunk \in Chunks : Receive(c, chunk)
  BY <1>3 DEF Connect, Insert, EndReceive, CheckLast, Receive
<1>4. CASE AddTask(c) \/ Disconnect(c)
  <2>1. UNCHANGED workerVars \/ \E block : Submit(c, block)
    BY <1>4 DEF AddTask, Disconnect
  <2> QED BY <2>1 DEF WorkersNext
<1>5. CASE Notify(c) \/ Erase(c)
  BY <1>5 DEF Notify, Erase, WorkersNext
<1>6. CASE StopThreads(c) \/ WakeWorkers(c)
  BY <1>6 DEF StopThreads, WakeWorkers, WorkersNext
<1> QED BY <1>1, <1>2, <1>3, <1>4, <1>5, <1>6 DEF ClientStep, InCall

(***************************************************************************)
(* The library uses the output threads in no other way than OutputWorkers  *)
(* allows: what is proved of them holds of it.                             *)
(***************************************************************************)
THEOREM LibraryUsesWorkers == Spec => WorkersSpec
<1>1. Init => WorkersInit
  BY DEF Init
<1>2. ClientTypes /\ [Next]_vars => [WorkersNext]_workerVars
  <2> SUFFICES ASSUME ClientTypes, [Next]_vars PROVE [WorkersNext]_workerVars
    OBVIOUS
  <2>1. ASSUME NEW w \in Workers, Worker(w) \/ Wakeup(w) PROVE WorkersNext
    BY <2>1 DEF Worker, Wakeup, WorkersNext
  <2>2. CASE UNCHANGED vars
    BY <2>2 DEF vars, workerVars
  <2> QED BY <2>1, <2>2, ClientUsesWorkers DEF Next
<1> QED BY <1>1, <1>2, ClientTypesInit, ClientTypesStep, PTL DEF Spec, WorkersSpec

(***************************************************************************)
(* Every variable of the library keeps its type; in particular a client has*)
(* pushed without having notified exactly inside receive and disconnect.   *)
(***************************************************************************)
THEOREM LibraryTypeCorrect == Spec => []TypeOK
<1>1. ClientTypes /\ WorkersTypeOK => TypeOK
  BY DEF ClientTypes, TypeOK
<1> QED BY <1>1, ClientTypesInit, ClientTypesStep, LibraryUsesWorkers, WorkersTypeCorrect,
           PTL DEF Spec

(***************************************************************************)
(* The console of the library shows every block once, in order, its files  *)
(* hold every block once under names that differ, and no worker misses one.*)
(***************************************************************************)
THEOREM LibraryOutput ==
    Spec => [](LoggedInOrder /\ OneFilePerBlock /\ FileNamesDiffer /\ NoBlockMissed)
BY LibraryUsesWorkers, ConsoleInOrder, BlocksReachOneFile, NamesAreUnique, NoWakeupLost, PTL

-----------------------------------------------------------------------------
(***************************************************************************)
(*                       What add_task does                                *)
(***************************************************************************)

(* The block being formed: static outside braces, dynamic inside.          *)
Forming(m) == m.static \o m.dynamic
OneForming(m) == IF m.nesting > 0 THEN m.static = <<>> ELSE m.dynamic = <<>>

(* Which of the two blocks of a manager is being formed.                   *)
LEMMA FormingIs ==
    ASSUME NEW m \in Manager, OneForming(m)
    PROVE  /\ m.nesting > 0 => Forming(m) = m.dynamic
           /\ ~(m.nesting > 0) => Forming(m) = m.static
           /\ Forming(m) \in Seq(Nat)
<1>1. m.static \in Seq(Nat) /\ m.dynamic \in Seq(Nat)
  BY DEF Manager
<1>2. m.dynamic = <<>> => m.static \o m.dynamic = m.static
  BY <1>1, ConcatEmptySeq
<1>3. m.static = <<>> => m.static \o m.dynamic = m.dynamic
  BY <1>1, ConcatEmptySeq
<1> QED BY <1>1, <1>2, <1>3 DEF OneForming, Forming

(***************************************************************************)
(* The four things add_task can do: a brace that begins or ends a block, a *)
(* brace inside a dynamic block, a command that completes a static block,  *)
(* and a command that is added to the block being formed.                  *)
(***************************************************************************)
PairBrace(m, text) == text = LeftBrace \/ (text = RightBrace /\ m.nesting > 0)

AddTaskDoes(m, text, p, r) ==
    /\ r.manager \in Manager /\ OneForming(r.manager)
    /\ r.manager.nesting = After(m.nesting, text)
    /\ \/ PairBrace(m, text) /\ r.block = Forming(m) /\ Forming(r.manager) = <<>>
       \/ /\ PairBrace(m, text) /\ r.block = <<>> /\ Forming(r.manager) = Forming(m)
          /\ m.nesting > 0 /\ r.manager.nesting > 0
       \/ /\ ~PairBrace(m, text)
          /\ r.block = Append(Forming(m), p) /\ Forming(r.manager) = <<>>
          /\ m.nesting = 0 /\ r.manager.nesting = 0
       \/ /\ ~PairBrace(m, text)
          /\ r.block = <<>> /\ Forming(r.manager) = Append(Forming(m), p)
          /\ r.manager.nesting = m.nesting
          /\ m.nesting > 0 \/ Len(Forming(m)) + 1 < Bulk

(* The fields of a manager after one of its updates.                       *)
LEMMA ManagerUpdates ==
    ASSUME NEW m \in Manager, NEW x, NEW y
    PROVE  /\ [m EXCEPT !.nesting = x] = [nesting |-> x, static |-> m.static, dynamic |-> m.dynamic]
           /\ [m EXCEPT !.static = y]
                = [nesting |-> m.nesting, static |-> y, dynamic |-> m.dynamic]
           /\ [m EXCEPT !.dynamic = y]
                = [nesting |-> m.nesting, static |-> m.static, dynamic |-> y]
           /\ [m EXCEPT !.nesting = x, !.static = y]
                = [nesting |-> x, static |-> y, dynamic |-> m.dynamic]
           /\ [m EXCEPT !.nesting = x, !.dynamic = y]
                = [nesting |-> x, static |-> m.static, dynamic |-> y]
<1> DEFINE m2 == [nesting |-> x, static |-> m.static, dynamic |-> m.dynamic]
<1>1. m = [nesting |-> m.nesting, static |-> m.static, dynamic |-> m.dynamic]
  BY DEF Manager
<1>2. [m EXCEPT !.nesting = x] = m2
  BY <1>1
<1>3. [m EXCEPT !.static = y] = [nesting |-> m.nesting, static |-> y, dynamic |-> m.dynamic]
  BY <1>1
<1>4. [m EXCEPT !.dynamic = y] = [nesting |-> m.nesting, static |-> m.static, dynamic |-> y]
  BY <1>1
<1>5. /\ [m EXCEPT !.nesting = x, !.static = y] = [m2 EXCEPT !.static = y]
      /\ [m EXCEPT !.nesting = x, !.dynamic = y] = [m2 EXCEPT !.dynamic = y]
  BY <1>2, Zenon
<1>6. [m2 EXCEPT !.static = y] = [nesting |-> x, static |-> y, dynamic |-> m.dynamic]
  OBVIOUS
<1>7. [m2 EXCEPT !.dynamic = y] = [nesting |-> x, static |-> m.static, dynamic |-> y]
  OBVIOUS
<1> QED BY <1>2, <1>3, <1>4, <1>5, <1>6, <1>7

(* add_task, case by case.                                                 *)
LEMMA AddTaskCases ==
    ASSUME NEW m \in Manager, OneForming(m), NEW text, NEW p \in Nat
    PROVE  AddTaskDoes(m, text, p, add_task(m, text, p))
<1> SUFFICES ASSUME NEW r, r = add_task(m, text, p) PROVE AddTaskDoes(m, text, p, r)
  OBVIOUS
<1>1. /\ m.nesting \in Nat /\ m.static \in Seq(Nat) /\ m.dynamic \in Seq(Nat)
      /\ m = [nesting |-> m.nesting, static |-> m.static, dynamic |-> m.dynamic]
      /\ Bulk \in Nat /\ Len(m.static) \in Nat
  BY BulkAssumption, LenProperties DEF Manager
<1>2. r.manager \in Manager
  BY AddTaskType
<1>3. CASE text = LeftBrace /\ m.nesting > 0
  <2>1. r = [manager |-> [m EXCEPT !.nesting = m.nesting + 1], block |-> <<>>]
    BY <1>3, BracesDiffer DEF add_task, OpenBrace, is_dynamic_block_active
  <2>2. /\ r.manager.nesting = m.nesting + 1 /\ r.manager.static = m.static
        /\ r.manager.dynamic = m.dynamic /\ r.block = <<>>
    <3>1. r = [manager |-> [nesting |-> m.nesting + 1, static |-> m.static,
                             dynamic |-> m.dynamic],
               block |-> <<>>]
      BY <2>1, ManagerUpdates, ZenonT(40)
    <3> QED BY <3>1
  <2>3. After(m.nesting, text) = m.nesting + 1
    BY <1>3, BracesDiffer DEF After
  <2>4. OneForming(r.manager) /\ Forming(r.manager) = Forming(m) /\ r.manager.nesting > 0
    <3>1. r.manager.nesting > 0
      BY <1>1, <2>2
    <3>2. OneForming(r.manager)
      BY <1>3, <2>2, <3>1 DEF OneForming
    <3> QED BY <2>2, <3>1, <3>2 DEF Forming
  <2> QED BY <1>2, <1>3, <2>2, <2>3, <2>4 DEF AddTaskDoes, PairBrace
<1>4. CASE text = LeftBrace /\ ~(m.nesting > 0)
  <2>1. r = [manager |-> [m EXCEPT !.nesting = m.nesting + 1, !.static = <<>>], block |-> m.static]
    BY <1>4, BracesDiffer DEF add_task, OpenBrace, is_dynamic_block_active
  <2>2. /\ r.manager.nesting = m.nesting + 1 /\ r.manager.static = <<>>
        /\ r.manager.dynamic = m.dynamic /\ r.block = m.static
    <3>1. r = [manager |-> [nesting |-> m.nesting + 1, static |-> <<>>,
                             dynamic |-> m.dynamic],
               block |-> m.static]
      BY <2>1, ManagerUpdates, ZenonT(40)
    <3> QED BY <3>1
  <2>3. After(m.nesting, text) = m.nesting + 1
    BY <1>4, BracesDiffer DEF After
  <2>4. OneForming(r.manager) /\ Forming(r.manager) = <<>> /\ Forming(m) = m.static
    <3>1. OneForming(r.manager) /\ r.manager.nesting > 0 /\ m.dynamic = <<>>
      BY <1>1, <1>4, <2>2 DEF OneForming
    <3> QED BY <1>2, <1>4, <2>2, <3>1, FormingIs
  <2>5. r.manager.nesting = After(m.nesting, text) /\ r.block = Forming(m)
    BY <2>2, <2>3, <2>4
  <2>6. PairBrace(m, text)
    BY <1>4 DEF PairBrace
  <2> QED BY <1>2, <2>4, <2>5, <2>6 DEF AddTaskDoes
<1>5. CASE text = RightBrace /\ m.nesting > 0 /\ m.nesting # 1
  <2>1. r = [manager |-> [m EXCEPT !.nesting = m.nesting - 1], block |-> <<>>]
    BY <1>5, BracesDiffer DEF add_task, CloseBrace
  <2>2. /\ r.manager.nesting = m.nesting - 1 /\ r.manager.static = m.static
        /\ r.manager.dynamic = m.dynamic /\ r.block = <<>>
    <3>1. r = [manager |-> [nesting |-> m.nesting - 1, static |-> m.static,
                             dynamic |-> m.dynamic],
               block |-> <<>>]
      BY <2>1, ManagerUpdates, ZenonT(40)
    <3> QED BY <3>1
  <2>3. After(m.nesting, text) = m.nesting - 1 /\ m.nesting - 1 > 0
    BY <1>1, <1>5, BracesDiffer DEF After
  <2>4. OneForming(r.manager) /\ Forming(r.manager) = Forming(m) /\ r.manager.nesting > 0
    BY <1>1, <1>5, <2>2, <2>3 DEF OneForming, Forming
  <2> QED BY <1>2, <1>5, <2>2, <2>3, <2>4 DEF AddTaskDoes, PairBrace
<1>6. CASE text = RightBrace /\ m.nesting = 1
  <2>1. r = [manager |-> [m EXCEPT !.nesting = 0, !.dynamic = <<>>], block |-> m.dynamic]
    BY <1>6, BracesDiffer DEF add_task, CloseBrace
  <2>2. /\ r.manager.nesting = 0 /\ r.manager.static = m.static
        /\ r.manager.dynamic = <<>> /\ r.block = m.dynamic
    <3>1. r = [manager |-> [nesting |-> 0, static |-> m.static,
                             dynamic |-> <<>>],
               block |-> m.dynamic]
      BY <2>1, ManagerUpdates, ZenonT(40)
    <3> QED BY <3>1
  <2>3. After(m.nesting, text) = 0
    BY <1>1, <1>6, BracesDiffer DEF After
  <2>4. OneForming(r.manager) /\ Forming(r.manager) = <<>> /\ Forming(m) = m.dynamic
    <3>1. OneForming(r.manager) /\ ~(r.manager.nesting > 0) /\ m.static = <<>>
      BY <1>1, <1>6, <2>2 DEF OneForming
    <3> QED BY <1>2, <1>6, <2>2, <3>1, FormingIs
  <2> QED BY <1>1, <1>2, <1>6, <2>2, <2>3, <2>4 DEF AddTaskDoes, PairBrace
<1>7. CASE text # LeftBrace /\ ~(text = RightBrace /\ m.nesting > 0)
  <2>1. r = Command(m, p) /\ After(m.nesting, text) = m.nesting
    BY <1>7 DEF add_task, After
  <2>2. CASE m.nesting > 0
    <3>1. r = [manager |-> [m EXCEPT !.dynamic = Append(m.dynamic, p)], block |-> <<>>]
      BY <2>1, <2>2 DEF Command, is_dynamic_block_active
    <3>2. /\ r.manager.nesting = m.nesting /\ r.manager.static = m.static
          /\ r.manager.dynamic = Append(m.dynamic, p) /\ r.block = <<>>
      <4>1. r = [manager |-> [nesting |-> m.nesting, static |-> m.static,
                               dynamic |-> Append(m.dynamic, p)],
                 block |-> <<>>]
        BY <3>1, ManagerUpdates, ZenonT(40)
      <4> QED BY <4>1
    <3>3. OneForming(r.manager) /\ Forming(m) = m.dynamic
          /\ Forming(r.manager) = Append(m.dynamic, p)
      <4>1. OneForming(r.manager) /\ r.manager.nesting > 0
        BY <2>2, <3>2 DEF OneForming
      <4> QED BY <1>2, <2>2, <3>2, <4>1, FormingIs
    <3> QED BY <1>1, <1>2, <1>7, <2>1, <2>2, <3>2, <3>3 DEF AddTaskDoes, PairBrace
  <2>3. CASE ~(m.nesting > 0) /\ Len(m.static) + 1 >= Bulk
    <3>1. r = [manager |-> [m EXCEPT !.static = <<>>], block |-> Append(m.static, p)]
      BY <2>1, <2>3 DEF Command, is_dynamic_block_active
    <3>2. /\ r.manager.nesting = m.nesting /\ r.manager.static = <<>>
          /\ r.manager.dynamic = m.dynamic /\ r.block = Append(m.static, p)
      <4>1. r = [manager |-> [nesting |-> m.nesting, static |-> <<>>,
                               dynamic |-> m.dynamic],
                 block |-> Append(m.static, p)]
        BY <3>1, ManagerUpdates, ZenonT(40)
      <4> QED BY <4>1
    <3>3. OneForming(r.manager) /\ Forming(m) = m.static /\ Forming(r.manager) = <<>>
      <4>1. OneForming(r.manager) /\ ~(r.manager.nesting > 0)
        BY <2>3, <3>2 DEF OneForming
      <4> QED BY <1>2, <2>3, <3>2, <4>1, FormingIs
    <3> QED BY <1>1, <1>2, <1>7, <2>1, <2>3, <3>2, <3>3 DEF AddTaskDoes, PairBrace
  <2>4. CASE ~(m.nesting > 0) /\ ~(Len(m.static) + 1 >= Bulk)
    <3>1. r = [manager |-> [m EXCEPT !.static = Append(m.static, p)], block |-> <<>>]
      BY <2>1, <2>4 DEF Command, is_dynamic_block_active
    <3>2. /\ r.manager.nesting = m.nesting /\ r.manager.static = Append(m.static, p)
          /\ r.manager.dynamic = m.dynamic /\ r.block = <<>>
      <4>1. r = [manager |-> [nesting |-> m.nesting, static |-> Append(m.static, p),
                               dynamic |-> m.dynamic],
                 block |-> <<>>]
        BY <3>1, ManagerUpdates, ZenonT(40)
      <4> QED BY <4>1
    <3>3. OneForming(r.manager) /\ Forming(m) = m.static
          /\ Forming(r.manager) = Append(m.static, p)
      <4>1. OneForming(r.manager) /\ ~(r.manager.nesting > 0)
        BY <2>4, <3>2 DEF OneForming
      <4> QED BY <1>2, <2>4, <3>2, <4>1, FormingIs
    <3>4. Len(m.static) + 1 < Bulk
      BY <1>1, <2>4
    <3> QED BY <1>1, <1>2, <1>7, <2>1, <2>4, <3>2, <3>3, <3>4 DEF AddTaskDoes, PairBrace
  <2> QED BY <2>2, <2>3, <2>4
<1> QED BY <1>1, <1>3, <1>4, <1>5, <1>6, <1>7

-----------------------------------------------------------------------------
(***************************************************************************)
(*              The manager of a context and its blocks                    *)
(***************************************************************************)

(* What a manager holds after the first n lines of an input.               *)
ManagerInv(m, lines, n) ==
    /\ m \in Manager /\ OneForming(m)
    /\ m.nesting = Depth(lines)[n]
    /\ \A j \in 1 .. Len(Forming(m)) : Forming(m)[j] \in 1 .. n
    /\ Increasing(Forming(m))
    /\ \A j \in 1 .. Len(Forming(m)) : \A k \in Forming(m)[j] .. n :
          Depth(lines)[k] > 0 <=> m.nesting > 0
    /\ m.nesting > 0 \/ Len(Forming(m)) = 0 \/ Len(Forming(m)) < Bulk

(* What a block pushed after n lines is.                                   *)
BlockInv(b, lines, n) ==
    /\ b \in Seq(Nat) /\ b # <<>>
    /\ \A j \in 1 .. Len(b) : b[j] \in 1 .. n
    /\ Increasing(b)
    /\ OneKind(lines, b)
    /\ Depth(lines)[b[1]] = 0 => Len(b) = 1 \/ Len(b) <= Bulk

(* A manager that has been given no line.                                  *)
LEMMA NewManagerInv ==
    ASSUME NEW lines, Len(lines) \in Nat
    PROVE  ManagerInv(NewManager, lines, 0)
<1>1. /\ NewManager \in Manager /\ NewManager.nesting = 0
      /\ NewManager.static = <<>> /\ NewManager.dynamic = <<>>
  BY NewManagerType DEF NewManager
<1>2. OneForming(NewManager)
  BY <1>1 DEF OneForming
<1>3. Forming(NewManager) = <<>> /\ Len(<<>>) = 0
  BY <1>1, <1>2, FormingIs, EmptySeq
<1> QED BY <1>1, <1>2, <1>3, DepthDef DEF ManagerInv, Increasing

(* A block that is what was being formed.                                  *)
LEMMA FormedBlock ==
    ASSUME NEW m, NEW lines, NEW n \in Nat, ManagerInv(m, lines, n), Forming(m) # <<>>,
           Len(lines) \in Nat
    PROVE  BlockInv(Forming(m), lines, n)
<1> DEFINE b == Forming(m)
<1>1. b \in Seq(Nat) /\ Len(b) \in Nat /\ Len(b) > 0 /\ m.nesting \in Nat /\ Bulk \in Nat
  <2>1. b \in Seq(Nat)
    BY FormingIs DEF ManagerInv
  <2>2. m.nesting \in Nat
    BY DEF ManagerInv, Manager
  <2> QED BY <2>1, <2>2, EmptySeq, LenProperties, BulkAssumption
<1>2. \A j \in 1 .. Len(b) : b[j] \in 1 .. n
  BY DEF ManagerInv
<1>3. Increasing(b)
  BY DEF ManagerInv
<1>4. \A j \in 1 .. Len(b) : \A k \in b[j] .. n : Depth(lines)[k] > 0 <=> m.nesting > 0
  BY DEF ManagerInv
<1>5. OneKind(lines, b)
  <2>1. ASSUME NEW i \in 1 .. Len(b), NEW j \in 1 .. Len(b), i < j, NEW k \in b[i] .. b[j]
        PROVE  Depth(lines)[k] > 0 <=> Depth(lines)[b[i]] > 0
    <3>1. k \in b[i] .. n /\ b[i] \in b[i] .. n
      BY <1>2, <2>1
    <3> QED BY <1>4, <3>1
  <2> HIDE DEF b
  <2> QED BY <2>1 DEF OneKind
<1>6. Depth(lines)[b[1]] = 0 => Len(b) <= Bulk
  <2>1. 1 \in 1 .. Len(b) /\ b[1] \in b[1] .. n
    BY <1>1, <1>2
  <2>2. Depth(lines)[b[1]] > 0 <=> m.nesting > 0
    BY <1>4, <2>1
  <2>3. m.nesting > 0 \/ Len(b) = 0 \/ Len(b) < Bulk
    BY DEF ManagerInv
  <2> QED BY <1>1, <2>2, <2>3
<1> QED BY <1>1, <1>2, <1>3, <1>5, <1>6 DEF BlockInv

(***************************************************************************)
(* One line more: the manager keeps its invariant, the block it hands over *)
(* is as it should be, and together they hold what the manager held and the*)
(* line, if that is a command.                                             *)
(***************************************************************************)
LEMMA AddTaskKeeps ==
    ASSUME NEW m, NEW lines \in Seq(STRING), NEW n \in Nat, n < Len(lines),
           ManagerInv(m, lines, n), NEW r, r = add_task(m, lines[n + 1], n + 1)
    PROVE  /\ ManagerInv(r.manager, lines, n + 1)
           /\ r.block # <<>> =>
                BlockInv(r.block, lines, n + 1) /\ Forming(r.manager) = <<>>
           /\ Positions(r.block) \cup Positions(Forming(r.manager))
                = Positions(Forming(m)) \cup {p \in CommandsOf(lines) : p = n + 1}
<1> DEFINE f == Forming(m)
           g == Forming(r.manager)
           p == n + 1
           text == lines[p]
           depth == Depth(lines)
           commands == {q \in CommandsOf(lines) : q = n + 1}
<1>1. /\ m \in Manager /\ OneForming(m) /\ m.nesting \in Nat /\ m.nesting = depth[n]
      /\ f \in Seq(Nat) /\ Len(f) \in Nat /\ Bulk \in Nat /\ Len(lines) \in Nat
      /\ p \in 1 .. Len(lines) /\ p \in Nat /\ Len(<<>>) = 0 /\ n \in 0 .. Len(lines)
  BY FormingIs, LenProperties, BulkAssumption, EmptySeq DEF ManagerInv, Manager
<1>2. AddTaskDoes(m, text, p, r)
  BY <1>1, AddTaskCases
<1>3. /\ depth[p] = After(m.nesting, text) /\ depth[p] = r.manager.nesting
      /\ r.manager \in Manager /\ OneForming(r.manager) /\ r.manager.nesting \in Nat
  <2>1. depth[p] = After(depth[p - 1], text) /\ p - 1 = n
    BY <1>1, DepthDef
  <2> QED BY <1>1, <1>2, <2>1 DEF AddTaskDoes, Manager
<1>4. p \in CommandsOf(lines) <=> ~PairBrace(m, text)
  <2>1. p - 1 = n /\ depth[p - 1] = m.nesting
    BY <1>1
  <2> HIDE DEF p, depth
  <2> QED BY <1>1, <2>1 DEF CommandsOf, PairBrace, depth
<1>5. /\ PairBrace(m, text) => commands = {}
      /\ ~PairBrace(m, text) => commands = {p}
  BY <1>4
<1>6. Positions(<<>>) = {} /\ Increasing(<<>>)
  BY <1>1 DEF Positions, Increasing
<1>7. /\ Increasing(f) /\ \A j \in 1 .. Len(f) : f[j] \in 1 .. n
      /\ \A j \in 1 .. Len(f) : \A k \in f[j] .. n : depth[k] > 0 <=> m.nesting > 0
      /\ m.nesting > 0 \/ Len(f) = 0 \/ Len(f) < Bulk
  BY DEF ManagerInv
<1>8. CASE PairBrace(m, text) /\ r.block = f /\ g = <<>>
  <2>1. ManagerInv(r.manager, lines, p)
    BY <1>1, <1>3, <1>6, <1>8 DEF ManagerInv
  <2>2. f # <<>> => BlockInv(f, lines, n)
    BY <1>1, FormedBlock
  <2>3. f # <<>> => BlockInv(f, lines, p)
    BY <1>1, <2>2 DEF BlockInv
  <2> QED BY <1>5, <1>6, <1>8, <2>1, <2>3
<1>9. CASE /\ PairBrace(m, text) /\ r.block = <<>> /\ g = f
           /\ m.nesting > 0 /\ r.manager.nesting > 0
  <2>1. ASSUME NEW j \in 1 .. Len(f), NEW k \in f[j] .. p
        PROVE  depth[k] > 0 <=> r.manager.nesting > 0
    <3> HIDE DEF f, depth
    <3>1. f[j] \in 1 .. n
      BY <1>7
    <3>2. k \in f[j] .. n \/ k = p
      BY <1>1, <3>1
    <3>3. k \in f[j] .. n => (depth[k] > 0)
      BY <1>7, <1>9
    <3>4. k = p => (depth[k] > 0)
      BY <1>3, <1>9
    <3> QED BY <1>9, <3>2, <3>3, <3>4
  <2>2. \A j \in 1 .. Len(f) : f[j] \in 1 .. p
    BY <1>1, <1>7
  <2>3. ManagerInv(r.manager, lines, p)
    BY <1>3, <1>7, <1>9, <2>1, <2>2 DEF ManagerInv
  <2> QED BY <1>5, <1>6, <1>9, <2>3
<1>10. CASE /\ ~PairBrace(m, text) /\ r.block = Append(f, p) /\ g = <<>>
            /\ m.nesting = 0 /\ r.manager.nesting = 0
  <2>1. ManagerInv(r.manager, lines, p)
    BY <1>1, <1>3, <1>6, <1>10 DEF ManagerInv
  <2>2. /\ Append(f, p) \in Seq(Nat) /\ Append(f, p) # <<>> /\ Len(Append(f, p)) = Len(f) + 1
        /\ \A j \in 1 .. Len(f) : Append(f, p)[j] = f[j]
        /\ Append(f, p)[Len(f) + 1] = p
    <3> HIDE DEF f, p
    <3>1. f \in Seq(Nat) /\ p \in Nat
      BY <1>1
    <3> QED BY <3>1, AppendIs
  <2>3. /\ Increasing(Append(f, p))
        /\ \A j \in 1 .. Len(Append(f, p)) : Append(f, p)[j] \in 1 .. p
    BY <1>1, <1>7, AppendOrdered
  <2>4. OneKind(lines, Append(f, p))
    <3> DEFINE b == Append(f, p)
    <3>1. \A j \in 1 .. Len(f) : \A k \in f[j] .. n : ~(depth[k] > 0)
      BY <1>7, <1>10
    <3>2. ~(depth[p] > 0)
      BY <1>3, <1>10
    <3> HIDE DEF b, depth, f
    <3>3. ASSUME NEW i \in 1 .. Len(b), NEW j \in 1 .. Len(b), i < j, NEW k \in b[i] .. b[j]
          PROVE  ~(depth[k] > 0) /\ ~(depth[b[i]] > 0)
      <4>1. i \in 1 .. Len(f) /\ b[i] = f[i] /\ b[j] \in 1 .. p /\ b[i] \in 1 .. n
        <5>1. i \in 1 .. Len(f) /\ b[j] \in 1 .. p
          <6>1. Len(b) = Len(f) + 1 /\ \A l \in 1 .. Len(b) : b[l] \in 1 .. p
            BY <2>2, <2>3 DEF b
          <6>2. Len(f) \in Nat
            BY <1>1
          <6> QED BY <3>3, <6>1, <6>2
        <5>2. b[i] = f[i]
          BY <2>2, <5>1 DEF b
        <5> QED BY <1>7, <5>1, <5>2
      <4>2. b[i] \in f[i] .. n /\ (k \in f[i] .. n \/ k = p)
        BY <3>3, <4>1
      <4> QED BY <3>1, <3>2, <4>1, <4>2
    <3>4. OneKind(lines, b)
      BY <3>3 DEF OneKind, depth
    <3> QED BY <3>4 DEF b
  <2>5. Len(Append(f, p)) = 1 \/ Len(Append(f, p)) <= Bulk
    BY <1>1, <1>7, <1>10, <2>2
  <2>6. BlockInv(Append(f, p), lines, p)
    BY <2>2, <2>3, <2>4, <2>5 DEF BlockInv
  <2>7. Positions(Append(f, p)) = Positions(f) \cup {p}
    BY <1>1, AppendPositions
  <2> QED BY <1>5, <1>6, <1>10, <2>1, <2>6, <2>7
<1>11. CASE /\ ~PairBrace(m, text) /\ r.block = <<>> /\ g = Append(f, p)
            /\ r.manager.nesting = m.nesting
            /\ m.nesting > 0 \/ Len(f) + 1 < Bulk
  <2>1. /\ Len(g) = Len(f) + 1
        /\ \A j \in 1 .. Len(f) : g[j] = f[j]
        /\ g[Len(f) + 1] = p
    <3> HIDE DEF f, g, p
    <3>1. f \in Seq(Nat) /\ p \in Nat /\ g = Append(f, p)
      BY <1>1, <1>11
    <3> QED BY <3>1, AppendIs
  <2>2. Increasing(g) /\ \A j \in 1 .. Len(g) : g[j] \in 1 .. p
    BY <1>1, <1>7, <1>11, AppendOrdered
  <2>3. \A j \in 1 .. Len(g) : \A k \in g[j] .. p : depth[k] > 0 <=> r.manager.nesting > 0
    <3> HIDE DEF depth, f, g
    <3>1. ASSUME NEW j \in 1 .. Len(g), NEW k \in g[j] .. p
          PROVE  depth[k] > 0 <=> r.manager.nesting > 0
      <4>1. CASE k = p
        BY <1>3, <4>1
      <4>2. CASE k # p
        <5>1. j \in 1 .. Len(f) /\ k \in f[j] .. n
          BY <1>1, <2>1, <2>2, <3>1, <4>2
        <5> QED BY <1>7, <1>11, <5>1
      <4> QED BY <4>1, <4>2
    <3> QED BY <3>1
  <2>4. ManagerInv(r.manager, lines, p)
    BY <1>1, <1>3, <1>11, <2>1, <2>2, <2>3 DEF ManagerInv
  <2>5. Positions(g) = Positions(f) \cup {p}
    BY <1>1, <1>11, AppendPositions
  <2> QED BY <1>5, <1>6, <1>11, <2>4, <2>5
<1> QED BY <1>2, <1>8, <1>9, <1>10, <1>11 DEF AddTaskDoes

-----------------------------------------------------------------------------
(***************************************************************************)
(*                     The contexts and their blocks                       *)
(***************************************************************************)

(* A context holds, in its blocks and in its manager, what it was given.   *)
ContextInv(c) ==
    /\ pc[c] # "finishing" => ManagerInv(manager[c], input[c], next_line[c])
    /\ pc[c] = "finishing" => manager[c] = NewManager
    /\ \A i \in BlocksOf(c) :
          /\ BlockInv(submitted[i].commands, input[c], next_line[c])
          /\ Before(submitted[i].commands, Forming(manager[c]))
    /\ \A i, j \in BlocksOf(c) : i < j => Before(submitted[i].commands, submitted[j].commands)
    /\ (UNION {Positions(submitted[i].commands) : i \in BlocksOf(c)})
            \cup Positions(Forming(manager[c]))
         = {p \in CommandsOf(input[c]) : p <= next_line[c]}

(* No block is ahead of the connects of its client, so a context begins    *)
(* without blocks; and a client is inside its calls on it until the erase. *)
NumbersInv ==
    /\ \A i \in 1 .. Len(submitted) : \A c \in Clients : \A k \in Nat :
          k > connects[c] => submitted[i].context # <<c, k>>
    /\ \A c \in Clients : pc[c] \in {"starting", "inserting"} => BlocksOf(c) = {}
    /\ \A c \in contexts : pc[c] \in {"connected", "receiving", "notifying", "finishing"}

ContextsInv == NumbersInv /\ \A c \in contexts : ContextInv(c)

(* What the step of one client leaves to the others.                       *)
LeavesAlone(d) ==
    /\ manager'[d] = manager[d] /\ input'[d] = input[d] /\ next_line'[d] = next_line[d]
    /\ connects'[d] = connects[d] /\ pc'[d] = pc[d]
    /\ d \in contexts' <=> d \in contexts

(* What a client can do to the blocks.                                     *)
Pushes(c) == \E b : submitted' = Append(submitted, Block(c, b)) /\ connects' = connects

(* A client leaves what belongs to another one alone.                      *)
LEMMA ClientsApart ==
    ASSUME ClientTypes, NEW c \in Clients, ClientStep(c), NEW d \in Clients, d # c
    PROVE  LeavesAlone(d)
<1>1. CASE Connect(c)
  BY <1>1 DEF Connect, Go, ClientTypes, LeavesAlone
<1>2. CASE StartNext(c) \/ Notify(c) \/ EndReceive(c) \/ CheckLast(c) \/ StopThreads(c)
           \/ WakeWorkers(c) \/ JoinNext(c)
  BY <1>2 DEF StartNext, Notify, EndReceive, CheckLast, StopThreads, WakeWorkers, JoinNext,
              Go, ClientTypes, LeavesAlone
<1>3. CASE Insert(c) \/ Erase(c)
  BY <1>3 DEF Insert, Erase, Go, ClientTypes, LeavesAlone
<1>4. CASE AddTask(c)
  BY <1>4 DEF AddTask, Go, ClientTypes, LeavesAlone
<1>5. CASE Disconnect(c)
  BY <1>5 DEF Disconnect, Go, ClientTypes, LeavesAlone
<1>6. CASE \E chunk \in Chunks : Receive(c, chunk)
  BY <1>6 DEF Receive, Go, ClientTypes, LeavesAlone
<1> QED BY <1>1, <1>2, <1>3, <1>4, <1>5, <1>6 DEF ClientStep, InCall

(* Only add_task and disconnect push blocks.                               *)
LEMMA WhoPushes ==
    ASSUME NEW c \in Clients, ClientStep(c)
    PROVE  submitted' = submitted \/ Pushes(c)
<1>1. CASE AddTask(c)
  BY <1>1 DEF AddTask, Submit, workerVars, Pushes
<1>2. CASE Disconnect(c)
  BY <1>2 DEF Disconnect, Submit, workerVars, Pushes
<1>3. CASE Connect(c) \/ StartNext(c) \/ Insert(c) \/ Notify(c) \/ EndReceive(c)
  BY <1>3 DEF Connect, StartNext, Insert, Notify, EndReceive, workerVars, StartThread,
              NotifyAll, queues
<1>4. CASE Erase(c) \/ CheckLast(c) \/ StopThreads(c) \/ WakeWorkers(c) \/ JoinNext(c)
  BY <1>4 DEF Erase, CheckLast, StopThreads, WakeWorkers, JoinNext, workerVars, NotifyAll,
              SetTerminate, NotifyStop, Join, queues
<1>5. CASE \E chunk \in Chunks : Receive(c, chunk)
  BY <1>5 DEF Receive, workerVars
<1> QED BY <1>1, <1>2, <1>3, <1>4, <1>5 DEF ClientStep, InCall

(* The blocks of the context that pushes, and of the others.               *)
LEMMA PushedBlock ==
    ASSUME SubmittedOK, NEW c \in Clients, NEW b,
           submitted' = Append(submitted, Block(c, b)), connects' = connects
    PROVE  /\ Len(submitted) \in Nat /\ Len(submitted') = Len(submitted) + 1
           /\ BlocksOf(c)' = BlocksOf(c) \cup {Len(submitted) + 1}
           /\ submitted'[Len(submitted) + 1].commands = b
           /\ submitted'[Len(submitted) + 1].context = <<c, connects[c]>>
           /\ \A d \in Clients \ {c} : BlocksOf(d)' = BlocksOf(d)
           /\ \A i \in 1 .. Len(submitted) : submitted'[i] = submitted[i]
<1>1. /\ Len(submitted) \in Nat /\ Len(submitted') = Len(submitted) + 1
      /\ \A i \in 1 .. Len(submitted) : submitted'[i] = submitted[i]
  BY PushGrows
<1>2. submitted'[Len(submitted) + 1] = Block(c, b)
  BY AppendProperties, <1>1 DEF SubmittedOK
<1>3. /\ submitted'[Len(submitted) + 1].commands = b
      /\ submitted'[Len(submitted) + 1].context = <<c, connects[c]>>
  BY <1>2 DEF Block
<1>4. 1 .. Len(submitted') = (1 .. Len(submitted)) \cup {Len(submitted) + 1}
  BY <1>1
<1>5. BlocksOf(c)' = BlocksOf(c) \cup {Len(submitted) + 1}
  BY <1>1, <1>3, <1>4 DEF BlocksOf
<1>6. \A d \in Clients \ {c} : BlocksOf(d)' = BlocksOf(d)
  BY <1>1, <1>3, <1>4 DEF BlocksOf
<1> QED BY <1>1, <1>3, <1>5, <1>6

(* The context of another client is left as it is.                         *)
LEMMA OtherContext ==
    ASSUME SubmittedOK, NEW c \in Clients, submitted' = submitted \/ Pushes(c),
           NEW d \in Clients, d # c, LeavesAlone(d)
    PROVE  /\ BlocksOf(d)' = BlocksOf(d)
           /\ ContextInv(d) => ContextInv(d)'
<1>1. /\ BlocksOf(d)' = BlocksOf(d)
      /\ \A i \in BlocksOf(d) : submitted'[i] = submitted[i]
  <2>1. CASE submitted' = submitted
    BY <2>1 DEF BlocksOf, LeavesAlone
  <2>2. CASE Pushes(c)
    BY <2>2, PushedBlock DEF Pushes, BlocksOf
  <2> QED BY <2>1, <2>2
<1>2. UNION {Positions(submitted'[i].commands) : i \in BlocksOf(d)}
        = UNION {Positions(submitted[i].commands) : i \in BlocksOf(d)}
  BY <1>1
<1> QED BY <1>1, <1>2 DEF ContextInv, LeavesAlone

-----------------------------------------------------------------------------
(* Every step keeps the numbers of connects and blocks in line.            *)
LEMMA NumbersStep ==
    ASSUME ClientTypes, ClientTypes', SubmittedOK, NumbersInv, NEW c \in Clients, ClientStep(c)
    PROVE  NumbersInv'
<1>1. submitted' = submitted \/ Pushes(c)
  BY WhoPushes
<1>2. \A d \in Clients \ {c} : LeavesAlone(d) /\ BlocksOf(d)' = BlocksOf(d)
  BY <1>1, ClientsApart, OtherContext
<1>3. /\ connects' = connects \/ (connects' = [connects EXCEPT ![c] = @ + 1]
                                   /\ submitted' = submitted)
  <2>1. CASE Connect(c)
    BY <2>1 DEF Connect, workerVars
  <2>2. CASE ~Connect(c)
    BY <2>2 DEF ClientStep, InCall, StartNext, Insert, AddTask, Notify, EndReceive, Erase,
                CheckLast, StopThreads, WakeWorkers, JoinNext, Disconnect, Receive
  <2> QED BY <2>1, <2>2
<1>9. \A d \in Clients : connects[d] \in Nat /\ connects'[d] \in Nat /\ connects'[d] >= connects[d]
  <2>1. \A d \in Clients : connects[d] \in Nat /\ connects'[d] \in Nat
    BY BoundsAssumption DEF ClientTypes
  <2>2. \A d \in Clients : connects'[d] = connects[d] \/ connects'[d] = connects[d] + 1
    BY <1>3 DEF ClientTypes
  <2> QED BY <2>1, <2>2
<1>4. \A i \in 1 .. Len(submitted') : \A d \in Clients : \A k \in Nat :
          k > connects'[d] => submitted'[i].context # <<d, k>>
  <2>1. CASE submitted' = submitted
    BY <1>9, <2>1 DEF NumbersInv
  <2>2. CASE Pushes(c)
    <3>1. PICK b : submitted' = Append(submitted, Block(c, b)) /\ connects' = connects
      BY <2>2 DEF Pushes
    <3>2. /\ Len(submitted) \in Nat /\ Len(submitted') = Len(submitted) + 1
          /\ submitted'[Len(submitted) + 1].context = <<c, connects[c]>>
          /\ \A i \in 1 .. Len(submitted) : submitted'[i] = submitted[i]
      BY <3>1, PushedBlock
    <3> QED BY <1>9, <3>1, <3>2 DEF NumbersInv
  <2> QED BY <1>1, <2>1, <2>2
<1>5. pc'[c] \in {"starting", "inserting"} => BlocksOf(c)' = {}
  <2>1. CASE Connect(c)
    <3>1. connects'[c] = connects[c] + 1 /\ submitted' = submitted
      BY <2>1 DEF Connect, workerVars, ClientTypes
    <3> QED BY <1>9, <3>1 DEF NumbersInv, BlocksOf
  <2>2. CASE StartNext(c)
    <3>1. pc[c] = "starting" /\ submitted' = submitted /\ connects' = connects
      BY <2>2 DEF StartNext, At, StartThread, workerVars, queues
    <3> QED BY <3>1 DEF NumbersInv, BlocksOf
  <2>3. CASE ~Connect(c) /\ ~StartNext(c)
    <3>1. \/ \E state \in ClientState \ {"starting", "inserting"} : Go(c, state)
          \/ pc' = pc /\ pc[c] = "receiving"
      BY <2>3 DEF ClientStep, InCall, Insert, AddTask, Notify, EndReceive, Erase, CheckLast,
                  StopThreads, WakeWorkers, JoinNext, Disconnect, Receive, ClientState, At
    <3> QED BY <3>1 DEF Go, ClientTypes
  <2> QED BY <2>1, <2>2, <2>3
<1>6. c \in contexts' => pc'[c] \in {"connected", "receiving", "notifying", "finishing"}
  <2>1. CASE Connect(c) \/ StartNext(c) \/ CheckLast(c) \/ StopThreads(c) \/ WakeWorkers(c)
             \/ JoinNext(c)
    <3>1. c \notin contexts
      BY <2>1 DEF Connect, StartNext, CheckLast, StopThreads, WakeWorkers, JoinNext, At,
                  NumbersInv
    <3> QED BY <2>1, <3>1 DEF Connect, StartNext, CheckLast, StopThreads, WakeWorkers, JoinNext
  <2>2. CASE Insert(c) \/ AddTask(c) \/ Notify(c) \/ EndReceive(c)
             \/ \E chunk \in Chunks : Receive(c, chunk)
    BY <2>2 DEF Insert, AddTask, Notify, EndReceive, Receive, At, Go, ClientTypes
  <2>3. CASE Erase(c)
    BY <2>3 DEF Erase
  <2>4. CASE Disconnect(c)
    BY <2>4 DEF Disconnect, Go, ClientTypes
  <2> QED BY <2>1, <2>2, <2>3, <2>4 DEF ClientStep, InCall
<1>7. \A d \in Clients : pc'[d] \in {"starting", "inserting"} => BlocksOf(d)' = {}
  BY <1>2, <1>5 DEF NumbersInv, LeavesAlone
<1>8. \A d \in contexts' : pc'[d] \in {"connected", "receiving", "notifying", "finishing"}
  BY <1>2, <1>6 DEF NumbersInv, LeavesAlone, ClientTypes
<1> QED BY <1>4, <1>7, <1>8 DEF NumbersInv

-----------------------------------------------------------------------------
(* The client's own context.                                               *)

(* A new context is right: it has no lines and no blocks.                  *)
LEMMA InsertedContext ==
    ASSUME ClientTypes, NumbersInv, NEW c \in Clients, Insert(c)
    PROVE  ContextInv(c)'
<1>1. /\ manager'[c] = NewManager /\ input'[c] = <<>> /\ next_line'[c] = 0
      /\ pc'[c] = "connected"
  BY DEF Insert, ClientTypes, Go
<1>2. BlocksOf(c)' = {}
  BY DEF Insert, At, NumbersInv, workerVars, BlocksOf
<1>3. Len(<<>>) = 0
  BY EmptySeq
<1>4. ManagerInv(NewManager, <<>>, 0)
  BY <1>3, NewManagerInv
<1>5. Positions(Forming(NewManager)) = {}
  <2>1. NewManager \in Manager /\ OneForming(NewManager)
    BY <1>4 DEF ManagerInv
  <2>2. Forming(NewManager) = <<>>
    BY <2>1, FormingIs DEF NewManager
  <2> QED BY <1>3, <2>2 DEF Positions
<1>6. {p \in CommandsOf(<<>>) : p <= 0} = {}
  BY <1>3 DEF CommandsOf
<1> QED BY <1>1, <1>2, <1>4, <1>5, <1>6 DEF ContextInv

(* What is said of the lines added so far stays so when lines follow.      *)
LEMMA MoreLines ==
    ASSUME NEW lines, NEW longer, Len(lines) \in Nat, Len(longer) \in Nat,
           Len(lines) <= Len(longer), \A i \in 1 .. Len(lines) : longer[i] = lines[i],
           NEW n \in 0 .. Len(lines)
    PROVE  /\ \A m : ManagerInv(m, lines, n) => ManagerInv(m, longer, n)
           /\ \A b : BlockInv(b, lines, n) => BlockInv(b, longer, n)
           /\ {p \in CommandsOf(longer) : p <= n} = {p \in CommandsOf(lines) : p <= n}
<1>1. \A i \in 0 .. Len(lines) : Depth(longer)[i] = Depth(lines)[i]
  BY DepthOfPrefix
<1>2. ASSUME NEW m, ManagerInv(m, lines, n)
      PROVE  ManagerInv(m, longer, n)
  <2>1. Depth(longer)[n] = Depth(lines)[n]
    BY <1>1
  <2>2. \A j \in 1 .. Len(Forming(m)) : \A k \in Forming(m)[j] .. n :
            Depth(longer)[k] > 0 <=> m.nesting > 0
    <3>1. ASSUME NEW j \in 1 .. Len(Forming(m)), NEW k \in Forming(m)[j] .. n
          PROVE  Depth(longer)[k] > 0 <=> m.nesting > 0
      <4>1. Forming(m)[j] \in 1 .. n
        BY <1>2 DEF ManagerInv
      <4>2. k \in 0 .. Len(lines)
        BY <4>1
      <4>3. Depth(lines)[k] > 0 <=> m.nesting > 0
        BY <1>2 DEF ManagerInv
      <4> QED BY <1>1, <4>2, <4>3
    <3> QED BY <3>1
  <2> QED BY <1>2, <2>1, <2>2 DEF ManagerInv
<1>3. ASSUME NEW b, BlockInv(b, lines, n)
      PROVE  BlockInv(b, longer, n)
  <2>1. \A j \in 1 .. Len(b) : b[j] \in 1 .. n
    BY <1>3 DEF BlockInv
  <2>2. OneKind(longer, b)
    <3>1. ASSUME NEW i \in 1 .. Len(b), NEW j \in 1 .. Len(b), i < j, NEW k \in b[i] .. b[j]
          PROVE  Depth(longer)[k] > 0 <=> Depth(longer)[b[i]] > 0
      <4>1. b[i] \in 1 .. n /\ b[j] \in 1 .. n
        BY <2>1
      <4>2. k \in 0 .. Len(lines) /\ b[i] \in 0 .. Len(lines)
        BY <4>1
      <4>3. Depth(lines)[k] > 0 <=> Depth(lines)[b[i]] > 0
        BY <1>3, <3>1 DEF BlockInv, OneKind
      <4> QED BY <1>1, <4>2, <4>3
    <3> QED BY <3>1 DEF OneKind
  <2>3. Depth(longer)[b[1]] = Depth(lines)[b[1]]
    <3>1. Len(b) \in Nat /\ Len(b) # 0
      BY <1>3, EmptySeq DEF BlockInv
    <3>2. b[1] \in 1 .. n
      BY <2>1, <3>1
    <3> QED BY <1>1, <3>2
  <2> QED BY <1>3, <2>2, <2>3 DEF BlockInv
<1>4. {p \in CommandsOf(longer) : p <= n} = {p \in CommandsOf(lines) : p <= n}
  <2>1. ASSUME NEW p \in 1 .. n
        PROVE  p \in CommandsOf(longer) <=> p \in CommandsOf(lines)
    <3>1. p \in 1 .. Len(lines) /\ p \in 1 .. Len(longer) /\ p - 1 \in 0 .. Len(lines)
      OBVIOUS
    <3> QED BY <1>1, <3>1 DEF CommandsOf
  <2>2. \A p \in CommandsOf(longer) : p <= n => p \in 1 .. n
    BY DEF CommandsOf
  <2>3. \A p \in CommandsOf(lines) : p <= n => p \in 1 .. n
    BY DEF CommandsOf
  <2> QED BY <2>1, <2>2, <2>3
<1> QED BY <1>2, <1>3, <1>4

(* Lines that are not handled yet change nothing.                          *)
LEMMA ReceivedContext ==
    ASSUME ClientTypes, NEW c \in Clients, ContextInv(c), NEW chunk \in Chunks,
           Receive(c, chunk)
    PROVE  ContextInv(c)'
<1> DEFINE lines == input[c]
           longer == lines \o chunk
           n == next_line[c]
<1>1. lines \in Seq(STRING) /\ chunk \in Seq(STRING)
  BY ChunksAssumption DEF ClientTypes
<1>2. /\ Len(lines) \in Nat /\ Len(longer) \in Nat /\ Len(lines) <= Len(longer)
      /\ \A i \in 1 .. Len(lines) : longer[i] = lines[i]
  BY <1>1, ConcatProperties, LenProperties
<1>3. n \in 0 .. Len(lines)
  BY DEF ClientTypes
<1>4. /\ \A m : ManagerInv(m, lines, n) => ManagerInv(m, longer, n)
      /\ \A b : BlockInv(b, lines, n) => BlockInv(b, longer, n)
      /\ {p \in CommandsOf(longer) : p <= n} = {p \in CommandsOf(lines) : p <= n}
  <2> HIDE DEF lines, longer, n
  <2> QED BY <1>2, <1>3, MoreLines
<1>5. /\ input'[c] = longer /\ next_line'[c] = n /\ manager'[c] = manager[c]
      /\ pc[c] = "connected" /\ pc'[c] = "receiving" /\ submitted' = submitted
      /\ BlocksOf(c)' = BlocksOf(c)
  BY DEF Receive, At, Go, ClientTypes, workerVars, BlocksOf
<1> HIDE DEF lines, longer, n
<1>6. ContextInv(c)
  OBVIOUS
<1> QED BY <1>4, <1>5, <1>6 DEF ContextInv, lines, n

(* A context that is new holds nothing.                                    *)
LEMMA EmptyPositions ==
    /\ Positions(<<>>) = {} /\ Forming(NewManager) = <<>>
    /\ NewManager \in Manager
<1>1. Len(<<>>) = 0
  BY EmptySeq
<1>2. NewManager \in Manager /\ OneForming(NewManager)
  BY NewManagerType DEF NewManager, OneForming
<1>3. Forming(NewManager) = <<>>
  BY <1>2, FormingIs DEF NewManager
<1> QED BY <1>1, <1>2, <1>3 DEF Positions

(***************************************************************************)
(* A context that is handed n lines, and may push a block, from what it    *)
(* holds before and after.                                                 *)
(***************************************************************************)
LEMMA ContextGrows ==
    ASSUME SubmittedOK, NEW c \in Clients, ContextInv(c), NEW n \in Nat,
           next_line[c] \in Nat, next_line[c] <= n,
           input' = input, next_line'[c] = n, NEW b,
           IF b = <<>>
           THEN submitted' = submitted /\ connects' = connects
           ELSE /\ submitted' = Append(submitted, Block(c, b)) /\ connects' = connects
                /\ BlockInv(b, input[c], n) /\ Forming(manager'[c]) = <<>>,
           pc'[c] # "finishing" => ManagerInv(manager'[c], input[c], n),
           pc'[c] = "finishing" => manager'[c] = NewManager,
           Positions(b) \cup Positions(Forming(manager'[c]))
             = Positions(Forming(manager[c]))
                 \cup {p \in CommandsOf(input[c]) : next_line[c] < p /\ p <= n}
    PROVE  ContextInv(c)'
<1> DEFINE F  == Positions(Forming(manager[c]))
           G  == Positions(Forming(manager'[c]))
           B  == BlocksOf(c)
           P(i) == Positions(submitted[i].commands)
           new == {p \in CommandsOf(input[c]) : next_line[c] < p /\ p <= n}
           given(k) == {p \in CommandsOf(input[c]) : p <= k}
           U   == UNION {P(i) : i \in B}
<1>1. \A p \in CommandsOf(input[c]) : p \in Nat
  BY DEF CommandsOf
<1>2. \A i \in B : /\ BlockInv(submitted[i].commands, input[c], next_line[c])
                   /\ \A x \in P(i) : x \in 1 .. next_line[c]
                   /\ \A x \in P(i) : \A y \in F : x < y
  <2>1. ASSUME NEW i \in B
        PROVE  /\ BlockInv(submitted[i].commands, input[c], next_line[c])
               /\ Before(submitted[i].commands, Forming(manager[c]))
    BY DEF ContextInv
  <2>2. ASSUME NEW i \in B
        PROVE  \A x \in P(i) : x \in 1 .. next_line[c]
    BY <2>1 DEF BlockInv, Positions
  <2> QED BY <2>1, <2>2, BeforePositions
<1>3. \A i \in B : BlockInv(submitted[i].commands, input[c], n)
  <2>1. 1 .. next_line[c] \subseteq 1 .. n
    OBVIOUS
  <2> QED BY <1>2, <2>1 DEF BlockInv
<1>4. \A i \in B : \A x \in P(i) : \A y \in F \cup new : x < y
  <2>1. ASSUME NEW i \in B, NEW x \in P(i), NEW y \in new PROVE x < y
    <3>1. x \in 1 .. next_line[c] /\ y \in Nat /\ next_line[c] < y
      BY <1>1, <1>2
    <3> QED BY <3>1
  <2> QED BY <1>2, <2>1
<1>5. \A i, j \in B : i < j => Before(submitted[i].commands, submitted[j].commands)
  BY DEF ContextInv
<1>6. U \cup F = given(next_line[c])
  BY DEF ContextInv
<1>7. given(next_line[c]) \cup new = given(n)
  BY <1>1
<1>8. B \subseteq 1 .. Len(submitted)
  BY DEF BlocksOf
<1>9. \A i \in B : Before(submitted[i].commands, Forming(manager'[c])) /\
                   Before(submitted[i].commands, b)
  BY <1>4, BeforePositions
<1>12. Positions(b) \cup G = F \cup new
  OBVIOUS
<1>10. CASE b = <<>>
  <2>1. submitted' = submitted /\ BlocksOf(c)' = B /\ Positions(b) = {}
    BY <1>10, EmptyPositions DEF BlocksOf
  <2>2. (UNION {P(i) : i \in B}) \cup G = {p \in CommandsOf(input[c]) : p <= n}
    <3>1. U \cup F = given(next_line[c]) /\ given(next_line[c]) \cup new = given(n)
      BY <1>6, <1>7
    <3>2. G = F \cup new
      BY <1>12, <2>1
    <3> HIDE DEF F, G, U, new, given
    <3>3. U \cup G = given(n)
      BY <3>1, <3>2
    <3> QED BY <3>3 DEF U, given
  <2> HIDE DEF F, B, new
  <2> QED BY <1>3, <1>5, <1>9, <2>1, <2>2 DEF ContextInv
<1>11. CASE b # <<>>
  <2> DEFINE N == Len(submitted) + 1
  <2>1. /\ BlocksOf(c)' = B \cup {N} /\ submitted'[N].commands = b /\ N \in Nat
        /\ \A i \in B : submitted'[i] = submitted[i] /\ i \in Nat /\ i < N
        /\ Len(submitted) \in Nat
    BY <1>8, <1>11, PushedBlock
  <2> HIDE DEF N, B, F, new
  <2>2. G = {} /\ Forming(manager'[c]) = <<>> /\ BlockInv(b, input[c], n)
    BY <1>11, EmptyPositions
  <2>3. UNION {Positions(submitted'[i].commands) : i \in B \cup {N}}
          = (UNION {P(i) : i \in B}) \cup Positions(b)
    <3> DEFINE Q(i) == Positions(submitted'[i].commands)
    <3>1. (\A i \in B : Q(i) = P(i)) /\ Q(N) = Positions(b)
      BY <2>1
    <3> HIDE DEF Q, P
    <3>2. {Q(i) : i \in B \cup {N}} = {P(i) : i \in B} \cup {Positions(b)}
      BY <3>1
    <3>3. \A S, y : UNION (S \cup {y}) = (UNION S) \cup y
      OBVIOUS
    <3>4. UNION {Q(i) : i \in B \cup {N}} = (UNION {P(i) : i \in B}) \cup Positions(b)
      BY <3>2, <3>3, Zenon
    <3> QED BY <3>4 DEF Q
  <2>4. (UNION {Positions(submitted'[i].commands) : i \in B \cup {N}}) \cup G
          = {p \in CommandsOf(input[c]) : p <= n}
    <3>1. U \cup F = given(next_line[c]) /\ given(next_line[c]) \cup new = given(n)
      BY <1>6, <1>7 DEF F, B, new
    <3>2. Positions(b) = F \cup new
      BY <1>12, <2>2 DEF F, new
    <3>3. U \cup Positions(b) = given(n)
      <4> HIDE DEF U, given
      <4> QED BY <3>1, <3>2
    <3>4. U \cup Positions(b) \cup G = given(n)
      <4> HIDE DEF U, given
      <4> QED BY <2>2, <3>3
    <3> QED BY <2>3, <3>4
  <2>5. \A i \in B \cup {N} :
            /\ BlockInv(submitted'[i].commands, input[c], n)
            /\ Before(submitted'[i].commands, Forming(manager'[c]))
    <3>1. Before(b, Forming(manager'[c]))
      BY <2>2, EmptyPositions, BeforePositions
    <3> QED BY <1>3, <1>9, <2>1, <2>2, <3>1
  <2>6. \A i, j \in B \cup {N} :
            i < j => Before(submitted'[i].commands, submitted'[j].commands)
    BY <1>5, <1>9, <2>1
  <2> QED BY <2>1, <2>4, <2>5, <2>6 DEF ContextInv
<1> QED BY <1>10, <1>11

(* One line more through add_task.                                         *)
LEMMA AddedContext ==
    ASSUME ClientTypes, SubmittedOK, NEW c \in Clients, ContextInv(c), AddTask(c)
    PROVE  ContextInv(c)'
<1> DEFINE lines == input[c]
           n == next_line[c]
           r == add_task(manager[c], lines[n + 1], n + 1)
<1>1. /\ pc[c] = "receiving" /\ n \in Nat /\ n < Len(lines) /\ lines \in Seq(STRING)
      /\ manager'[c] = r.manager /\ next_line'[c] = n + 1
      /\ input' = input /\ connects' = connects
  BY DEF AddTask, At, ClientTypes
<1>2. \/ r.block = <<>> /\ submitted' = submitted
      \/ r.block # <<>> /\ submitted' = Append(submitted, Block(c, r.block))
  BY DEF AddTask, Submit, workerVars
<1>3. pc'[c] # "finishing"
  BY <1>1 DEF AddTask, Go, ClientTypes
<1>4. ManagerInv(manager[c], lines, n)
  BY <1>1 DEF ContextInv
<1> HIDE DEF r
<1>6. /\ ManagerInv(r.manager, lines, n + 1)
      /\ r.block # <<>> => BlockInv(r.block, lines, n + 1) /\ Forming(r.manager) = <<>>
      /\ Positions(r.block) \cup Positions(Forming(r.manager))
           = Positions(Forming(manager[c])) \cup {p \in CommandsOf(lines) : p = n + 1}
  <2> HIDE DEF lines, n
  <2>1. r = add_task(manager[c], lines[n + 1], n + 1)
    BY DEF r
  <2>2. lines \in Seq(STRING) /\ n \in Nat /\ n < Len(lines) /\ ManagerInv(manager[c], lines, n)
    BY <1>1, <1>4 DEF lines, n
  <2>3. ManagerInv(r.manager, lines, n + 1)
    BY <2>1, <2>2, AddTaskKeeps
  <2>4. r.block # <<>> => BlockInv(r.block, lines, n + 1) /\ Forming(r.manager) = <<>>
    BY <2>1, <2>2, AddTaskKeeps
  <2>5. Positions(r.block) \cup Positions(Forming(r.manager))
          = Positions(Forming(manager[c])) \cup {p \in CommandsOf(lines) : p = n + 1}
    BY <2>1, <2>2, AddTaskKeeps
  <2> QED BY <2>3, <2>4, <2>5
<1>7. {p \in CommandsOf(lines) : p = n + 1} = {p \in CommandsOf(lines) : n < p /\ p <= n + 1}
  BY <1>1 DEF CommandsOf
<1>8. n + 1 \in Nat /\ n <= n + 1
  BY <1>1
<1>9. IF r.block = <<>>
      THEN submitted' = submitted /\ connects' = connects
      ELSE /\ submitted' = Append(submitted, Block(c, r.block)) /\ connects' = connects
           /\ BlockInv(r.block, input[c], n + 1) /\ Forming(manager'[c]) = <<>>
  <2>1. CASE r.block = <<>>
    BY <1>1, <1>2, <2>1
  <2>2. CASE r.block # <<>>
    BY <1>1, <1>2, <1>6, <2>2
  <2> QED BY <2>1, <2>2
<1>10. pc'[c] # "finishing" => ManagerInv(manager'[c], input[c], n + 1)
  BY <1>1, <1>6
<1>11. Positions(r.block) \cup Positions(Forming(manager'[c]))
         = Positions(Forming(manager[c]))
             \cup {p \in CommandsOf(input[c]) : next_line[c] < p /\ p <= n + 1}
  BY <1>1, <1>6, <1>7
<1>12. next_line[c] \in Nat /\ next_line[c] <= n + 1
  BY <1>1, <1>8
<1> QED BY <1>1, <1>3, <1>8, <1>9, <1>10, <1>11, <1>12, ContextGrows

(* A disconnect hands over what is being formed.                           *)
LEMMA FinishedContext ==
    ASSUME ClientTypes, SubmittedOK, NEW c \in Clients, ContextInv(c), Disconnect(c),
           c \in contexts'
    PROVE  ContextInv(c)'
<1> DEFINE m == manager[c]
           b == FinishedBlock(m)
           lines == input[c]
           n == next_line[c]
<1>1. /\ pc[c] = "connected" /\ n \in Nat /\ lines \in Seq(STRING) /\ Len(lines) \in Nat
      /\ manager'[c] = NewManager /\ next_line'[c] = n /\ input' = input /\ connects' = connects
  BY LenProperties DEF Disconnect, At, ClientTypes
<1>2. /\ b # <<>> /\ submitted' = Append(submitted, Block(c, b)) /\ pc'[c] = "finishing"
  BY DEF Disconnect, Submit, Go, ClientTypes
<1>3. ManagerInv(m, lines, n)
  BY <1>1 DEF ContextInv
<1>4. b = Forming(m)
  <2>1. ~(m.nesting > 0) /\ b = m.static
    BY <1>2 DEF FinishedBlock, is_dynamic_block_active
  <2> QED BY <1>3, <2>1, FormingIs DEF ManagerInv
<1>5. BlockInv(b, lines, n)
  BY <1>1, <1>2, <1>3, <1>4, FormedBlock
<1>6. {p \in CommandsOf(lines) : n < p /\ p <= n} = {}
  BY <1>1 DEF CommandsOf
<1> HIDE DEF b, m, lines, n
<1>7. Positions(b) \cup Positions(Forming(NewManager))
        = Positions(Forming(m)) \cup {p \in CommandsOf(lines) : n < p /\ p <= n}
  BY <1>4, <1>6, EmptyPositions
<1>8. n <= n
  BY <1>1
<1> QED BY <1>1, <1>2, <1>5, <1>7, <1>8, EmptyPositions, ContextGrows DEF m, lines, n

(* Steps that leave the context as it is.                                  *)
LEMMA SameContext ==
    ASSUME ClientTypes, NEW c \in Clients, ContextInv(c), Notify(c) \/ EndReceive(c)
    PROVE  ContextInv(c)'
<1>1. /\ pc[c] \notin {"finishing"} /\ pc'[c] \notin {"finishing"}
      /\ UNCHANGED <<manager, input, next_line, submitted, connects>>
  BY DEF Notify, EndReceive, NotifyAll, queues, workerVars, At, Go, ClientTypes
<1>2. BlocksOf(c)' = BlocksOf(c)
  BY <1>1 DEF BlocksOf
<1> QED BY <1>1, <1>2 DEF ContextInv

-----------------------------------------------------------------------------

(* Every step keeps what is said of contexts.                              *)
LEMMA ContextsStep ==
    ASSUME ClientTypes, ClientTypes', SubmittedOK, ContextsInv, [Next]_vars
    PROVE  ContextsInv'
<1>1. ASSUME NEW c \in Clients, ClientStep(c)
      PROVE  ContextsInv'
  <2>1. NumbersInv' /\ (submitted' = submitted \/ Pushes(c))
    BY <1>1, NumbersStep, WhoPushes DEF ContextsInv
  <2>2. ASSUME NEW d \in contexts', d # c
        PROVE  ContextInv(d)'
    <3>1. d \in Clients
      BY DEF ClientTypes
    <3>2. LeavesAlone(d)
      BY <1>1, <2>2, <3>1, ClientsApart
    <3>3. d \in contexts
      BY <2>2, <3>2 DEF LeavesAlone
    <3> QED BY <2>1, <2>2, <3>1, <3>2, <3>3, OtherContext DEF ContextsInv
  <2>3. ASSUME c \in contexts'
        PROVE  ContextInv(c)'
    <3>1. CASE Insert(c)
      BY <3>1, InsertedContext DEF ContextsInv
    <3>2. CASE ~Insert(c)
      <4>1. /\ c \in contexts
            /\ ~(Connect(c) \/ StartNext(c) \/ Erase(c) \/ CheckLast(c) \/ StopThreads(c)
                 \/ WakeWorkers(c) \/ JoinNext(c))
        <5>1. c \in contexts
          BY <1>1, <2>3, <3>2 DEF ClientStep, InCall, Connect, StartNext, AddTask, Notify,
             EndReceive, Erase, CheckLast, StopThreads, WakeWorkers, JoinNext, Disconnect, Receive
        <5>2. pc[c] \in {"connected", "receiving", "notifying", "finishing"}
          BY <5>1 DEF ContextsInv, NumbersInv
        <5> QED BY <2>3, <5>1, <5>2 DEF Connect, StartNext, Erase, CheckLast, StopThreads,
                   WakeWorkers, JoinNext, At
      <4>2. ContextInv(c)
        BY <4>1 DEF ContextsInv
      <4> QED BY <1>1, <2>3, <3>2, <4>1, <4>2, AddedContext, FinishedContext, SameContext,
                 ReceivedContext DEF ClientStep, InCall
    <3> QED BY <3>1, <3>2
  <2> QED BY <2>1, <2>2, <2>3 DEF ContextsInv
<1>2. CASE UNCHANGED <<submitted, clientVars>>
  <2>1. \A c \in Clients : BlocksOf(c)' = BlocksOf(c)
    BY <1>2 DEF BlocksOf, clientVars
  <2>2. NumbersInv'
    BY <1>2, <2>1 DEF NumbersInv, ContextsInv, clientVars
  <2>3. ASSUME NEW c \in Clients, ContextInv(c) PROVE ContextInv(c)'
    BY <1>2, <2>1, <2>3 DEF ContextInv, clientVars
  <2> QED BY <1>2, <2>2, <2>3 DEF ContextsInv, clientVars, ClientTypes
<1>3. ASSUME NEW w \in Workers, Worker(w) \/ Wakeup(w)
      PROVE  UNCHANGED <<submitted, clientVars>>
  BY <1>3 DEF Worker, Wakeup, WorkerStep, LeaveLoop, DecideToSleep, FallAsleep, Take, WriteLog,
              WriteFile, SpuriousWakeup, queues
<1>4. CASE UNCHANGED vars
  BY <1>2, <1>4 DEF vars, clientVars
<1> QED BY <1>1, <1>2, <1>3, <1>4 DEF Next

(* There are no contexts at first.                                         *)
LEMMA ContextsInit == Init => ContextsInv
<1> SUFFICES ASSUME Init PROVE ContextsInv
  OBVIOUS
<1>1. Len(submitted) = 0
  BY EmptySeq DEF Init, WorkersInit
<1> QED BY <1>1 DEF Init, ContextsInv, NumbersInv, BlocksOf

(* What is said of contexts is an invariant.                               *)
LEMMA ContextsInvariant == Spec => []ContextsInv
<1>1. TypesOK => SubmittedOK
  BY DEF TypesOK
<1> QED BY <1>1, ContextsInit, ContextsStep, ClientTypesInit, ClientTypesStep, LibraryUsesWorkers,
           TypesInvariant, PTL DEF Spec

(***************************************************************************)
(* What is given to a context, and nothing else, comes out of it in the    *)
(* order it was given, whatever the other clients do in between.           *)
(***************************************************************************)
THEOREM ContextsAreApart == Spec => []ContextsDoNotMix
<1>1. ASSUME ClientTypes, ContextsInv
      PROVE  ContextsDoNotMix
  <2>1. ASSUME NEW c \in contexts
        PROVE  /\ \A i \in BlocksOf(c) : /\ Increasing(submitted[i].commands)
                                         /\ Before(submitted[i].commands, Forming(manager[c]))
               /\ \A i, j \in BlocksOf(c) :
                     i < j => Before(submitted[i].commands, submitted[j].commands)
               /\ Increasing(Forming(manager[c]))
               /\ (UNION {ToSet(submitted[i].commands) : i \in BlocksOf(c)})
                       \cup ToSet(Forming(manager[c]))
                    = {p \in CommandsOf(input[c]) : p <= next_line[c]}
    <3>1. ContextInv(c)
      BY <1>1 DEF ContextsInv
    <3>2. Forming(manager[c]) \in Seq(Nat) /\ Increasing(Forming(manager[c]))
      <4>1. CASE pc[c] = "finishing"
        <5>1. Forming(manager[c]) = <<>>
          BY <3>1, <4>1, EmptyPositions DEF ContextInv
        <5> QED BY <5>1, EmptySeq DEF Increasing
      <4>2. CASE pc[c] # "finishing"
        BY <3>1, <4>2, FormingIs DEF ContextInv, ManagerInv
      <4> QED BY <4>1, <4>2
    <3>3. \A s \in Seq(Nat) : ToSet(s) = Positions(s)
      BY LenProperties DEF ToSet, Positions
    <3>4. \A i \in BlocksOf(c) : submitted[i].commands \in Seq(Nat)
      BY <3>1 DEF ContextInv, BlockInv
    <3>5. UNION {ToSet(submitted[i].commands) : i \in BlocksOf(c)}
            = UNION {Positions(submitted[i].commands) : i \in BlocksOf(c)}
      BY <3>3, <3>4
    <3> QED BY <3>1, <3>2, <3>3, <3>5 DEF ContextInv, BlockInv
  <2> QED BY <2>1 DEF ContextsDoNotMix, Forming
<1> QED BY <1>1, ContextsInvariant, ClientTypesInit, ClientTypesStep, PTL DEF Spec

(***************************************************************************)
(* The blocks of a context respect its braces: none reaches over one that  *)
(* begins or ends a dynamic block, and the static ones are small.          *)
(***************************************************************************)
THEOREM BracesDivideBlocks == Spec => []BlocksRespectBraces
<1>1. ContextsInv => BlocksRespectBraces
  BY DEF ContextsInv, ContextInv, BlockInv, BlocksRespectBraces
<1> QED BY <1>1, ContextsInvariant, PTL

-----------------------------------------------------------------------------
(***************************************************************************)
(*                     What disconnect waits for                           *)
(***************************************************************************)

InUse == {"connected", "receiving", "notifying", "finishing"}

(* Where a client is says whether its context is in the map and whether    *)
(* all it was given is with the manager.                                   *)
PlacesOf ==
    \A c \in Clients :
        /\ pc[c] \in InUse => c \in contexts
        /\ connects[c] = 0 => pc[c] = "out"
        /\ pc[c] \in {"connected", "finishing"} => next_line[c] = Len(input[c])

NotYet(c) == connects[c] = 0 \/ pc[c] \in {"starting", "inserting"}
Gone(c)   == ~NotYet(c) /\ c \notin contexts

(* The commands outside braces are in blocks once the context is gone.     *)
StaticPushed(c) ==
    \A p \in CommandsOf(input[c]) :
        Depth(input[c])[p] = 0 => \E i \in BlocksOf(c) : p \in ToSet(submitted[i].commands)

GoneInv == \A c \in Clients : Gone(c) => StaticPushed(c)

(* At first every client is outside the library and none has gone.         *)
LEMMA PlacesOfInit == Init => PlacesOf /\ GoneInv
BY DEF Init, PlacesOf, GoneInv, Gone, NotYet, InUse

(* Every step keeps where a client is and what it has in line.             *)
LEMMA PlacesOfStep ==
    ASSUME ClientTypes, ClientTypes', PlacesOf, [Next]_vars
    PROVE  PlacesOf'
<1>1. ASSUME NEW c \in Clients, ClientStep(c)
      PROVE  PlacesOf'
  <2>1. \A d \in Clients \ {c} : LeavesAlone(d)
    BY <1>1, ClientsApart
  <2>2. /\ pc'[c] \in InUse => c \in contexts'
        /\ connects'[c] = 0 => pc'[c] = "out"
        /\ pc'[c] \in {"connected", "finishing"} => next_line'[c] = Len(input'[c])
    <3>1. CASE Connect(c)
      BY <3>1 DEF Connect, Go, ClientTypes, InUse
    <3>2. CASE StartNext(c)
      BY <3>2 DEF StartNext, At, Go, ClientTypes, InUse, PlacesOf
    <3>3. CASE Insert(c)
      <4>1. Len(<<>>) = 0
        BY EmptySeq
      <4> QED BY <3>3, <4>1 DEF Insert, At, Go, ClientTypes, PlacesOf
    <3>4. CASE AddTask(c) \/ Notify(c) \/ EndReceive(c)
      BY <3>4 DEF AddTask, Notify, EndReceive, At, Go, ClientTypes, InUse, PlacesOf
    <3>5. CASE Disconnect(c) \/ Erase(c)
      BY <3>5 DEF Disconnect, Erase, At, Go, ClientTypes, InUse, PlacesOf
    <3>6. CASE CheckLast(c) \/ StopThreads(c) \/ WakeWorkers(c) \/ JoinNext(c)
      BY <3>6 DEF CheckLast, StopThreads, WakeWorkers, JoinNext, At, Go, ClientTypes, InUse,
                  PlacesOf
    <3>7. CASE \E chunk \in Chunks : Receive(c, chunk)
      BY <3>7 DEF Receive, At, Go, ClientTypes, InUse, PlacesOf
    <3> QED BY <1>1, <3>1, <3>2, <3>3, <3>4, <3>5, <3>6, <3>7 DEF ClientStep, InCall
  <2>3. \A d \in Clients \ {c} :
          /\ pc'[d] \in InUse => d \in contexts'
          /\ connects'[d] = 0 => pc'[d] = "out"
          /\ pc'[d] \in {"connected", "finishing"} => next_line'[d] = Len(input'[d])
    BY <2>1 DEF LeavesAlone, PlacesOf
  <2> QED BY <2>2, <2>3 DEF PlacesOf
<1>2. CASE UNCHANGED clientVars
  BY <1>2 DEF PlacesOf, clientVars
<1>3. ASSUME NEW w \in Workers, Worker(w) \/ Wakeup(w)
      PROVE  UNCHANGED clientVars
  BY <1>3 DEF Worker, Wakeup
<1>4. CASE UNCHANGED vars
  BY <1>2, <1>4 DEF vars, clientVars
<1> QED BY <1>1, <1>2, <1>3, <1>4 DEF Next

(* A context whose manager holds no static command has pushed them all.    *)
LEMMA NothingLeft ==
    ASSUME ClientTypes, NEW c \in Clients, ContextInv(c), next_line[c] = Len(input[c]),
           \A p \in Positions(Forming(manager[c])) : Depth(input[c])[p] # 0
    PROVE  StaticPushed(c)
<1>1. ASSUME NEW p \in CommandsOf(input[c]), Depth(input[c])[p] = 0
      PROVE  \E i \in BlocksOf(c) : p \in ToSet(submitted[i].commands)
  <2>1. p <= next_line[c]
    BY DEF CommandsOf
  <2>2. p \in (UNION {Positions(submitted[i].commands) : i \in BlocksOf(c)})
                 \cup Positions(Forming(manager[c]))
    BY <2>1 DEF ContextInv
  <2>3. PICK i \in BlocksOf(c) : p \in Positions(submitted[i].commands)
    BY <1>1, <2>2
  <2>4. submitted[i].commands \in Seq(Nat)
    BY DEF ContextInv, BlockInv
  <2>5. p \in ToSet(submitted[i].commands)
    BY <2>3, <2>4, LenProperties DEF ToSet, Positions
  <2> QED BY <2>5
<1> QED BY <1>1 DEF StaticPushed

(* Who has gone has left no command behind.                                *)
LEMMA GoneStep ==
    ASSUME ClientTypes, ClientTypes', SubmittedOK, ContextsInv, PlacesOf, GoneInv, [Next]_vars
    PROVE  GoneInv'
<1>1. ASSUME NEW c \in Clients, ClientStep(c)
      PROVE  GoneInv'
  <2>1. submitted' = submitted \/ Pushes(c)
    BY <1>1, WhoPushes
  <2>2. ASSUME NEW d \in Clients, d # c, Gone(d)'
        PROVE  StaticPushed(d)'
    <3>1. LeavesAlone(d)
      BY <1>1, <2>2, ClientsApart
    <3>2. BlocksOf(d)' = BlocksOf(d)
      BY <2>1, <2>2, <3>1, OtherContext
    <3>3. StaticPushed(d)
      BY <2>2, <3>1 DEF LeavesAlone, Gone, NotYet, GoneInv
    <3>4. \A i \in BlocksOf(d) : submitted'[i] = submitted[i]
      BY <2>1, PushedBlock DEF Pushes, BlocksOf
    <3> QED BY <3>1, <3>2, <3>3, <3>4 DEF LeavesAlone, StaticPushed
  <2>3. ASSUME Gone(c)'
        PROVE  StaticPushed(c)'
    <3>1. CASE Disconnect(c)
      <4>1. /\ FinishedBlock(manager[c]) = <<>> /\ pc[c] = "connected" /\ c \in contexts
            /\ UNCHANGED <<submitted, connects, input>>
        BY <2>3, <3>1 DEF Disconnect, At, Gone, workerVars
      <4>2. ContextInv(c) /\ next_line[c] = Len(input[c])
        BY <4>1 DEF ContextsInv, PlacesOf
      <4>3. \A p \in Positions(Forming(manager[c])) : Depth(input[c])[p] # 0
        <5> DEFINE m == manager[c]
                   f == Forming(m)
                   depth == Depth(input[c])
                   n == next_line[c]
        <5>1. ManagerInv(m, input[c], n) /\ m.nesting \in Nat
          BY <4>1, <4>2 DEF ContextInv, ManagerInv, Manager
        <5>2. CASE m.nesting > 0
          <6>1. ASSUME NEW j \in 1 .. Len(f) PROVE depth[f[j]] > 0
            <7>1. f[j] \in 1 .. n /\ \A k \in f[j] .. n : depth[k] > 0 <=> m.nesting > 0
              BY <5>1 DEF ManagerInv
            <7>2. f[j] \in f[j] .. n
              BY <7>1
            <7> QED BY <5>2, <7>1, <7>2
          <6> HIDE DEF m, f, depth
          <6> QED BY <6>1 DEF Positions, f, m, depth
        <5>3. CASE ~(m.nesting > 0)
          <6>1. f = <<>>
            BY <4>1, <5>1, <5>3, FormingIs DEF FinishedBlock, is_dynamic_block_active,
               ManagerInv
          <6> QED BY <6>1, EmptyPositions
        <5> QED BY <5>2, <5>3
      <4>4. StaticPushed(c)
        BY <4>2, <4>3, NothingLeft
      <4>5. BlocksOf(c)' = BlocksOf(c)
        BY <4>1 DEF BlocksOf
      <4> QED BY <4>1, <4>4, <4>5 DEF StaticPushed
    <3>2. CASE Erase(c)
      <4>1. pc[c] = "finishing" /\ c \in contexts /\ UNCHANGED <<submitted, connects, input>>
        BY <3>2 DEF Erase, At, PlacesOf, InUse, NotifyAll, queues
      <4>2. ContextInv(c) /\ next_line[c] = Len(input[c])
        BY <4>1 DEF ContextsInv, PlacesOf
      <4>3. Positions(Forming(manager[c])) = {}
        BY <4>1, <4>2, EmptyPositions DEF ContextInv
      <4>4. StaticPushed(c)
        BY <4>2, <4>3, NothingLeft
      <4>5. BlocksOf(c)' = BlocksOf(c)
        BY <4>1 DEF BlocksOf
      <4> QED BY <4>1, <4>4, <4>5 DEF StaticPushed
    <3>3. CASE ~Disconnect(c) /\ ~Erase(c)
      <4>1. CASE CheckLast(c) \/ StopThreads(c) \/ WakeWorkers(c) \/ JoinNext(c)
        <5>1. /\ UNCHANGED <<submitted, connects, contexts, input>>
              /\ pc[c] \in {"checking", "stopping", "waking", "joining"}
          BY <4>1 DEF CheckLast, StopThreads, WakeWorkers, JoinNext, At, workerVars, SetTerminate,
                      NotifyStop, Join, queues
        <5>2. BlocksOf(c)' = BlocksOf(c) /\ Gone(c)
          BY <2>3, <5>1 DEF BlocksOf, Gone, NotYet
        <5> QED BY <5>1, <5>2 DEF StaticPushed, GoneInv
      <4>2. CASE Connect(c) \/ StartNext(c)
        BY <2>3, <4>2 DEF Connect, StartNext, Go, ClientTypes, Gone, NotYet
      <4>3. CASE Insert(c)
        BY <2>3, <4>3 DEF Insert, Gone
      <4>4. CASE AddTask(c) \/ Notify(c) \/ EndReceive(c) \/ \E chunk \in Chunks : Receive(c, chunk)
        BY <2>3, <4>4 DEF AddTask, Notify, EndReceive, Receive, At, PlacesOf, InUse, Gone
      <4> QED BY <1>1, <3>3, <4>1, <4>2, <4>3, <4>4 DEF ClientStep, InCall
    <3> QED BY <3>1, <3>2, <3>3
  <2> QED BY <2>2, <2>3 DEF GoneInv
<1>2. CASE UNCHANGED <<submitted, clientVars>>
  BY <1>2 DEF GoneInv, Gone, NotYet, StaticPushed, BlocksOf, clientVars
<1>3. ASSUME NEW w \in Workers, Worker(w) \/ Wakeup(w)
      PROVE  UNCHANGED <<submitted, clientVars>>
  BY <1>3 DEF Worker, Wakeup, WorkerStep, LeaveLoop, DecideToSleep, FallAsleep, Take, WriteLog,
              WriteFile, SpuriousWakeup, queues
<1>4. CASE UNCHANGED vars
  BY <1>2, <1>4 DEF vars, clientVars
<1> QED BY <1>1, <1>2, <1>3, <1>4 DEF Next

-----------------------------------------------------------------------------
(***************************************************************************)
(* Orderly calls.  The clients come and go in this order: nobody leaves    *)
(* before all have come (AllInFirst); the one that comes first starts the  *)
(* threads, alone (Starting); the one that finds the map empty first stops *)
(* them, alone, when nobody can come any more (Stopping); and a thread     *)
(* ends with nothing left in its queue (Ending).                           *)
(***************************************************************************)
LeftTo(c) == {threads_left[c][k] : k \in 1 .. Len(threads_left[c])}

AllInFirst ==
    (\E c \in Clients : Gone(c) \/ pc[c] = "finishing") => \A d \in Clients : ~NotYet(d)

Starting ==
    /\ \A c, d \in Clients : pc[c] = "starting" /\ pc[d] = "starting" => c = d
    /\ \A c \in Clients : pc[c] = "starting" =>
          /\ threads_initialized
          /\ \A j, k \in 1 .. Len(threads_left[c]) :
                threads_left[c][j] = threads_left[c][k] => j = k
          /\ \A w \in Workers : wpc[w] = "none" <=> w \in LeftTo(c)
    /\ threads_initialized /\ (\A c \in Clients : pc[c] # "starting") =>
          \A w \in Workers : wpc[w] # "none"

NotBegun ==
    /\ \A c \in Clients : connects[c] = 0
    /\ \A w \in Workers : wpc[w] = "none"
    /\ log_queue = <<>> /\ file_queue = <<>>

Flags ==
    /\ ~threads_initialized => should_terminate \/ NotBegun
    /\ threads_initialized =>
          /\ ~should_terminate
          /\ \/ contexts # {}
             \/ \E c \in Clients : pc[c] \in {"starting", "inserting", "checking", "stopping"}
    /\ should_terminate => contexts = {} /\ \A d \in Clients : ~NotYet(d)

Stopping ==
    /\ \A c \in Clients : pc[c] = "stopping" => contexts = {}
    /\ \A c \in Clients : pc[c] \in {"waking", "joining"} => should_terminate
    /\ \A c, d \in Clients :
          pc[c] \in {"waking", "joining"} /\ pc[d] \in {"waking", "joining"} => c = d
    /\ \A c \in Clients : pc[c] = "joining" =>
          \A w \in Workers : wpc[w] = "none" \/ w \in LeftTo(c)
    /\ should_terminate =>
          \/ \E c \in Clients : pc[c] \in {"waking", "joining"}
          \/ \A w \in Workers : wpc[w] = "none"

Ending ==
    /\ \A w \in Workers : wpc[w] = "exited" => should_terminate
    /\ should_terminate => \A w \in Workers : wpc[w] \in {"none", "exited"} => QueueOf(w) = <<>>

OrderlyFacts == ~terminated /\ AllInFirst /\ Starting /\ Flags /\ Stopping /\ Ending
OrderlyInv   == orderly => OrderlyFacts

(* What the proofs for the steps of one client use.                        *)
Context(c) ==
    /\ c \in Clients /\ OrderlyFacts /\ PlacesOf /\ NumbersInv
    /\ ClientTypes /\ ClientTypes' /\ TypesOK /\ UNCHANGED terminated
    /\ \A d \in Clients \ {c} : LeavesAlone(d)

(* A step that starts, ends and joins no thread.                           *)
SameThreads ==
    /\ UNCHANGED <<threads_initialized, threads_left>>
    /\ \A w \in Workers : /\ wpc'[w] = "none" <=> wpc[w] = "none"
                          /\ wpc'[w] = "exited" <=> wpc[w] = "exited"

(* At first all connects are still to come.                                *)
LEMMA OrderlyInit == Init => OrderlyInv
<1> SUFFICES ASSUME Init PROVE OrderlyFacts
  BY DEF OrderlyInv
<1> QED BY DEF Init, WorkersInit, OrderlyFacts, AllInFirst, Starting, Flags, Stopping, Ending,
               NotBegun, Gone, NotYet, LeftTo

(* A client that stays in the map, whatever it pushes.                     *)
LEMMA StaysOrderly ==
    ASSUME NEW c, Context(c), SameThreads, UNCHANGED <<connects, contexts, should_terminate>>,
           pc[c] \in InUse, pc'[c] \in InUse,
           pc'[c] = "finishing" => \A d \in Clients : ~NotYet(d)
    PROVE  OrderlyFacts'
<1>1. c \in Clients /\ c \in contexts /\ connects[c] # 0 /\ ~should_terminate
  BY DEF Context, PlacesOf, InUse, OrderlyFacts, Flags
<1>2. threads_initialized
  BY <1>1 DEF Context, OrderlyFacts, Flags, NotBegun
<1>3. \A d \in Clients : /\ NotYet(d)' <=> NotYet(d)
                         /\ Gone(d)' <=> Gone(d)
  BY DEF Context, LeavesAlone, NotYet, Gone, InUse
<1>4. \A d \in Clients \ {c} : pc'[d] = pc[d]
  BY DEF Context, LeavesAlone
<1>5. \A d \in Clients : LeftTo(d)' = LeftTo(d)
  BY DEF SameThreads, LeftTo
<1>6. AllInFirst'
  BY <1>3, <1>4 DEF Context, OrderlyFacts, AllInFirst
<1>7. Starting'
  BY <1>4, <1>5 DEF Context, SameThreads, OrderlyFacts, Starting, InUse
<1>8. Flags'
  BY <1>1, <1>2, <1>3 DEF Context, SameThreads, OrderlyFacts, Flags
<1>9. Stopping'
  BY <1>1, <1>4, <1>5 DEF Context, SameThreads, OrderlyFacts, Stopping, InUse
<1>10. Ending'
  BY <1>1 DEF Context, SameThreads, OrderlyFacts, Ending
<1> QED BY <1>6, <1>7, <1>8, <1>9, <1>10 DEF OrderlyFacts, Context

(* A client that leaves the map.                                           *)
LEMMA LeavesOrderly ==
    ASSUME NEW c, Context(c), SameThreads, UNCHANGED <<connects, should_terminate>>,
           pc[c] \in InUse, pc'[c] = "checking", contexts' = contexts \ {c},
           \A d \in Clients : ~NotYet(d)
    PROVE  OrderlyFacts'
<1>1. c \in Clients /\ c \in contexts /\ connects[c] # 0 /\ ~should_terminate
  BY DEF Context, PlacesOf, InUse, OrderlyFacts, Flags
<1>2. threads_initialized
  BY <1>1 DEF Context, OrderlyFacts, Flags, NotBegun
<1>3. \A d \in Clients : ~NotYet(d)'
  BY DEF Context, LeavesAlone, NotYet
<1>4. \A d \in Clients \ {c} : pc'[d] = pc[d]
  BY DEF Context, LeavesAlone
<1>5. \A d \in Clients : LeftTo(d)' = LeftTo(d)
  BY DEF SameThreads, LeftTo
<1>6. AllInFirst'
  BY <1>3 DEF AllInFirst
<1>7. Starting'
  BY <1>4, <1>5 DEF Context, SameThreads, OrderlyFacts, Starting, InUse
<1>8. Flags'
  BY <1>1, <1>2, <1>3 DEF Context, SameThreads, OrderlyFacts, Flags
<1>9. Stopping'
  BY <1>1, <1>4, <1>5 DEF Context, SameThreads, OrderlyFacts, Stopping, InUse
<1>10. Ending'
  BY <1>1 DEF Context, SameThreads, OrderlyFacts, Ending
<1> QED BY <1>6, <1>7, <1>8, <1>9, <1>10 DEF OrderlyFacts, Context

(* The threads are told to start in an order that names each once.         *)
LEMMA ConnectOrderly ==
    ASSUME NEW c, Context(c), orderly, Connect(c)
    PROVE  OrderlyFacts'
<1>1. /\ c \in Clients /\ pc[c] = "out" /\ connects[c] = 0 /\ connects'[c] # 0
      /\ threads_initialized' = TRUE
      /\ UNCHANGED <<workerVars, contexts>>
      /\ \/ threads_initialized /\ pc'[c] = "inserting" /\ threads_left' = threads_left
         \/ /\ ~threads_initialized /\ pc'[c] = "starting" /\ threads_left'[c] = ThreadOrder
            /\ \A d \in Clients \ {c} : threads_left'[d] = threads_left[d]
  BY DEF Context, Connect, At, Go, ClientTypes
<1>2. \A d \in Clients \ {c} : pc'[d] = pc[d] /\ (NotYet(d)' <=> NotYet(d))
                               /\ (Gone(d)' <=> Gone(d))
  BY DEF Context, LeavesAlone, NotYet, Gone
<1>3. NotYet(c) /\ NotYet(c)' /\ ~Gone(c) /\ ~Gone(c)'
  BY <1>1 DEF NotYet, Gone
<1>4. AllInFirst'
  BY <1>1, <1>2, <1>3 DEF Context, OrderlyFacts, AllInFirst
<1>5. ~should_terminate /\ ~should_terminate'
  BY <1>1, <1>3 DEF Context, OrderlyFacts, Flags, workerVars
<1>6. Starting'
  <2>1. CASE threads_initialized
    <3>1. threads_left' = threads_left /\ wpc' = wpc /\ pc'[c] = "inserting"
      BY <1>1, <2>1 DEF workerVars
    <3>2. \A d \in Clients : LeftTo(d)' = LeftTo(d)
      BY <3>1 DEF LeftTo
    <3> QED BY <1>1, <1>2, <2>1, <3>1, <3>2 DEF Context, OrderlyFacts, Starting
  <2>2. CASE ~threads_initialized
    <3>1. (\A d \in Clients : pc[d] # "starting") /\ NotBegun
      BY <1>5, <2>2 DEF Context, OrderlyFacts, Starting, Flags
    <3>2. pc'[c] = "starting" /\ threads_left'[c] = ThreadOrder /\ wpc' = wpc
      BY <1>1, <2>2 DEF workerVars
    <3>3. \A w \in Workers : wpc'[w] = "none" /\ w \in LeftTo(c)'
      BY <3>1, <3>2, ThreadOrderIs DEF NotBegun, LeftTo
    <3> QED BY <1>1, <1>2, <3>1, <3>2, <3>3, ThreadOrderIs DEF Starting
  <2> QED BY <2>1, <2>2
<1>7. Flags'
  BY <1>1, <1>5 DEF Flags
<1>8. Stopping'
  <2>1. \A d \in Clients : pc[d] \notin {"waking", "joining"}
    BY <1>5 DEF Context, OrderlyFacts, Stopping
  <2> QED BY <1>1, <1>2, <1>5, <2>1 DEF Context, OrderlyFacts, Stopping
<1>9. Ending'
  BY <1>1, <1>5 DEF Context, OrderlyFacts, Ending, workerVars
<1> QED BY <1>4, <1>6, <1>7, <1>8, <1>9 DEF OrderlyFacts, Context

(* The rest of the threads to start or join: all but the first.            *)
LEMMA RestOf ==
    ASSUME NEW q \in Seq(Workers), q # <<>>
    PROVE  /\ {Tail(q)[k] : k \in 1 .. Len(Tail(q))} \subseteq {q[k] : k \in 1 .. Len(q)}
           /\ {q[k] : k \in 1 .. Len(q)}
                = {Tail(q)[k] : k \in 1 .. Len(Tail(q))} \cup {Head(q)}
           /\ (\A j, k \in 1 .. Len(q) : q[j] = q[k] => j = k) =>
                 /\ \A j, k \in 1 .. Len(Tail(q)) : Tail(q)[j] = Tail(q)[k] => j = k
                 /\ Head(q) \notin {Tail(q)[k] : k \in 1 .. Len(Tail(q))}
           /\ Len(q) = 1 => {Tail(q)[k] : k \in 1 .. Len(Tail(q))} = {}
<1>1. /\ Len(q) \in Nat \ {0} /\ Head(q) = q[1] /\ Len(Tail(q)) = Len(q) - 1
      /\ \A k \in 1 .. Len(Tail(q)) : Tail(q)[k] = q[k + 1]
  BY EmptySeq, HeadTailProperties
<1> DEFINE t == Tail(q)
<1> HIDE DEF t
<1>2. ASSUME NEW x PROVE x \in {q[k] : k \in 1 .. Len(q)} <=>
                           x \in {t[k] : k \in 1 .. Len(t)} \cup {Head(q)}
  <2>1. ASSUME NEW k \in 1 .. Len(q), x = q[k]
        PROVE  x \in {t[j] : j \in 1 .. Len(t)} \cup {Head(q)}
    <3>1. CASE k = 1
      BY <1>1, <2>1, <3>1
    <3>2. CASE k # 1
      <4>1. k - 1 \in 1 .. Len(t) /\ t[k - 1] = q[k]
        BY <1>1, <3>2 DEF t
      <4> QED BY <2>1, <4>1
    <3> QED BY <3>1, <3>2
  <2>2. ASSUME NEW k \in 1 .. Len(t), x = t[k]
        PROVE  x \in {q[j] : j \in 1 .. Len(q)}
    <3>1. k + 1 \in 1 .. Len(q) /\ t[k] = q[k + 1]
      BY <1>1 DEF t
    <3> QED BY <2>2, <3>1
  <2>3. Head(q) \in {q[j] : j \in 1 .. Len(q)}
    BY <1>1
  <2> QED BY <2>1, <2>2, <2>3
<1>3. ASSUME \A j, k \in 1 .. Len(q) : q[j] = q[k] => j = k
      PROVE  /\ \A j, k \in 1 .. Len(t) : t[j] = t[k] => j = k
             /\ Head(q) \notin {t[k] : k \in 1 .. Len(t)}
  <2>1. \A k \in 1 .. Len(t) : k + 1 \in 1 .. Len(q) /\ t[k] = q[k + 1]
    BY <1>1 DEF t
  <2>2. 1 \in 1 .. Len(q)
    BY <1>1
  <2>3. ASSUME NEW j \in 1 .. Len(t), NEW k \in 1 .. Len(t), t[j] = t[k] PROVE j = k
    <3>1. j + 1 = k + 1
      BY <1>3, <2>1, <2>3
    <3> QED BY <3>1
  <2>4. ASSUME NEW k \in 1 .. Len(t), t[k] = q[1] PROVE FALSE
    <3>1. k + 1 = 1
      BY <1>3, <2>1, <2>2, <2>4
    <3> QED BY <3>1
  <2> QED BY <1>1, <2>3, <2>4
<1>4. Len(q) = 1 => {t[k] : k \in 1 .. Len(t)} = {}
  BY <1>1 DEF t
<1> QED BY <1>2, <1>3, <1>4 DEF t

(* One thread more has been started by the first client.                   *)
LEMMA StartNextOrderly ==
    ASSUME NEW c, c \in Clients, OrderlyFacts, PlacesOf, NumbersInv, ClientTypes, TypesOK,
           \A d \in Clients \ {c} : LeavesAlone(d), StartNext(c)
    PROVE  OrderlyFacts'
<1> DEFINE q == threads_left[c]
           w == Head(q)
<1>1. /\ pc[c] = "starting" /\ q \in Seq(Workers) /\ q # <<>> /\ w \in Workers
      /\ UNCHANGED <<threads_initialized, contexts, connects>>
      /\ threads_left'[c] = Tail(q)
      /\ \A d \in Clients \ {c} : threads_left'[d] = threads_left[d]
      /\ pc'[c] = IF Len(q) = 1 THEN "inserting" ELSE "starting"
  BY NextThread DEF StartNext, At, Go, ClientTypes
<1>2. /\ threads_initialized
      /\ \A j, k \in 1 .. Len(q) : q[j] = q[k] => j = k
      /\ \A v \in Workers : wpc[v] = "none" <=> v \in LeftTo(c)
      /\ \A d \in Clients \ {c} : pc[d] # "starting"
  BY <1>1 DEF OrderlyFacts, Starting
<1>3. /\ LeftTo(c) = LeftTo(c)' \cup {w} /\ w \notin LeftTo(c)'
      /\ \A j, k \in 1 .. Len(Tail(q)) : Tail(q)[j] = Tail(q)[k] => j = k
      /\ Len(q) = 1 => LeftTo(c)' = {}
  BY <1>1, <1>2, RestOf DEF LeftTo
<1>4. /\ terminated' = terminated /\ wpc' = [wpc EXCEPT ![w] = "running"]
      /\ UNCHANGED <<should_terminate, queues>>
  <2>1. wpc[w] = "none"
    BY <1>1, <1>2, <1>3
  <2> QED BY <2>1 DEF StartNext, StartThread
<1>5. \A v \in Workers : wpc'[v] = IF v = w THEN "running" ELSE wpc[v]
  BY <1>1, <1>4 DEF TypesOK, WorkersTypeOK
<1>6. \A v \in Workers : wpc'[v] = "none" <=> v \in LeftTo(c)'
  BY <1>2, <1>3, <1>5
<1> HIDE DEF q, w
<1>7. \A d \in Clients \ {c} : pc'[d] = pc[d] /\ (NotYet(d)' <=> NotYet(d))
                               /\ (Gone(d)' <=> Gone(d))
  BY DEF LeavesAlone, NotYet, Gone
<1>8. NotYet(c) /\ NotYet(c)' /\ ~Gone(c) /\ ~Gone(c)'
  BY <1>1 DEF NotYet, Gone
<1>9. ~should_terminate /\ ~should_terminate' /\ contexts' = contexts
  BY <1>1, <1>2, <1>4 DEF OrderlyFacts, Flags
<1>10. AllInFirst'
  BY <1>1, <1>7, <1>8 DEF OrderlyFacts, AllInFirst
<1>11. Starting'
  <2>1. \A d \in Clients : pc'[d] = "starting" => d = c
    BY <1>2, <1>7
  <2>2. \A j, k \in 1 .. Len(threads_left'[c]) : threads_left'[c][j] = threads_left'[c][k] => j = k
    BY <1>1, <1>3
  <2>3. pc'[c] # "starting" => \A v \in Workers : wpc'[v] # "none"
    BY <1>1, <1>3, <1>6
  <2>4. threads_initialized'
    BY <1>1, <1>2
  <2> QED BY <1>6, <2>1, <2>2, <2>3, <2>4 DEF Starting
<1>12. Flags'
  BY <1>1, <1>2, <1>9 DEF Flags
<1>13. Stopping'
  <2>1. \A d \in Clients : pc[d] \notin {"waking", "joining"}
    BY <1>9 DEF OrderlyFacts, Stopping
  <2> QED BY <1>1, <1>7, <1>9, <2>1 DEF OrderlyFacts, Stopping
<1>14. Ending'
  BY <1>5, <1>9 DEF OrderlyFacts, Ending
<1> QED BY <1>4, <1>10, <1>11, <1>12, <1>13, <1>14 DEF OrderlyFacts

(* While a client has still to come nobody stops the threads.              *)
LEMMA InsertOrderly ==
    ASSUME NEW c, Context(c), Insert(c)
    PROVE  OrderlyFacts'
<1>1. /\ c \in Clients /\ pc[c] = "inserting" /\ pc'[c] = "connected"
      /\ contexts' = contexts \cup {c}
      /\ UNCHANGED <<workerVars, threads_initialized, connects, threads_left>>
  BY DEF Context, Insert, At, Go, ClientTypes
<1>2. \A d \in Clients \ {c} : pc'[d] = pc[d] /\ (NotYet(d)' <=> NotYet(d))
                               /\ (Gone(d)' <=> Gone(d))
  BY DEF Context, LeavesAlone, NotYet, Gone
<1>3. NotYet(c) /\ ~Gone(c)'
  BY <1>1 DEF NotYet, Gone
<1>4. \A d \in Clients : ~Gone(d) /\ pc[d] # "finishing"
  BY <1>1, <1>3 DEF Context, OrderlyFacts, AllInFirst
<1>5. AllInFirst'
  BY <1>1, <1>2, <1>3, <1>4 DEF AllInFirst
<1>6. ~should_terminate /\ ~should_terminate'
  BY <1>1, <1>3 DEF Context, OrderlyFacts, Flags, workerVars
<1>7. \A d \in Clients : LeftTo(d)' = LeftTo(d)
  BY <1>1 DEF LeftTo
<1>8. Starting'
  BY <1>1, <1>2, <1>7 DEF Context, OrderlyFacts, Starting, workerVars
<1>9. threads_initialized
  <2>1. connects[c] # 0
    BY <1>1 DEF Context, PlacesOf
  <2> QED BY <1>1, <1>6, <2>1 DEF Context, OrderlyFacts, Flags, NotBegun
<1>10. Flags'
  BY <1>1, <1>6, <1>9 DEF Flags
<1>11. Stopping'
  <2>1. \A d \in Clients : pc[d] \notin {"stopping", "waking", "joining"}
    <3>1. \A d \in Clients : pc[d] = "stopping" => Gone(d)
      BY DEF Context, PlacesOf, NumbersInv, Gone, NotYet
    <3> QED BY <1>4, <1>6, <3>1 DEF Context, OrderlyFacts, Stopping
  <2> QED BY <1>1, <1>2, <1>6, <2>1 DEF Stopping
<1>12. Ending'
  BY <1>1, <1>6 DEF Context, OrderlyFacts, Ending, workerVars
<1> QED BY <1>5, <1>8, <1>10, <1>11, <1>12 DEF OrderlyFacts, Context

(* Of orderly clients the last one to leave stops the threads.             *)
LEMMA CheckLastOrderly ==
    ASSUME NEW c, Context(c), CheckLast(c)
    PROVE  OrderlyFacts'
<1>1. /\ c \in Clients /\ pc[c] = "checking"
      /\ pc'[c] = IF contexts = {} THEN "stopping" ELSE "out"
      /\ UNCHANGED <<workerVars, threads_initialized, contexts, connects, threads_left>>
  BY DEF Context, CheckLast, At, Go, ClientTypes
<1>2. \A d \in Clients \ {c} : pc'[d] = pc[d] /\ (NotYet(d)' <=> NotYet(d))
                               /\ (Gone(d)' <=> Gone(d))
  BY DEF Context, LeavesAlone, NotYet, Gone
<1>3. Gone(c) /\ ~NotYet(c)'
  BY <1>1 DEF Context, PlacesOf, NumbersInv, Gone, NotYet
<1>4. \A d \in Clients : ~NotYet(d)
  BY <1>1, <1>3 DEF Context, OrderlyFacts, AllInFirst
<1>5. AllInFirst'
  BY <1>2, <1>3, <1>4 DEF AllInFirst
<1>6. \A d \in Clients : LeftTo(d)' = LeftTo(d)
  BY <1>1 DEF LeftTo
<1>7. Starting'
  BY <1>1, <1>2, <1>6 DEF Context, OrderlyFacts, Starting, workerVars
<1>8. Flags'
  <2>1. ~NotBegun
    BY <1>1, <1>3 DEF NotBegun, Gone, NotYet
  <2>2. should_terminate' => contexts' = {} /\ \A d \in Clients : ~NotYet(d)'
    BY <1>1, <1>2, <1>3, <1>4 DEF Context, OrderlyFacts, Flags, workerVars
  <2> QED BY <1>1, <2>1, <2>2 DEF Context, OrderlyFacts, Flags, workerVars
<1>9. Stopping'
  BY <1>1, <1>2, <1>6 DEF Context, OrderlyFacts, Stopping, workerVars
<1>10. Ending'
  BY <1>1 DEF Context, OrderlyFacts, Ending, workerVars, QueueOf
<1> QED BY <1>5, <1>7, <1>8, <1>9, <1>10 DEF OrderlyFacts, Context

(* It tells the threads to end once.                                       *)
LEMMA StopThreadsOrderly ==
    ASSUME NEW c, Context(c), StopThreads(c)
    PROVE  OrderlyFacts'
<1>1. /\ c \in Clients /\ pc[c] = "stopping" /\ ~threads_initialized'
      /\ UNCHANGED <<contexts, connects, threads_left, queues, wpc>>
      /\ \/ /\ threads_initialized /\ pc'[c] = "waking" /\ should_terminate'
         \/ /\ ~threads_initialized /\ pc'[c] = "out" /\ should_terminate' = should_terminate
  BY DEF Context, StopThreads, At, Go, ClientTypes, SetTerminate, workerVars, queues
<1>2. \A d \in Clients \ {c} : pc'[d] = pc[d] /\ (NotYet(d)' <=> NotYet(d))
                               /\ (Gone(d)' <=> Gone(d))
  BY DEF Context, LeavesAlone, NotYet, Gone
<1>3. Gone(c) /\ ~NotYet(c)' /\ contexts = {}
  BY <1>1 DEF Context, PlacesOf, NumbersInv, Gone, NotYet, OrderlyFacts, Stopping
<1>4. \A d \in Clients : ~NotYet(d)
  BY <1>1, <1>3 DEF Context, OrderlyFacts, AllInFirst
<1>5. AllInFirst' /\ \A d \in Clients : ~NotYet(d)'
  BY <1>2, <1>3, <1>4 DEF AllInFirst
<1>6. \A d \in Clients : LeftTo(d)' = LeftTo(d) /\ pc[d] # "starting" /\ pc'[d] # "starting"
  BY <1>1, <1>2, <1>4 DEF LeftTo, NotYet
<1>7. Starting'
  BY <1>1, <1>6 DEF Starting
<1>8. should_terminate'
  <2>1. ~NotBegun
    BY <1>1, <1>3 DEF NotBegun, Gone, NotYet
  <2> QED BY <1>1, <2>1 DEF Context, OrderlyFacts, Flags
<1>9. Flags'
  BY <1>1, <1>3, <1>5, <1>8 DEF Flags
<1>10. CASE threads_initialized
  <2>1. ~should_terminate /\ \A w \in Workers : wpc[w] # "none" /\ wpc[w] # "exited"
    BY <1>6, <1>10 DEF Context, OrderlyFacts, Starting, Flags, Ending
  <2>2. \A d \in Clients : pc[d] \notin {"waking", "joining"}
    BY <2>1 DEF Context, OrderlyFacts, Stopping
  <2>3. Stopping'
    BY <1>1, <1>2, <1>3, <1>8, <1>10, <2>2 DEF Stopping
  <2>4. Ending'
    BY <1>1, <1>8, <2>1 DEF Ending
  <2> QED BY <1>5, <1>7, <1>9, <2>3, <2>4 DEF OrderlyFacts, Context
<1>11. CASE ~threads_initialized
  <2>1. Stopping'
    BY <1>1, <1>2, <1>3, <1>6, <1>8, <1>11 DEF Context, OrderlyFacts, Stopping
  <2>2. Ending'
    BY <1>1, <1>8, <1>11 DEF Context, OrderlyFacts, Ending, queues, QueueOf
  <2> QED BY <1>5, <1>7, <1>9, <2>1, <2>2 DEF OrderlyFacts, Context
<1> QED BY <1>10, <1>11

(* Past the exchange: the client that stops the threads.                   *)
LEMMA WakeWorkersOrderly ==
    ASSUME NEW c, Context(c), WakeWorkers(c)
    PROVE  OrderlyFacts'
<1>1. /\ c \in Clients /\ pc[c] = "waking" /\ pc'[c] = "joining" /\ wpc' = WakeAll
      /\ UNCHANGED <<contexts, connects, queues, should_terminate, threads_initialized>>
      /\ threads_left'[c] = ThreadOrder
      /\ \A d \in Clients \ {c} : threads_left'[d] = threads_left[d]
  BY DEF Context, WakeWorkers, At, Go, ClientTypes, NotifyStop
<1>2. \A d \in Clients \ {c} : pc'[d] = pc[d] /\ (NotYet(d)' <=> NotYet(d))
                               /\ LeftTo(d)' = LeftTo(d)
  BY <1>1 DEF Context, LeavesAlone, NotYet, LeftTo
<1>3. \A w \in Workers : /\ wpc'[w] = "none" <=> wpc[w] = "none"
                         /\ wpc'[w] = "exited" <=> wpc[w] = "exited"
  BY <1>1, WakeAllSame DEF Context
<1>4. should_terminate /\ contexts = {} /\ (\A d \in Clients : ~NotYet(d)) /\ ~threads_initialized
  BY <1>1 DEF Context, OrderlyFacts, Stopping, Flags
<1>5. \A d \in Clients : ~NotYet(d)'
  BY <1>1, <1>2, <1>4 DEF NotYet
<1>6. AllInFirst' /\ Starting' /\ Flags'
  BY <1>1, <1>4, <1>5 DEF AllInFirst, Starting, Flags, NotYet
<1>7. \A w \in Workers : w \in LeftTo(c)'
  BY <1>1, ThreadOrderIs DEF LeftTo
<1>8. Stopping'
  <2>1. \A d \in Clients \ {c} : pc[d] \notin {"waking", "joining"}
    BY <1>1 DEF Context, OrderlyFacts, Stopping
  <2> QED BY <1>1, <1>2, <1>4, <1>7, <2>1 DEF Stopping
<1>9. Ending'
  BY <1>1, <1>3 DEF Context, OrderlyFacts, Ending, queues, QueueOf
<1> QED BY <1>6, <1>8, <1>9 DEF OrderlyFacts, Context

(* It joins one thread after the other.                                    *)
LEMMA JoinNextOrderly ==
    ASSUME NEW c, Context(c), JoinNext(c)
    PROVE  OrderlyFacts'
<1> DEFINE q == threads_left[c]
           w == Head(q)
<1>1. /\ c \in Clients /\ pc[c] = "joining" /\ q \in Seq(Workers) /\ q # <<>> /\ w \in Workers
      /\ wpc[w] \in {"none", "exited"}
      /\ \A v \in Workers : wpc'[v] = IF v = w THEN "none" ELSE wpc[v]
      /\ UNCHANGED <<contexts, connects, queues, should_terminate, threads_initialized>>
      /\ threads_left'[c] = Tail(q)
      /\ \A d \in Clients \ {c} : threads_left'[d] = threads_left[d]
      /\ pc'[c] = IF Len(q) = 1 THEN "out" ELSE "joining"
  BY NextThread DEF Context, JoinNext, At, Go, ClientTypes, Join, TypesOK, WorkersTypeOK
<1>2. \A d \in Clients \ {c} : pc'[d] = pc[d] /\ (NotYet(d)' <=> NotYet(d))
                               /\ LeftTo(d)' = LeftTo(d)
  BY <1>1 DEF Context, LeavesAlone, NotYet, LeftTo
<1>3. LeftTo(c) = LeftTo(c)' \cup {w} /\ (Len(q) = 1 => LeftTo(c)' = {})
  BY <1>1, RestOf DEF LeftTo
<1>4. /\ should_terminate /\ contexts = {} /\ (\A d \in Clients : ~NotYet(d)) /\ ~threads_initialized
      /\ \A v \in Workers : wpc[v] = "none" \/ v \in LeftTo(c)
      /\ \A d \in Clients \ {c} : pc[d] \notin {"waking", "joining"}
  BY <1>1 DEF Context, OrderlyFacts, Stopping, Flags
<1> HIDE DEF q, w
<1>5. \A d \in Clients : ~NotYet(d)'
  BY <1>1, <1>2, <1>4 DEF NotYet
<1>6. AllInFirst' /\ Starting' /\ Flags'
  BY <1>1, <1>4, <1>5 DEF AllInFirst, Starting, Flags, NotYet
<1>7. \A v \in Workers : wpc'[v] = "none" \/ v \in LeftTo(c)'
  BY <1>1, <1>3, <1>4
<1>8. Stopping'
  <2>1. pc'[c] = "out" => \A v \in Workers : wpc'[v] = "none"
    BY <1>1, <1>3, <1>7
  <2>2. \A d \in Clients : pc'[d] = "joining" => \A v \in Workers : wpc'[v] = "none" \/ v \in LeftTo(d)'
    BY <1>2, <1>4, <1>7
  <2>3. \A d \in Clients : pc'[d] \in {"waking", "joining"} => d = c
    BY <1>2, <1>4
  <2>4. (\E d \in Clients : pc'[d] \in {"waking", "joining"}) \/ \A v \in Workers : wpc'[v] = "none"
    BY <1>1, <2>1
  <2> QED BY <1>1, <1>4, <2>2, <2>3, <2>4 DEF Stopping
<1>9. Ending'
  <2>1. \A v \in Workers : QueueOf(v)' = QueueOf(v)
    BY <1>1 DEF queues, QueueOf
  <2> QED BY <1>1, <2>1 DEF Context, OrderlyFacts, Ending
<1> QED BY <1>6, <1>8, <1>9 DEF OrderlyFacts, Context

(* A worker ends only when it is told to and its queue is empty; a queue   *)
(* that is empty then stays so.                                            *)
LEMMA WorkerOrderly ==
    ASSUME OrderlyFacts, TypesOK, UNCHANGED clientVars, NEW w \in Workers,
           WorkerStep(w) \/ SpuriousWakeup(w)
    PROVE  OrderlyFacts'
<1>1. /\ UNCHANGED should_terminate
      /\ \A v \in Workers : wpc'[v] = "none" <=> wpc[v] = "none"
  BY DEF WorkerStep, SpuriousWakeup, LeaveLoop, DecideToSleep, FallAsleep, Take, WriteLog,
         WriteFile, TypesOK, WorkersTypeOK
<1>2. \A v \in Workers : wpc'[v] = "exited" =>
          wpc[v] = "exited" \/ (should_terminate /\ QueueOf(v) = <<>>)
  BY DEF WorkerStep, SpuriousWakeup, LeaveLoop, DecideToSleep, FallAsleep, Take, WriteLog,
         WriteFile, TypesOK, WorkersTypeOK
<1>3. \A v \in Workers : QueueOf(v) = <<>> => QueueOf(v)' = <<>>
  BY DEF WorkerStep, SpuriousWakeup, LeaveLoop, DecideToSleep, FallAsleep, Take, WriteLog,
         WriteFile, QueueOf, queues
<1>4. \A d \in Clients : /\ NotYet(d)' <=> NotYet(d)
                         /\ Gone(d)' <=> Gone(d)
                         /\ LeftTo(d)' = LeftTo(d)
  BY DEF clientVars, NotYet, Gone, LeftTo
<1>5. AllInFirst' /\ Starting' /\ Stopping'
  BY <1>1, <1>4 DEF OrderlyFacts, AllInFirst, Starting, Stopping, clientVars
<1>6. NotBegun => NotBegun'
  <2>1. NotBegun => log_queue' = <<>> /\ file_queue' = <<>>
    BY DEF NotBegun, WorkerStep, SpuriousWakeup, LeaveLoop, DecideToSleep, FallAsleep, Take,
           WriteLog, WriteFile, QueueOf, queues
  <2> QED BY <1>1, <2>1 DEF NotBegun, clientVars
<1>7. Flags'
  BY <1>1, <1>4, <1>6 DEF OrderlyFacts, Flags, clientVars
<1>8. Ending'
  BY <1>1, <1>2, <1>3 DEF OrderlyFacts, Ending
<1> QED BY <1>5, <1>7, <1>8 DEF OrderlyFacts, clientVars

-----------------------------------------------------------------------------

(* Every step keeps what is said of orderly clients.                       *)
LEMMA OrderlyStep ==
    ASSUME ClientTypes, ClientTypes', TypesOK, ContextsInv, PlacesOf, OrderlyInv, [Next]_vars
    PROVE  OrderlyInv'
<1> SUFFICES ASSUME orderly, OrderlyFacts
             PROVE  OrderlyFacts'
  BY DEF OrderlyInv, Next, vars, Worker, Wakeup, clientVars
<1>1. ASSUME NEW c \in Clients, ClientStep(c)
      PROVE  OrderlyFacts'
  <2>1. \A d \in Clients \ {c} : LeavesAlone(d)
    BY <1>1, ClientsApart
  <2>2. NumbersInv
    BY DEF ContextsInv
  <2>3. CASE StartNext(c)
    BY <2>1, <2>2, <2>3, StartNextOrderly
  <2>4. ASSUME ~StartNext(c) PROVE Context(c)
    <3>1. UNCHANGED terminated
      BY <1>1, <2>4 DEF ClientStep, InCall, Connect, Insert, AddTask, Notify, EndReceive,
         Erase, CheckLast, StopThreads, WakeWorkers, JoinNext, Disconnect, Receive
    <3> QED BY <2>1, <2>2, <3>1 DEF Context
  <2>5. CASE Connect(c) \/ Insert(c) \/ CheckLast(c) \/ StopThreads(c) \/ WakeWorkers(c)
             \/ JoinNext(c)
    BY <2>3, <2>4, <2>5, ConnectOrderly, InsertOrderly, CheckLastOrderly, StopThreadsOrderly,
       WakeWorkersOrderly, JoinNextOrderly
  <2>6. CASE \/ AddTask(c) \/ EndReceive(c) \/ \E chunk \in Chunks : Receive(c, chunk)
             \/ Notify(c)
    <3>1. /\ UNCHANGED <<threads_initialized, threads_left, connects, contexts>>
          /\ pc[c] \in InUse /\ pc'[c] \in InUse \ {"finishing"}
          /\ UNCHANGED should_terminate
          /\ wpc' = wpc \/ wpc' = WakeAll
      BY <2>6 DEF AddTask, EndReceive, Receive, Notify, Submit, NotifyAll, workerVars, At, Go,
                  InUse, ClientTypes
    <3>2. SameThreads
      BY <3>1, WakeAllSame DEF SameThreads
    <3> QED BY <2>3, <2>4, <3>1, <3>2, StaysOrderly
  <2>7. CASE Disconnect(c)
    <3>1. /\ UNCHANGED <<threads_initialized, threads_left, connects, should_terminate, wpc>>
          /\ pc[c] \in InUse
          /\ \/ pc'[c] = "finishing" /\ contexts' = contexts
             \/ pc'[c] = "checking" /\ contexts' = contexts \ {c}
      BY <2>7 DEF Disconnect, Submit, workerVars, At, Go, InUse, ClientTypes
    <3>2. \A d \in Clients : ~NotYet(d)
      <4>1. \A d \in Clients : connects[d] # 0
        BY <2>7 DEF Disconnect, CallersConnected, ClientTypes
      <4> QED BY <2>7, <4>1 DEF Disconnect, CallersConnected, NotYet
    <3>3. SameThreads
      BY <3>1 DEF SameThreads
    <3>4. "finishing" \in InUse
      BY DEF InUse
    <3> QED BY <2>3, <2>4, <3>1, <3>2, <3>3, <3>4, StaysOrderly, LeavesOrderly
  <2>8. CASE Erase(c)
    <3>1. /\ UNCHANGED <<threads_initialized, threads_left, connects, should_terminate>>
          /\ pc[c] = "finishing" /\ pc'[c] = "checking" /\ contexts' = contexts \ {c}
          /\ wpc' = WakeAll
      BY <2>8 DEF Erase, NotifyAll, At, Go, ClientTypes
    <3>2. \A d \in Clients : ~NotYet(d)
      BY <3>1 DEF OrderlyFacts, AllInFirst
    <3>3. SameThreads /\ pc[c] \in InUse
      BY <3>1, WakeAllSame DEF SameThreads, InUse
    <3> QED BY <2>3, <2>4, <3>1, <3>2, <3>3, LeavesOrderly
  <2> QED BY <1>1, <2>3, <2>5, <2>6, <2>7, <2>8 DEF ClientStep, InCall
<1>2. ASSUME NEW w \in Workers, Worker(w) \/ Wakeup(w)
      PROVE  OrderlyFacts'
  BY <1>2, WorkerOrderly DEF Worker, Wakeup
<1>3. CASE UNCHANGED vars
  BY <1>3 DEF vars, OrderlyFacts, AllInFirst, Starting, Flags, Stopping, Ending, NotBegun, Gone,
              NotYet, LeftTo, QueueOf
<1> QED BY <1>1, <1>2, <1>3 DEF Next

(***************************************************************************)
(* If all connects come before any disconnect, the last disconnect returns *)
(* only when everything is written, and nothing ends the program.          *)
(***************************************************************************)
THEOREM LastDisconnectFlushes == Spec => []DisconnectFlushes
<1>1. ASSUME ClientTypes, TypesOK, ContextsInv, PlacesOf, GoneInv, OrderlyInv
      PROVE  DisconnectFlushes
  <2>1. orderly => ~terminated
    BY <1>1 DEF OrderlyInv, OrderlyFacts
  <2>2. ASSUME orderly, \A c \in Clients : Returned(c)
        PROVE  /\ log_queue = <<>> /\ file_queue = <<>>
               /\ \A w \in Workers : wpc[w] = "none"
               /\ \A c \in Clients : StaticPushed(c)
    <3>1. OrderlyFacts
      BY <1>1, <2>2 DEF OrderlyInv
    <3>2. contexts = {} /\ \A c \in Clients : Gone(c)
      <4>1. \A c \in Clients : pc[c] = "out" /\ connects[c] # 0
        BY <2>2 DEF Returned
      <4>2. contexts = {}
        BY <1>1, <4>1 DEF ContextsInv, NumbersInv, ClientTypes
      <4> QED BY <4>1, <4>2 DEF Gone, NotYet
    <3>3. \A c \in Clients : StaticPushed(c)
      BY <1>1, <3>2 DEF GoneInv
    <3>4. ~threads_initialized
      BY <2>2, <3>1, <3>2 DEF OrderlyFacts, Flags, Returned
    <3>5. CASE should_terminate
      <4>1. \A w \in Workers : wpc[w] = "none"
        BY <2>2, <3>1, <3>5 DEF OrderlyFacts, Stopping, Returned
      <4>2. QueueOf("log") = <<>> /\ QueueOf("file1") = <<>>
        BY <3>1, <3>5, <4>1 DEF OrderlyFacts, Ending, Workers
      <4> QED BY <3>3, <4>1, <4>2 DEF QueueOf
    <3>6. CASE ~should_terminate
      BY <3>1, <3>3, <3>4, <3>6 DEF OrderlyFacts, Flags, NotBegun
    <3> QED BY <3>5, <3>6
  <2> QED BY <2>1, <2>2 DEF DisconnectFlushes, StaticPushed
<1>2. TypesOK => SubmittedOK
  BY DEF TypesOK
<1> QED BY <1>1, <1>2, ContextsInvariant, ClientTypesInit, ClientTypesStep, LibraryUsesWorkers,
           TypesInvariant, PlacesOfInit, PlacesOfStep, GoneStep, OrderlyInit, OrderlyStep,
           PTL DEF Spec
=============================================================================
