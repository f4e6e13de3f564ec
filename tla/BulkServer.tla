----------------------------- MODULE BulkServer -----------------------------
(***************************************************************************)
(* The server of HW_10: connections bring lines, one thread runs the       *)
(* handlers of all of them (server_p.hpp), and the blocks they form go to  *)
(* the output threads of OutputWorkers (lib/async.cpp).  Commands outside  *)
(* braces of all connections share one static block; a connection's        *)
(* dynamic blocks are its own.                                             *)
(*                                                                         *)
(* A handler runs to its end before the next begins.  It is cut only where *)
(* an output thread can notice: todo holds the steps it has still to do.   *)
(* A line is known by its number in handled, the history of all lines      *)
(* given to process_command.                                               *)
(***************************************************************************)
EXTENDS OutputWorkers, Braces, Integers, SequencesExt

CONSTANTS
    Connections,    \* TCP connections, each made once at most
    Scripts,        \* what a connection may send: its lines, of which empty
                    \* ones do nothing and are left out, and whether the last
                    \* of them ends with a newline
    Bulk,           \* bulk_size
    Endings         \* how a connection may end: "eof", "error"

ASSUME IoAssumption == Submitters = {"io"}
ASSUME ScriptsAssumption ==
    Scripts \subseteq [lines : Seq(STRING \ {""}), newline : BOOLEAN]
ASSUME EndingsAssumption == Bulk \in Nat /\ Endings \subseteq {"eof", "error"}

VARIABLES
    threads_initialized,
    shared,         \* does shared_task_manager() hold a manager?
    static,         \* its static_block_task
    contexts,       \* the connections whose context is in the map
    nesting,        \* dynamic_block_nesting_level of each
    dynamic,        \* dynamic_block_task of each
    sessions_,      \* the connections whose session is kept, oldest first
    phase,          \* "away", "asking", "open", "failed" or "gone"
    net,            \* lines on their way, or in a session's buffer
    tail,           \* does the last line of a connection lack its newline?
    ending,         \* how a connection has ended, or "open"
    handled,        \* the lines given to process_command: [conn, text]
    todo,           \* the steps before the handler that runs has ended
    stopped         \* stop() was called

netVars == <<net, tail, ending>>
asyncVars == <<threads_initialized, shared, static, contexts, nesting, dynamic, handled>>
vars == <<submitted, log_queue, file_queue, should_terminate, unnotified, wpc, hand, logged,
          files, unwritten, file_counter, threads_initialized, shared, static, contexts,
          nesting, dynamic, sessions_, phase, net, tail, ending, handled, todo, stopped>>

Numbers == Seq(1 .. Len(handled))
Phase   == {"away", "asking", "open", "failed", "gone"}

(* A session is kept while it is open or has failed, its context from      *)
(* connect to disconnect, and a manager as long as there is a context.     *)
TypeOK ==
    /\ WorkersTypeOK
    /\ \A i \in 1 .. Len(submitted) : submitted[i].commands \in Numbers \ {<<>>}
    /\ threads_initialized \in BOOLEAN /\ shared \in BOOLEAN /\ stopped \in BOOLEAN
    /\ static \in Numbers
    /\ nesting \in [Connections -> Int]
    /\ dynamic \in [Connections -> Numbers]
    /\ phase \in [Connections -> Phase]
    /\ ToSet(sessions_) = {c \in Connections : phase[c] \in {"open", "failed"}}
    /\ IsInjective(sessions_)
    /\ contexts \subseteq ToSet(sessions_)
    /\ contexts # {} => shared /\ threads_initialized
    /\ todo = <<>> => contexts = ToSet(sessions_)

-----------------------------------------------------------------------------
(***************************************************************************)
(*                             The clients                                 *)
(***************************************************************************)

(* The lines need not arrive at once, but only the order in which handlers *)
(* run can be noticed, and that is free.                                   *)
ClientConnect(c) ==
    /\ phase[c] = "away"
    /\ phase' = [phase EXCEPT ![c] = "asking"]
    /\ \E script \in Scripts :
          /\ net' = [net EXCEPT ![c] = script.lines]
          /\ tail' = [tail EXCEPT ![c] = script.lines # <<>> /\ ~script.newline]
    /\ UNCHANGED <<workerVars, asyncVars, sessions_, ending, todo, stopped>>

ClientCloses(c) ==
    /\ "eof" \in Endings
    /\ phase[c] \in {"asking", "open"} /\ ending[c] = "open"
    /\ ending' = [ending EXCEPT ![c] = "eof"]
    /\ UNCHANGED <<workerVars, asyncVars, sessions_, phase, net, tail, todo, stopped>>

(* A connection that breaks takes with it what the session has not read.   *)
ConnectionBreaks(c) ==
    /\ "error" \in Endings
    /\ phase[c] \in {"asking", "open"} /\ ending[c] = "open"
    /\ ending' = [ending EXCEPT ![c] = "error"]
    /\ \E n \in 0 .. Len(net[c]) :
          /\ net' = [net EXCEPT ![c] = SubSeq(@, 1, n)]
          /\ tail' = [tail EXCEPT ![c] = @ /\ n = Len(net[c])]
    /\ UNCHANGED <<workerVars, asyncVars, sessions_, phase, todo, stopped>>

-----------------------------------------------------------------------------
(***************************************************************************)
(*                     The output side of the handlers                     *)
(***************************************************************************)

Steps(kind, arguments) == [i \in 1 .. Len(arguments) |-> <<kind, arguments[i]>>]
Doing(step) == todo # <<>> /\ Head(todo) = step

(* process_tasks, up to its notify_all, which comes next.  (Its callers    *)
(* test shared_task_manager(): see TypeOK for why there always is one.)    *)
HandOver(kind, commands, rest) ==
    \/ commands = <<>> /\ todo' = rest /\ UNCHANGED workerVars
    \/ /\ commands # <<>> /\ todo' = <<<<"notify">>>> \o rest
       /\ Submit("io", [kind |-> kind, commands |-> commands])

Notify ==
    /\ Doing(<<"notify">>)
    /\ NotifyAll("io")
    /\ todo' = Tail(todo)
    /\ UNCHANGED <<asyncVars, netVars, sessions_, phase, stopped>>

Start(w) ==
    /\ Doing(<<"start", w>>)
    /\ StartThread(w)
    /\ todo' = Tail(todo)
    /\ UNCHANGED <<asyncVars, netVars, sessions_, phase, stopped>>

Terminate ==
    /\ Doing(<<"terminate">>)
    /\ SetTerminate(TRUE)
    /\ todo' = Tail(todo)
    /\ UNCHANGED <<asyncVars, netVars, sessions_, phase, stopped>>

Wake ==
    /\ Doing(<<"wake">>)
    /\ NotifyStop
    /\ todo' = Tail(todo)
    /\ UNCHANGED <<asyncVars, netVars, sessions_, phase, stopped>>

JoinNext(w) ==
    /\ Doing(<<"join", w>>)
    /\ Join(w)
    /\ todo' = Tail(todo)
    /\ UNCHANGED <<asyncVars, netVars, sessions_, phase, stopped>>

-----------------------------------------------------------------------------
(***************************************************************************)
(*                     connect and process_command                         *)
(***************************************************************************)

(* The handler of async_accept: a session, kept, that connects.  The first *)
(* context brings the manager and the threads.  An accept that fails       *)
(* changes nothing and is left out.                                        *)
Accept(c) ==
    /\ todo = <<>> /\ ~stopped
    /\ phase[c] = "asking"
    /\ phase' = [phase EXCEPT ![c] = "open"]
    /\ sessions_' = Append(sessions_, c)
    /\ contexts' = contexts \cup {c}
    /\ nesting' = [nesting EXCEPT ![c] = 0]
    /\ dynamic' = [dynamic EXCEPT ![c] = <<>>]
    /\ shared' = TRUE
    /\ \/ ~shared /\ ~threads_initialized /\ threads_initialized' = TRUE
          /\ SetTerminate(FALSE)
          /\ todo' = Steps("start", ThreadOrder)
       \/ shared /\ UNCHANGED <<workerVars, threads_initialized, todo>>
    /\ UNCHANGED <<static, handled, netVars, stopped>>

\* Mutants: an opening brace does not end the static block; a closing brace
\* tests the level before it lowers it.
OpenBraceKeepsStatic(c, rest) ==
    /\ nesting' = [nesting EXCEPT ![c] = @ + 1]
    /\ todo' = rest
    /\ UNCHANGED <<workerVars, static, dynamic>>
CloseBraceTestsFirst(c, rest) ==
    /\ nesting' = [nesting EXCEPT ![c] = @ - 1]
    /\ \/ /\ nesting[c] = 0
          /\ dynamic' = [dynamic EXCEPT ![c] = <<>>]
          /\ HandOver("dynamic", dynamic[c], rest)
       \/ nesting[c] # 0 /\ todo' = rest /\ UNCHANGED <<workerVars, dynamic>>
    /\ UNCHANGED static

OpenBrace(c, rest) ==
    /\ nesting' = [nesting EXCEPT ![c] = @ + 1]
    /\ \/ nesting[c] = 0 /\ static' = <<>> /\ HandOver("static", static, rest)
       \/ nesting[c] # 0 /\ todo' = rest /\ UNCHANGED <<workerVars, static>>
    /\ UNCHANGED dynamic

CloseBrace(c, rest) ==
    /\ nesting' = [nesting EXCEPT ![c] = @ - 1]
    /\ \/ /\ nesting[c] = 1
          /\ dynamic' = [dynamic EXCEPT ![c] = <<>>]
          /\ HandOver("dynamic", dynamic[c], rest)
       \/ nesting[c] # 1 /\ todo' = rest /\ UNCHANGED <<workerVars, dynamic>>
    /\ UNCHANGED static

\* Mutant of Command: the block is handed over and kept.
CommandKeepsBlock(c, i, rest) ==
    /\ \/ /\ nesting[c] > 0 /\ dynamic' = [dynamic EXCEPT ![c] = Append(@, i)]
          /\ todo' = rest /\ UNCHANGED <<workerVars, static>>
       \/ /\ nesting[c] <= 0 /\ static' = Append(static, i) /\ UNCHANGED dynamic
          /\ \/ Len(static') >= Bulk /\ HandOver("static", static', rest)
             \/ Len(static') < Bulk /\ todo' = rest /\ UNCHANGED workerVars
    /\ UNCHANGED nesting

Command(c, i, rest) ==
    /\ \/ /\ nesting[c] > 0 /\ dynamic' = [dynamic EXCEPT ![c] = Append(@, i)]
          /\ todo' = rest /\ UNCHANGED <<workerVars, static>>
       \/ /\ nesting[c] <= 0 /\ Len(static) + 1 >= Bulk
          /\ static' = <<>> /\ HandOver("static", Append(static, i), rest) /\ UNCHANGED dynamic
       \/ /\ nesting[c] <= 0 /\ Len(static) + 1 < Bulk
          /\ static' = Append(static, i)
          /\ todo' = rest /\ UNCHANGED <<workerVars, dynamic>>
    /\ UNCHANGED nesting

process_command(c, text, rest) ==
    /\ handled' = Append(handled, [conn |-> c, text |-> text])
    /\ \/ text = LeftBrace /\ OpenBrace(c, rest)
       \/ text = RightBrace /\ CloseBrace(c, rest)
       \/ text \notin {LeftBrace, RightBrace} /\ Command(c, Len(handled'), rest)
    /\ UNCHANGED <<threads_initialized, shared, contexts>>

-----------------------------------------------------------------------------
(***************************************************************************)
(*                              handle_read                                *)
(***************************************************************************)

Reading(c)  == todo = <<>> /\ ~stopped /\ phase[c] = "open"
Complete(c) == Len(net[c]) - (IF tail[c] THEN 1 ELSE 0)     \* lines with their newline

(* No error: one line, and the next async_read_until.                      *)
HandleLine(c) ==
    /\ Reading(c) /\ Complete(c) > 0
    /\ process_command(c, Head(net[c]), <<>>)
    /\ net' = [net EXCEPT ![c] = Tail(@)]
    /\ UNCHANGED <<tail, ending, sessions_, phase, stopped>>

EndSession(c) == <<<<"disconnect", c>>, <<"remove", c>>>>

(* End of file: a last line without a newline still counts.                *)
HandleEof(c) ==
    /\ Reading(c) /\ Complete(c) = 0 /\ ending[c] = "eof"
    /\ \/ /\ tail[c] /\ process_command(c, Head(net[c]), EndSession(c))
          /\ net' = [net EXCEPT ![c] = <<>>] /\ tail' = [tail EXCEPT ![c] = FALSE]
       \/ /\ ~tail[c] /\ todo' = EndSession(c)
          /\ UNCHANGED <<workerVars, asyncVars, net, tail>>
    /\ UNCHANGED <<ending, sessions_, phase, stopped>>

\* Mutant of HandleError: the session goes without a disconnect.
HandleErrorForgets(c) ==
    /\ Reading(c) /\ Complete(c) = 0 /\ ending[c] = "error"
    /\ phase' = [phase EXCEPT ![c] = "gone"]
    /\ sessions_' = SelectSeq(sessions_, LAMBDA d : d # c)
    /\ UNCHANGED <<workerVars, asyncVars, netVars, todo, stopped>>

(* Any other error is reported, and nobody reads the session again.        *)
HandleError(c) ==
    /\ Reading(c) /\ Complete(c) = 0 /\ ending[c] = "error"
    /\ phase' = [phase EXCEPT ![c] = "failed"]
    /\ UNCHANGED <<workerVars, asyncVars, netVars, sessions_, todo, stopped>>

-----------------------------------------------------------------------------
(***************************************************************************)
(*                      disconnect, stop_threads, stop                     *)
(***************************************************************************)

StopThreads == <<<<"terminate">>, <<"wake">>>> \o Steps("join", ThreadOrder) \o <<<<"reset">>>>

\* Mutants of Disconnect: every disconnect stops the threads; the last one
\* stops them without finish().
DisconnectAlwaysStops(c) ==
    /\ Doing(<<"disconnect", c>>)
    /\ contexts' = contexts \ {c}
    /\ threads_initialized' = FALSE /\ static' = <<>>
    /\ HandOver("static", static, StopThreads \o Tail(todo))
    /\ UNCHANGED <<shared, nesting, dynamic, handled, netVars, sessions_, phase, stopped>>
DisconnectUnfinished(c) ==
    /\ Doing(<<"disconnect", c>>)
    /\ contexts' = contexts \ {c}
    /\ \/ /\ contexts' = {} /\ threads_initialized /\ threads_initialized' = FALSE
          /\ static' = <<>> /\ todo' = StopThreads \o Tail(todo)
       \/ ~(contexts' = {} /\ threads_initialized) /\ todo' = Tail(todo)
          /\ UNCHANGED <<threads_initialized, static>>
    /\ UNCHANGED <<workerVars, shared, nesting, dynamic, handled, netVars, sessions_, phase,
                   stopped>>

(* The context is erased with the dynamic block it may have begun; without *)
(* contexts stop_threads follows, its finish() first.                      *)
Disconnect(c) ==
    /\ Doing(<<"disconnect", c>>)
    /\ contexts' = contexts \ {c}
    /\ \/ /\ contexts' = {} /\ threads_initialized /\ threads_initialized' = FALSE
          /\ static' = <<>>
          /\ HandOver("static", static, StopThreads \o Tail(todo))
       \/ ~(contexts' = {} /\ threads_initialized) /\ todo' = Tail(todo)
          /\ UNCHANGED <<workerVars, threads_initialized, static>>
    /\ UNCHANGED <<shared, nesting, dynamic, handled, netVars, sessions_, phase, stopped>>

Reset ==
    /\ Doing(<<"reset">>)
    /\ shared' = FALSE
    /\ todo' = Tail(todo)
    /\ UNCHANGED <<workerVars, threads_initialized, static, contexts, nesting, dynamic, handled,
                   netVars, sessions_, phase, stopped>>

(* sessions_ is destroyed: the oldest session ends, and the others after it.*)
Destroy(sessions) == IF sessions = <<>> THEN <<>> ELSE EndSession(Head(sessions))

(* remove_session, or the end of an element of sessions_, which holds every*)
(* session once.                                                           *)
RemoveSession(c) ==
    /\ Doing(<<"remove", c>>)
    /\ \E i \in 1 .. Len(sessions_) :
          sessions_[i] = c /\ sessions_' = RemoveAt(sessions_, i)
    /\ phase' = [phase EXCEPT ![c] = "gone"]
    /\ todo' = IF stopped THEN Destroy(sessions_') ELSE <<>>
    /\ UNCHANGED <<workerVars, asyncVars, netVars, stopped>>

(* A signal: the handler that runs is the last, run() returns, and ~Server *)
(* destroys the sessions, each of which disconnects.                       *)
Stop ==
    /\ todo = <<>> /\ ~stopped
    /\ stopped' = TRUE
    /\ todo' = Destroy(sessions_)
    /\ UNCHANGED <<workerVars, asyncVars, netVars, sessions_, phase>>

-----------------------------------------------------------------------------

Init ==
    /\ WorkersInit
    /\ threads_initialized = FALSE /\ shared = FALSE /\ static = <<>>
    /\ contexts = {} /\ sessions_ = <<>>
    /\ nesting = [c \in Connections |-> 0]
    /\ dynamic = [c \in Connections |-> <<>>]
    /\ phase = [c \in Connections |-> "away"]
    /\ net = [c \in Connections |-> <<>>]
    /\ tail = [c \in Connections |-> FALSE]
    /\ ending = [c \in Connections |-> "open"]
    /\ handled = <<>> /\ todo = <<>> /\ stopped = FALSE

Client(c)  == ClientConnect(c) \/ ClientCloses(c) \/ ConnectionBreaks(c)
Handler(c) == Accept(c) \/ HandleLine(c) \/ HandleEof(c) \/ HandleError(c)
Step ==
    \/ Notify \/ Terminate \/ Wake \/ Reset
    \/ \E w \in Workers : Start(w) \/ JoinNext(w)
    \/ \E c \in Connections : Disconnect(c) \/ RemoveSession(c)

Worker(w) == WorkerStep(w) /\ UNCHANGED <<asyncVars, netVars, sessions_, phase, todo, stopped>>
Wakeup(w) == SpuriousWakeup(w) /\ UNCHANGED <<asyncVars, netVars, sessions_, phase, todo, stopped>>

Next ==
    \/ \E c \in Connections : Client(c) \/ Handler(c)
    \/ Step
    \/ Stop
    \/ \E w \in Workers : Worker(w) \/ Wakeup(w)

Spec == Init /\ [][Next]_vars

(***************************************************************************)
(* The threads go on, and asio runs the handler of every connection that   *)
(* has one to run.  Clients need not do anything, and nobody has to stop   *)
(* the server.  Strong fairness: a thread that waits for queue_mutex gets  *)
(* it although others take it in between, a session its turn although      *)
(* other sessions have theirs.                                             *)
(***************************************************************************)
Fairness ==
    /\ \A w \in Workers : SF_vars(Worker(w))
    /\ SF_vars(Step)
    /\ \A c \in Connections : SF_vars(Handler(c))

LiveSpec == Spec /\ Fairness

-----------------------------------------------------------------------------
(***************************************************************************)
(*                              Properties                                 *)
(***************************************************************************)

(* The lines of a connection as they were handled, and how deep each is.   *)
LinesOf(c, n)  == {i \in 1 .. n : handled[i].conn = c}
WithText(c, n, text) == {i \in 1 .. n : handled[i].text = text /\ handled[i].conn = c}
LevelAfter(c, n) ==
    Cardinality(WithText(c, n, LeftBrace)) - Cardinality(WithText(c, n, RightBrace))
Level(i)     == LevelAfter(handled[i].conn, i)
IsCommand(i) == handled[i].text \notin {LeftBrace, RightBrace}

BlocksOf(kind) == {b \in 1 .. Len(submitted) : submitted[b].kind = kind}
Commands(b)    == submitted[b].commands

(* The static blocks of all connections mixed: every command outside       *)
(* braces, once and in the order in which they were handled, at most Bulk  *)
(* to a block (or one, should Bulk be 0).                                  *)
StaticBlocksInOrder ==
    LET blocks == BlocksOf("static")
    IN  /\ \A b \in blocks : Increasing(Commands(b)) /\ Before(Commands(b), static)
        /\ \A a, b \in blocks : a < b => Before(Commands(a), Commands(b))
        /\ Increasing(static)
        /\ (UNION {ToSet(Commands(b)) : b \in blocks}) \cup ToSet(static)
             = {i \in 1 .. Len(handled) : IsCommand(i) /\ Level(i) <= 0}
        /\ \A b \in blocks : Len(Commands(b)) = 1 \/ Len(Commands(b)) <= Bulk

(* A static block ends when any connection begins a dynamic one.           *)
BraceEndsStaticBlock ==
    \A b \in BlocksOf("static") : \A j, k \in 1 .. Len(Commands(b)) :
        \A i \in Commands(b)[j] .. Commands(b)[k] : handled[i].text = LeftBrace => Level(i) # 1

(* The commands of a connection among the first n lines since it was last  *)
(* outside braces, and the lines that take a connection out of them.       *)
Enclosed(c, n) ==
    LET outside == {k \in LinesOf(c, n) : Level(k) <= 0}
    IN  {j \in LinesOf(c, n) : IsCommand(j) /\ \A k \in outside : k < j}
LastBraces == {i \in 1 .. Len(handled) : handled[i].text = RightBrace /\ Level(i) = 0}

(* "Commands from dynamic blocks [...] from different connections should   *)
(* not be combined" (HW_10/README.md:20): the dynamic blocks are, in the   *)
(* order of their closing braces, the commands between a connection's own  *)
(* outermost braces, all of them, whatever the others send in between.     *)
DynamicBlocksWhole ==
    LET blocks == BlocksOf("dynamic")
        pairs  == {[last |-> i, within |-> Enclosed(handled[i].conn, i - 1)] : i \in LastBraces}
        filled == {p \in pairs : p.within # {}}
        Holds(b, p) == ToSet(Commands(b)) = p.within
    IN  /\ \A b \in blocks : Increasing(Commands(b)) /\ \E p \in filled : Holds(b, p)
        /\ \A p \in filled : \E b \in blocks : Holds(b, p)
        /\ \A a, b \in blocks : \A p, q \in filled :
              a < b /\ Holds(a, p) /\ Holds(b, q) => p.last < q.last

(* When the last session has gone everything has been written: no block is *)
(* queued or in a thread's hand, no thread is left, no command waits in an *)
(* unfinished static block.                                                *)
EmptyServerHasWritten ==
    sessions_ = <<>> /\ todo = <<>> =>
        /\ log_queue = <<>> /\ file_queue = <<>> /\ static = <<>>
        /\ \A w \in Workers : wpc[w] = "none"

Written(i) ==
    \E b \in ToSet(logged) : \E k \in 1 .. Len(submitted[b].commands) : submitted[b].commands[k] = i

(* "Running the commands should result in the console displaying [...]     *)
(* bulk: 9" (HW_10/README.md:32-37), a static block that is not full: once *)
(* all connections have ended, every command outside braces of one that    *)
(* ended in the ordinary way is displayed.                                 *)
AllEnded == \A c \in Connections : phase[c] = "away" \/ ending[c] # "open"
TailIsDisplayed ==
    <>[]AllEnded =>
        []<>(\A i \in 1 .. Len(handled) :
                IsCommand(i) /\ Level(i) <= 0 /\ ending[handled[i].conn] = "eof" => Written(i))
=============================================================================
