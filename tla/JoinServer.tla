----------------------------- MODULE JoinServer -----------------------------
(***************************************************************************)
(* The server of HW_11: sessions that read lines, a Database of two tables *)
(* they share, and the replies, each message of which is an async_write of *)
(* its own.  All handlers run in the one thread of the io_context.         *)
(*                                                                         *)
(* A message is a text of two parts, so that it may be sent in part.  A    *)
(* message is sent at once while the socket takes it; else it waits beside *)
(* the others, although the string it was made of is gone when do_write    *)
(* returns, unless it is a literal: what is sent later is unspecified.     *)
(***************************************************************************)
EXTENDS Integers, Sequences, SequencesExt, FiniteSetsExt

CONSTANTS
    Clients,
    Fragile,        \* clients whose connections may break
    Scripts,        \* bound: what the clients may send: a sequence of commands each
    Capacity        \* parts that fit between the server and an idle client

ASSUME CapacityAssumption == Capacity \in Nat \ {0}
ASSUME FragileAssumption == Fragile \subseteq Clients

Commands == UNION {UNION {Range(script[c]) : c \in Clients} : script \in Scripts}

ASSUME ScriptsAssumption ==
    /\ \A script \in Scripts : script \in [Clients -> Seq(Commands)]
    /\ \A command \in Commands :
          command.cmd = "INSERT" /\ command.decodes => command.id \in Int

VARIABLES
    table,          \* the tables of the Database: records by id
    running,        \* has the io_context not been stopped?
    session,        \* of each client: "none", "reading", "ended" (end of file), "broken"
    inbox,          \* the lines of each client that are not handled yet
    conn,           \* the writing side of a session, see Conn
    got,            \* parts a client has received
    log,            \* history: the commands handled with their replies, in order
    owed            \* history: the messages of all replies to a client

serverVars == <<table, session, log, owed>>
vars == <<table, running, session, inbox, conn, got, log, owed>>

Tables == {"A", "B"}

OK == <<"OK">>
Unknown == <<"ERR unknown command">>
Unspecified == <<"unspecified">>
Literals == {OK, Unknown}

Names == {""} \cup {command.name : command \in {x \in Commands : x.cmd = "INSERT"}}
Text == {OK, Unknown, Unspecified} \cup ({"ERR duplicate"} \X Int)
            \cup ({"row"} \X Int \X Names \X Names)
Part == Text \X (1 .. 2)
Write == [text : Text, from : 1 .. 2]

(* The writing side: the parts in the socket, the writes that wait for it, *)
(* those that were done in part and whose rest is to be started again, and *)
(* whether the reactor would try to send at once.                          *)
IdleConn == [wire |-> <<>>, ops |-> <<>>, posted |-> <<>>, try_speculative |-> TRUE,
             congested |-> FALSE]
Conn == [wire : Seq(Part), ops : Seq(Write), posted : Seq(Write), try_speculative : BOOLEAN,
         congested : BOOLEAN]

(* Types, and: the socket holds no more than its capacity, and a write     *)
(* waits only where an earlier one found the socket full (server.cpp:138). *)
TypeOK ==
    /\ DOMAIN table = Tables
    /\ \A t \in Tables : \A id \in DOMAIN table[t] : id \in Int /\ table[t][id] \in Names
    /\ running \in BOOLEAN
    /\ session \in [Clients -> {"none", "reading", "ended", "broken"}]
    /\ inbox \in [Clients -> Seq(Commands)]
    /\ conn \in [Clients -> Conn]
    /\ \A c \in Clients :
          LET k == conn[c]
          IN  /\ Len(k.wire) <= Capacity
              /\ \A i \in 1 .. Len(k.posted) : k.posted[i].from = 2
              /\ k.posted # <<>> \/ k.ops # <<>> \/ ~k.try_speculative => k.congested
              /\ session[c] \in {"none", "broken"} => k = IdleConn
    /\ got \in [Clients -> Seq(Part)]
    /\ log \in Seq([command : Commands, reply : Seq(Text)])
    /\ owed \in [Clients -> Seq(Text)]

Init ==
    /\ table = [t \in Tables |-> <<>>]
    /\ running = TRUE
    /\ session = [c \in Clients |-> "none"]
    /\ inbox \in Scripts
    /\ conn = [c \in Clients |-> IdleConn]
    /\ got = [c \in Clients |-> <<>>]
    /\ log = <<>> /\ owed = [c \in Clients |-> <<>>]

-----------------------------------------------------------------------------
(***************************************************************************)
(*                               Database                                  *)
(***************************************************************************)
Ids(t) == DOMAIN table[t]

\* A table in which the record of that id is this one.
WithRecord(records, id, name) ==
    [x \in DOMAIN records \cup {id} |-> IF x = id THEN name ELSE records[x]]

\* Mutant of insert: a record that is there is overwritten.
Overwrites(t, id, name) ==
    [done |-> t \in Tables,
     table |-> IF t \in Tables THEN [table EXCEPT ![t] = WithRecord(@, id, name)] ELSE table]

\* Mutant of insert: any table is taken, and made if it is not there.
AnyTable(t, id, name) ==
    LET done == t \in Tables => id \notin Ids(t)
    IN  [done |-> done,
         table |-> IF ~done THEN table
                   ELSE IF t \in Tables THEN [table EXCEPT ![t] = WithRecord(@, id, name)]
                   ELSE (t :> (id :> name)) @@ table]

(* False for an id that is there and for a table that is not.              *)
insert(t, id, name) ==
    LET done == t \in Tables /\ (t \in Tables => id \notin Ids(t))
    IN  [done |-> done,
         table |-> IF done THEN [table EXCEPT ![t] = WithRecord(@, id, name)] ELSE table]

truncate(t) == IF t \in Tables THEN [table EXCEPT ![t] = <<>>] ELSE table

NameIn(t, id) == IF id \in Ids(t) THEN table[t][id] ELSE ""
Row(id) == <<"row", id, NameIn("A", id), NameIn("B", id)>>

(* A set of ids in ascending order: the i-th has i - 1 below it.           *)
Ascending(ids) ==
    [i \in 1 .. Cardinality(ids) |->
        CHOOSE id \in ids : Cardinality({x \in ids : x < id}) = i - 1]

intersection == LET ids == Ascending(Ids("A") \cap Ids("B"))
                IN  [i \in DOMAIN ids |-> Row(ids[i])]

symmetric_difference ==
    LET ids == Ascending((Ids("A") \cup Ids("B")) \ (Ids("A") \cap Ids("B")))
    IN  [i \in DOMAIN ids |-> Row(ids[i])]

-----------------------------------------------------------------------------
(***************************************************************************)
(*             Writing to a socket: async_write of Boost.Asio              *)
(***************************************************************************)
Parts(text) == <<<<text, 1>>, <<text, 2>>>>
Message(text) == [text |-> text, from |-> 1]
Remaining(m) == SubSeq(Parts(m.text), m.from, 2)

\* Mutant of StartWrite: what does not fit at once is lost (async_write_some).
WriteSome(k, m) ==
    LET room == Capacity - Len(k.wire)
    IN  IF k.ops # <<>> \/ room = 0 THEN [k EXCEPT !.ops = Append(@, m), !.congested = TRUE]
        ELSE [k EXCEPT !.wire = @ \o SubSeq(Remaining(m), 1, Min({room, Len(Remaining(m))}))]

(* A write is sent as far as there is room if none waits before it and the *)
(* socket was not full last time; a rest is started again by a handler.    *)
StartWrite(k, m) ==
    LET room == Capacity - Len(k.wire)
    IN  CASE k.ops # <<>> \/ ~k.try_speculative \/ room = 0 ->
                [k EXCEPT !.ops = Append(@, m), !.congested = TRUE]
          [] k.ops = <<>> /\ k.try_speculative /\ room >= Len(Remaining(m)) ->
                [k EXCEPT !.wire = @ \o Remaining(m)]
          [] OTHER -> [k EXCEPT !.wire = Append(@, Head(Remaining(m))),
                                !.posted = Append(@, [m EXCEPT !.from = 2]),
                                !.try_speculative = FALSE, !.congested = TRUE]

\* The connection after each of several messages.
Writes(k, ms) ==
    LET after[i \in 0 .. Len(ms)] == IF i = 0 THEN k ELSE StartWrite(after[i - 1], ms[i])
    IN  after

WriteAll(k, ms) == Writes(k, ms)[Len(ms)]

(* Sent later, a message that is no literal is whatever its memory holds.  *)
Late(m) == IF m.text \in Literals THEN m ELSE [m EXCEPT !.text = Unspecified]

(* The handler of a write that was done in part.                           *)
Continued(k) == StartWrite([k EXCEPT !.posted = Tail(@)], Late(Head(k.posted)))

ContinueWrite(c) ==
    /\ running /\ conn[c].posted # <<>>
    /\ conn' = [conn EXCEPT ![c] = Continued(@)]
    /\ UNCHANGED <<serverVars, running, inbox, got>>

(* The reactor finds the socket writable and performs what waits.          *)
Performed(k) == WriteAll([k EXCEPT !.ops = <<>>, !.try_speculative = TRUE],
                         [i \in DOMAIN k.ops |-> Late(k.ops[i])])

Writable(c) ==
    /\ running /\ Len(conn[c].wire) < Capacity
    /\ conn[c].ops # <<>> \/ ~conn[c].try_speculative
    /\ conn' = [conn EXCEPT ![c] = Performed(@)]
    /\ UNCHANGED <<serverVars, running, inbox, got>>

-----------------------------------------------------------------------------
(***************************************************************************)
(*                         Server and sessions                             *)
(***************************************************************************)
Accept(c) ==
    /\ running /\ session[c] = "none"
    /\ session' = [session EXCEPT ![c] = "reading"]
    /\ UNCHANGED <<table, running, inbox, conn, got, log, owed>>

(* The id and the name of an INSERT.  An id that is not a number becomes 0 *)
(* and the stream fails, so that the name is empty.                        *)
Decoded(command) ==
    IF command.decodes THEN [id |-> command.id, name |-> command.name]
                       ELSE [id |-> 0, name |-> ""]

(* The tables after a command, and the messages of its reply.              *)
process_command(command) ==
    CASE command.cmd = "INSERT" ->
            LET record == Decoded(command)
                result == insert(command.table, record.id, record.name)
            IN  [table |-> result.table,
                 reply |-> <<IF result.done THEN OK ELSE <<"ERR duplicate", record.id>>>>]
      [] command.cmd = "TRUNCATE" -> [table |-> truncate(command.table), reply |-> <<OK>>]
      [] command.cmd = "INTERSECTION" -> [table |-> table, reply |-> Append(intersection, OK)]
      [] command.cmd = "SYMMETRIC_DIFFERENCE" ->
            [table |-> table, reply |-> Append(symmetric_difference, OK)]
      [] OTHER -> [table |-> table, reply |-> <<Unknown>>]

\* Mutant of HandleLine: the next read is not started.
HandleOneLine(c) ==
    /\ running /\ session[c] = "reading" /\ inbox[c] # <<>>
    /\ LET result == process_command(Head(inbox[c]))
       IN  /\ table' = result.table
           /\ conn' = [conn EXCEPT ![c] =
                          WriteAll(@, [i \in DOMAIN result.reply |-> Message(result.reply[i])])]
           /\ log' = Append(log, [command |-> Head(inbox[c]), reply |-> result.reply])
           /\ owed' = [owed EXCEPT ![c] = @ \o result.reply]
    /\ inbox' = [inbox EXCEPT ![c] = Tail(@)]
    /\ session' = [session EXCEPT ![c] = "ended"]
    /\ UNCHANGED <<running, got>>

(* The handler of async_read_until, which starts the next read.            *)
HandleLine(c) ==
    /\ running /\ session[c] = "reading" /\ inbox[c] # <<>>
    /\ LET result == process_command(Head(inbox[c]))
       IN  /\ table' = result.table
           /\ conn' = [conn EXCEPT ![c] =
                          WriteAll(@, [i \in DOMAIN result.reply |-> Message(result.reply[i])])]
           /\ log' = Append(log, [command |-> Head(inbox[c]), reply |-> result.reply])
           /\ owed' = [owed EXCEPT ![c] = @ \o result.reply]
    /\ inbox' = [inbox EXCEPT ![c] = Tail(@)]
    /\ UNCHANGED <<running, session, got>>

(* End of file: nothing more is read, but the session, which holds itself, *)
(* and its socket stay.                                                    *)
HandleEof(c) ==
    /\ running /\ session[c] = "reading" /\ inbox[c] = <<>>
    /\ session' = [session EXCEPT ![c] = "ended"]
    /\ UNCHANGED <<table, running, inbox, conn, got, log, owed>>

(* A connection breaks: what was not read and what was not received is     *)
(* lost, and reads and writes end with an error that is only printed.      *)
HandleError(c) ==
    /\ running /\ session[c] \in {"reading", "ended"}
    /\ session' = [session EXCEPT ![c] = "broken"]
    /\ inbox' = [inbox EXCEPT ![c] = <<>>]
    /\ conn' = [conn EXCEPT ![c] = IdleConn]
    /\ UNCHANGED <<table, running, got, log, owed>>

(* stop(), from another thread or a signal handler; the program ends.      *)
Stop ==
    /\ running /\ running' = FALSE
    /\ UNCHANGED <<serverVars, inbox, conn, got>>

-----------------------------------------------------------------------------
(* A client sends its lines without waiting for replies, at any time until *)
(* they are handled, and reads what has come.                              *)
Receive(c) ==
    /\ running /\ conn[c].wire # <<>>
    /\ got' = [got EXCEPT ![c] = @ \o conn[c].wire]
    /\ conn' = [conn EXCEPT ![c].wire = <<>>]
    /\ UNCHANGED <<serverVars, running, inbox>>

Step ==
    \E c \in Clients :
       \/ Accept(c) \/ HandleLine(c) \/ HandleEof(c) \/ ContinueWrite(c) \/ Writable(c)
       \/ Receive(c)

Next ==
    \/ Stop \/ Step
    \/ \E c \in Fragile : HandleError(c)

Spec == Init /\ [][Next]_vars

(* The io thread runs the handlers that are ready, and clients send their  *)
(* lines and read.  No run has infinitely many steps, so that fairness of  *)
(* all steps together is fairness of each.                                 *)
LiveSpec == Spec /\ WF_vars(Step)

-----------------------------------------------------------------------------
(***************************************************************************)
(*                              Properties                                 *)
(***************************************************************************)
\* The parts of all replies to a client, and how many of them are waiting.
Expected(c) == [i \in 1 .. 2 * Len(owed[c]) |-> <<owed[c][(i + 1) \div 2], 2 - (i % 2)>>]

Broken(c) == session[c] = "broken"

PartsWaiting(ms) == 2 * Len(ms) - Cardinality({i \in DOMAIN ms : ms[i].from = 2})

(* On a connection that has not broken every part of every reply is        *)
(* received, on its way or waits to be sent, also when the socket is full; *)
(* and as long as none of its writes had to wait, its client receives      *)
(* exactly the replies to the lines handled, in their order                *)
(* (server.cpp:136-158).                                                   *)
RepliesDelivered ==
    \A c \in Clients :
        /\ ~Broken(c) => Len(got[c]) + Len(conn[c].wire) + PartsWaiting(conn[c].ops)
                              + PartsWaiting(conn[c].posted) = Len(Expected(c))
        /\ ~Broken(c) /\ ~conn[c].congested => got[c] \o conn[c].wire = Expected(c)

(* No line so far was an INSERT with an id that is no number. Decoding one *)
(* fails, which should be answered with an error (HW_11/README.md:62); the *)
(* code answers OK and puts 0 into the table.                              *)
AllDecode == \A i \in DOMAIN log : log[i].command.cmd = "INSERT" => log[i].command.decodes

(* The table t before the n-th command of the log: of each id the name of  *)
(* the first INSERT since the last TRUNCATE.                               *)
Since(t, n) == Max({0} \cup {i \in 1 .. n - 1 : log[i].command.cmd = "TRUNCATE"
                                                /\ log[i].command.table = t})
Inserts(t, n, id) ==
    {i \in Since(t, n) + 1 .. n - 1 : /\ log[i].command.cmd = "INSERT"
                                      /\ log[i].command.table = t
                                      /\ log[i].command.id = id}
IdsBefore(t, n) ==
    {id \in {log[i].command.id : i \in {j \in 1 .. n - 1 : log[j].command.cmd = "INSERT"}} :
        Inserts(t, n, id) # {}}
NameBefore(t, n, id) ==
    IF Inserts(t, n, id) = {} THEN "" ELSE log[Min(Inserts(t, n, id))].command.name

RowBefore(n, id) == <<"row", id, NameBefore("A", n, id), NameBefore("B", n, id)>>

(* Until a malformed INSERT is handled each reply, when it is made, is the *)
(* one that the commands handled before it, by any session, call for: an   *)
(* INSERT succeeds if the id is new in A or B, and the joins list, by      *)
(* ascending id, the ids of both tables or of just one, with the names     *)
(* first inserted (database.cpp:19-167, server.cpp:160-206).               *)
RepliesFollowHistory ==
    log # <<>> /\ AllDecode =>
        LET n       == Len(log)
            command == log[n].command
            reply   == log[n].reply
            in(t)   == IdsBefore(t, n)
            Lists(S) ==
                \E ids \in [1 .. Cardinality(S) -> S] :
                    /\ \A i, j \in DOMAIN ids : i < j => ids[i] < ids[j]
                    /\ reply = Append([i \in DOMAIN ids |-> RowBefore(n, ids[i])], OK)
        IN  CASE command.cmd = "INSERT" ->
                    reply = IF command.table \in Tables /\ command.id \notin in(command.table)
                            THEN <<OK>> ELSE <<<<"ERR duplicate", command.id>>>>
              [] command.cmd = "TRUNCATE" -> reply = <<OK>>
              [] command.cmd = "INTERSECTION" -> Lists(in("A") \cap in("B"))
              [] command.cmd = "SYMMETRIC_DIFFERENCE" ->
                    Lists((in("A") \ in("B")) \cup (in("B") \ in("A")))
              [] OTHER -> reply = <<Unknown>>

(* While the server runs every line of a connection that does not break is *)
(* answered: a client that reads on receives as many parts as its replies  *)
(* have, although sessions share a thread, others break, and writes wait   *)
(* for each other (server.cpp:127, 138).                                   *)
EveryLineAnswered ==
    <>(running => \A c \in Clients :
                      inbox[c] = <<>> /\ (~Broken(c) => Len(got[c]) = 2 * Len(owed[c])))

(* "In response to any command, the server sends the OK\n sequence in case *)
(* of success" (HW_11/README.md:62), after rows "in ascending order of the *)
(* id field" (:54): what a client receives begins the replies owed to it.  *)
(* A row sent late is unspecified, and the rest of a message sent in part  *)
(* comes after messages that were queued behind it.                        *)
RepliesExact ==
    \A c \in Clients : IsPrefix(got[c] \o conn[c].wire, Expected(c))
=============================================================================
