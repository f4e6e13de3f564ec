----------------------------- MODULE BulkParser -----------------------------
(***************************************************************************)
(* The batch command processor of HW_7: class bulk::taskmanager, which     *)
(* reads lines from a stream, cuts them into blocks and writes each block  *)
(* to the console and to a log file named after a second.  A file may fail *)
(* to open, which leaves the block where it was.  A signal may come at any *)
(* time.                                                                   *)
(*                                                                         *)
(* Commands are positions in the lines read.  A block on the console       *)
(* carries the second that names its file; opening a file of that name     *)
(* again truncates it, so a file holds the last block of its second.       *)
(***************************************************************************)
EXTENDS Braces, Integers, SequencesExt

CONSTANTS
    MaxStatic,      \* max_static_task_count
    FileOpens,      \* what opening a log file may give: subset of BOOLEAN
    Delays,         \* seconds that may pass between two lines
    MaxLines        \* bound: lines read

ASSUME MaxStaticAssumption == MaxStatic \in Nat \ {0}
ASSUME EnvironmentAssumption ==
    FileOpens \subseteq BOOLEAN /\ Delays \subseteq Nat /\ MaxLines \in Nat

VARIABLES
    lines,          \* the texts of the lines read so far
    times,          \* the second in which each was read
    manager,        \* the members of the taskmanager
    console,        \* the blocks written, in order
    failed,         \* was a file set to fail to open, in any call so far?
    stop_flag,
    pc              \* where the thread of the program is

vars == <<lines, times, manager, console, failed, stop_flag, pc>>

Epoch == 0              \* a time_point of zero: no timestamp yet

(* Commands differ by their position: one text stands for all of them.    *)
Line == {LeftBrace, RightBrace, "cmd"}

Manager == [static_block_task : Seq(Nat), dynamic_block_task : Seq(Nat),
            dynamic_block_nesting_level : Nat, task_count : Nat,
            static_block_timestamp : Nat, dynamic_block_timestamp : Nat]

Block == [commands : Seq(Nat), second : Nat]

TypeOK ==
    /\ lines \in Seq(Line) /\ times \in Seq(Nat) /\ Len(times) = Len(lines)
    /\ manager \in Manager
    /\ console \in Seq(Block)
    /\ failed \in BOOLEAN /\ stop_flag \in BOOLEAN
    /\ pc \in {"idle", "testing", "reading", "destroyed"}

Init ==
    /\ lines = <<>> /\ times = <<>> /\ console = <<>>
    /\ manager = [static_block_task |-> <<>>, dynamic_block_task |-> <<>>,
                  dynamic_block_nesting_level |-> 0, task_count |-> 0,
                  static_block_timestamp |-> Epoch, dynamic_block_timestamp |-> Epoch]
    /\ failed = FALSE /\ stop_flag = FALSE
    /\ pc = "idle"

-----------------------------------------------------------------------------
(***************************************************************************)
(* The member functions give the manager after the call and the blocks     *)
(* written in it.  opens[i] says whether the i-th file of a call opens.    *)
(***************************************************************************)
Quiet(m) == [manager |-> m, blocks |-> <<>>]

is_dynamic_block_active(m) == m.dynamic_block_nesting_level > 0

\* Mutant of process_tasks: the block is cleared even if the file is not open.
ClearsFirst(m, block_task, opens) ==
    LET timestamp == IF m.task_count # 0 THEN "static_block_timestamp"
                                         ELSE "dynamic_block_timestamp"
    IN  IF ~opens THEN Quiet([m EXCEPT ![block_task] = <<>>])
        ELSE [manager |-> [m EXCEPT ![block_task] = <<>>, ![timestamp] = Epoch, !.task_count = 0],
              blocks  |-> IF m[block_task] = <<>> THEN <<>>
                          ELSE <<[commands |-> m[block_task], second |-> m[timestamp]]>>]

\* Mutant of process_tasks: the timestamp is kept for the next block.
KeepsTimestamp(m, block_task, opens) ==
    LET timestamp == IF m.task_count # 0 THEN "static_block_timestamp"
                                         ELSE "dynamic_block_timestamp"
    IN  IF m[block_task] = <<>> \/ ~opens THEN Quiet(m)
        ELSE [manager |-> [m EXCEPT ![block_task] = <<>>, !.task_count = 0],
              blocks  |-> <<[commands |-> m[block_task], second |-> m[timestamp]]>>]

(* The count of static commands, not the block, chooses the timestamp that *)
(* names the file.                                                         *)
process_tasks(m, block_task, opens) ==
    LET timestamp == IF m.task_count # 0 THEN "static_block_timestamp"
                                         ELSE "dynamic_block_timestamp"
    IN  IF m[block_task] = <<>> \/ ~opens THEN Quiet(m)
        ELSE [manager |-> [m EXCEPT ![block_task] = <<>>, ![timestamp] = Epoch, !.task_count = 0],
              blocks  |-> <<[commands |-> m[block_task], second |-> m[timestamp]]>>]

OpenBracket(m, now, opens) ==
    LET flushed == IF is_dynamic_block_active(m) THEN Quiet(m)
                   ELSE process_tasks([m EXCEPT !.dynamic_block_timestamp = now],
                                      "static_block_task", opens[1])
    IN  [flushed EXCEPT !.manager.dynamic_block_nesting_level = @ + 1]

\* Mutant of AddStatic: the block is full one command late.
FullLate(m, p, now, opens) ==
    LET added == [m EXCEPT !.static_block_task = Append(@, p),
                           !.task_count = @ + 1,
                           !.static_block_timestamp = IF @ = Epoch THEN now ELSE @]
    IN  IF m.task_count # 0 /\ m.task_count % MaxStatic = 0
        THEN process_tasks(added, "static_block_task", opens)
        ELSE Quiet(added)

AddStatic(m, p, now, opens) ==
    LET added == [m EXCEPT !.static_block_task = Append(@, p),
                           !.task_count = @ + 1,
                           !.static_block_timestamp = IF @ = Epoch THEN now ELSE @]
    IN  IF added.task_count % MaxStatic = 0
        THEN process_tasks(added, "static_block_task", opens)
        ELSE Quiet(added)

AddCommand(m, p, now, opens) ==
    IF is_dynamic_block_active(m)
    THEN Quiet([m EXCEPT !.dynamic_block_task = Append(@, p)])
    ELSE AddStatic(m, p, now, opens[1])

\* Mutant of CloseBracket: the level is not put back to 0.
KeepsMinusOne(m, p, now, opens) ==
    LET flushed == process_tasks(m, "dynamic_block_task", opens[1])
        lowered == [flushed EXCEPT !.manager.dynamic_block_nesting_level = @ - 1]
    IN  CASE m.dynamic_block_nesting_level > 1 ->
                Quiet([m EXCEPT !.dynamic_block_nesting_level = @ - 1])
          [] m.dynamic_block_nesting_level = 1 -> lowered
          [] OTHER -> AddStatic(lowered.manager, p, now, opens[2])

(* The level goes down, to -1 without an opening bracket; if no pair is    *)
(* left open the dynamic block is written, and at -1 the bracket becomes a *)
(* command and the level 0.                                                *)
CloseBracket(m, p, now, opens) ==
    LET flushed == process_tasks(m, "dynamic_block_task", opens[1])
    IN  CASE m.dynamic_block_nesting_level > 1 ->
                Quiet([m EXCEPT !.dynamic_block_nesting_level = @ - 1])
          [] m.dynamic_block_nesting_level = 1 ->
                [flushed EXCEPT !.manager.dynamic_block_nesting_level = 0]
          [] OTHER -> [AddStatic(flushed.manager, p, now, opens[2])
                           EXCEPT !.blocks = flushed.blocks \o @]

add_task(m, task, p, now, opens) ==
    CASE task = LeftBrace -> OpenBracket(m, now, opens)
      [] task = RightBrace -> CloseBracket(m, p, now, opens)
      [] OTHER      -> AddCommand(m, p, now, opens)

-----------------------------------------------------------------------------
(***************************************************************************)
(*                         run, stop, destructor                           *)
(***************************************************************************)

(* run(input), which a caller may repeat with another stream.              *)
Run ==
    /\ pc = "idle" /\ pc' = "testing"
    /\ UNCHANGED <<lines, times, manager, console, failed, stop_flag>>

TestStopFlag ==
    /\ pc = "testing"
    /\ pc' = IF stop_flag THEN "idle" ELSE "reading"
    /\ UNCHANGED <<lines, times, manager, console, failed, stop_flag>>

(* getline returns a line and add_task handles it.                         *)
ReadLine(task, delay, opens) ==
    /\ pc = "reading" /\ Len(lines) < MaxLines
    /\ LET now  == delay + IF times = <<>> THEN 1 ELSE Last(times)
           call == add_task(manager, task, Len(lines) + 1, now, opens)
       IN  /\ lines' = Append(lines, task)
           /\ times' = Append(times, now)
           /\ manager' = call.manager
           /\ console' = console \o call.blocks
    /\ failed' = (failed \/ FALSE \in Range(opens))
    /\ pc' = "testing"
    /\ UNCHANGED stop_flag

(* getline finds the end of the stream, or fails.                          *)
EndOfInput ==
    /\ pc = "reading" /\ pc' = "idle"
    /\ UNCHANGED <<lines, times, manager, console, failed, stop_flag>>

(* The handler sets the flag.  It may interrupt a read, which then fails   *)
(* or gives what it had of a line; a read it does not interrupt goes on.   *)
Signal ==
    /\ pc # "destroyed" /\ ~stop_flag
    /\ stop_flag' = TRUE
    /\ pc' \in IF pc = "reading" THEN {"reading", "idle"} ELSE {pc}
    /\ UNCHANGED <<lines, times, manager, console, failed>>

\* Mutant of Destroy: a dynamic block that is still open is written too.
DestroyAll(opens) ==
    /\ pc = "idle" /\ pc' = "destroyed"
    /\ LET static  == process_tasks(manager, "static_block_task", opens)
           dynamic == process_tasks(static.manager, "dynamic_block_task", opens)
       IN  /\ manager' = dynamic.manager
           /\ console' = console \o static.blocks \o dynamic.blocks
    /\ failed' = (failed \/ ~opens)
    /\ UNCHANGED <<lines, times, stop_flag>>

(* The destructor.                                                         *)
Destroy(opens) ==
    /\ pc = "idle" /\ pc' = "destroyed"
    /\ LET call == IF is_dynamic_block_active(manager) THEN Quiet(manager)
                   ELSE process_tasks(manager, "static_block_task", opens)
       IN  /\ manager' = call.manager
           /\ console' = console \o call.blocks
    /\ failed' = (failed \/ ~opens)
    /\ UNCHANGED <<lines, times, stop_flag>>

Next ==
    \/ Run \/ TestStopFlag \/ EndOfInput \/ Signal
    \/ \E task \in Line, delay \in Delays, opens \in [1 .. 2 -> FileOpens] :
          ReadLine(task, delay, opens)
    \/ \E opens \in FileOpens : Destroy(opens)

Spec == Init /\ [][Next]_vars

-----------------------------------------------------------------------------
(***************************************************************************)
(*                              Properties                                 *)
(***************************************************************************)

Commands(b) == console[b].commands
Printed == UNION {ToSet(Commands(b)) : b \in 1 .. Len(console)}

(* While all files open the count of static commands is the length of the  *)
(* static block and stays below the limit, and only the block of the kind  *)
(* the braces call for holds commands (taskmanager.cpp:110, 124, 151).     *)
CountsAgree ==
    ~failed =>
        /\ manager.task_count = Len(manager.static_block_task)
        /\ manager.task_count < MaxStatic
        /\ IF is_dynamic_block_active(manager) THEN manager.static_block_task = <<>>
                                               ELSE manager.dynamic_block_task = <<>>

(* Every command read has been printed or is still in memory, exactly      *)
(* once, whichever files failed to open, and no block changes the order of *)
(* its commands (taskmanager.cpp:182, 211).                                *)
EveryCommandOnce ==
    LET part(b) == CASE b = 0  -> manager.static_block_task
                     [] b = -1 -> manager.dynamic_block_task
                     [] OTHER  -> Commands(b)
        parts   == -1 .. Len(console)
    IN  /\ UNION {ToSet(part(b)) : b \in parts} = CommandsOf(lines)
        /\ \A b \in parts : Increasing(part(b))
        /\ \A a, b \in parts : a # b => ToSet(part(a)) \cap ToSet(part(b)) = {}

InBraces(p) == Depth(lines)[p] > 0

(* The lines from p to q are inside the same outermost braces, or outside. *)
Together(p, q) == \A k \in p .. q : InBraces(k) <=> InBraces(p)

First(b) == Commands(b)[1]

(* A block is at an end if it is full, or if it has the rest of a stretch  *)
(* of commands that belong together, and the stretch is over.              *)
IsFull(b) == ~InBraces(First(b)) /\ Len(Commands(b)) = MaxStatic
IsOver(b) ==
    /\ ~Together(First(b), Len(lines)) \/ (pc = "destroyed" /\ ~InBraces(First(b)))
    /\ \A q \in CommandsOf(lines) : First(b) <= q /\ Together(First(b), q) => q \in ToSet(Commands(b))

(* A line that opens the outermost braces around a block.                  *)
Opens(b, k) == InBraces(First(b)) /\ ~InBraces(k - 1) /\ Together(k, First(b))

(* Nothing is said of the file of a dynamic block whose opening brace came *)
(* in an earlier second than its first command: the code takes that second *)
(* for the name, and HW_7/README.md:54 the one of the first command.       *)
NameIsSettled(b) ==
    InBraces(First(b)) => \E k \in 1 .. First(b) : Opens(b, k) /\ times[k] = times[First(b)]

(* While all files open, exactly the finished blocks are on the console,   *)
(* in the order of the input: a dynamic block once its outermost brace is  *)
(* closed, a static one once it is full, cut short by a brace, or the      *)
(* program ends; a dynamic block left open is never printed. Each goes to  *)
(* the file of "the time the first command from the block was received"    *)
(* (HW_7/README.md:54), where code and document agree on the name          *)
(* (taskmanager.cpp:102-157, 170, 299).                                    *)
BlocksAreRight ==
    ~failed =>
        LET blocks == 1 .. Len(console)
            rest   == CommandsOf(lines) \ Printed
        IN  /\ \A a, b \in blocks : a < b => Before(Commands(a), Commands(b))
            /\ \A b \in blocks :
                  /\ Commands(b) # <<>> /\ Increasing(Commands(b))
                  /\ \A q \in ToSet(Commands(b)) : q \in CommandsOf(lines) /\ Together(First(b), q)
                  /\ ~InBraces(First(b)) => Len(Commands(b)) <= MaxStatic
                  /\ IsFull(b) \/ IsOver(b)
                  /\ NameIsSettled(b) => console[b].second = times[First(b)]
            /\ \A p \in rest :
                  /\ \A q \in Printed : q < p
                  /\ Together(p, Len(lines))
                  /\ ~InBraces(p) => pc # "destroyed" /\ Cardinality(rest) < MaxStatic

(* If no two lines are read in one second and all files open, no block     *)
(* overwrites the file of an earlier one (taskmanager.cpp:176, 213).       *)
PacedBlocksKeepTheirFiles ==
    (~failed /\ IsInjective(times)) =>
        \A i, j \in DOMAIN console : console[i].second = console[j].second => i = j
=============================================================================
