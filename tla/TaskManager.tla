---------------------------- MODULE TaskManager ----------------------------
(***************************************************************************)
(* class taskmanager of HW_9/lib/async.cpp: it cuts the commands of one    *)
(* context into blocks.  Commands outside braces form static blocks of at  *)
(* most Bulk commands, those inside the outermost pair of braces a dynamic *)
(* block of any size.                                                      *)
(*                                                                         *)
(* A command is known by its position in the input of its context; blocks  *)
(* are sequences of positions.  Timestamps are left out.                   *)
(***************************************************************************)
EXTENDS Braces

CONSTANT Bulk       \* max_static_task_count, the argument of connect
ASSUME BulkAssumption == Bulk \in Nat

Manager    == [nesting : Nat, static : Seq(Nat), dynamic : Seq(Nat)]
NewManager == [nesting |-> 0, static |-> <<>>, dynamic |-> <<>>]

is_dynamic_block_active(m) == m.nesting > 0

(***************************************************************************)
(* add_task(text), where p is the position of the command: the manager     *)
(* afterwards and the block it hands to process_tasks, <<>> for none (which*)
(* process_tasks ignores).  A closing brace without an opening one is an   *)
(* ordinary command.                                                       *)
(***************************************************************************)
OpenBrace(m) ==
    IF is_dynamic_block_active(m)
    THEN [manager |-> [m EXCEPT !.nesting = @ + 1], block |-> <<>>]
    ELSE [manager |-> [m EXCEPT !.nesting = @ + 1, !.static = <<>>], block |-> m.static]

CloseBrace(m) ==
    IF m.nesting = 1
    THEN [manager |-> [m EXCEPT !.nesting = 0, !.dynamic = <<>>], block |-> m.dynamic]
    ELSE [manager |-> [m EXCEPT !.nesting = @ - 1], block |-> <<>>]

\* Mutant of Command: the static block is handed over and kept.
CommandKeepsBlock(m, p) ==
    CASE is_dynamic_block_active(m) ->
            [manager |-> [m EXCEPT !.dynamic = Append(@, p)], block |-> <<>>]
      [] ~is_dynamic_block_active(m) /\ Len(m.static) + 1 >= Bulk ->
            [manager |-> [m EXCEPT !.static = Append(@, p)], block |-> Append(m.static, p)]
      [] OTHER ->
            [manager |-> [m EXCEPT !.static = Append(@, p)], block |-> <<>>]

Command(m, p) ==
    CASE is_dynamic_block_active(m) ->
            [manager |-> [m EXCEPT !.dynamic = Append(@, p)], block |-> <<>>]
      [] ~is_dynamic_block_active(m) /\ Len(m.static) + 1 >= Bulk ->
            [manager |-> [m EXCEPT !.static = <<>>], block |-> Append(m.static, p)]
      [] OTHER ->
            [manager |-> [m EXCEPT !.static = Append(@, p)], block |-> <<>>]

\* Mutants of add_task: an opening brace does not close the static block; an
\* unmatched closing brace is dropped, or lowers the level below zero.
KeepStatic(m, text, p) ==
    CASE text = LeftBrace -> [manager |-> [m EXCEPT !.nesting = @ + 1], block |-> <<>>]
      [] text = RightBrace /\ m.nesting > 0 -> CloseBrace(m)
      [] OTHER -> Command(m, p)
DropBrace(m, text, p) ==
    CASE text = LeftBrace -> OpenBrace(m)
      [] text = RightBrace /\ m.nesting > 0 -> CloseBrace(m)
      [] text = RightBrace /\ m.nesting = 0 -> [manager |-> m, block |-> <<>>]
      [] OTHER -> Command(m, p)

BraceUnguarded(m, text, p) ==
    CASE text = LeftBrace -> OpenBrace(m)
      [] text = RightBrace -> CloseBrace(m)
      [] OTHER -> Command(m, p)

add_task(m, text, p) ==
    CASE text = LeftBrace -> OpenBrace(m)
      [] text = RightBrace /\ m.nesting > 0 -> CloseBrace(m)
      [] OTHER -> Command(m, p)

(* The block that finish() hands over; it never ends a dynamic block.      *)
FinishedBlock(m) == IF is_dynamic_block_active(m) THEN <<>> ELSE m.static
=============================================================================
