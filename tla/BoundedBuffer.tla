--------------------------- MODULE BoundedBuffer ---------------------------
(***************************************************************************)
(* What pc_queue::Queue (Project_work/include/queue.hpp) promises its      *)
(* callers: a linearizable bounded buffer.  A call either takes effect     *)
(* when it is made, or it is pending until the buffer has room (push) or   *)
(* an element (pop), the buffer is closed, or its timeout runs out.        *)
(* There are no locks, flags or condition variables here; PCQueue is shown *)
(* to implement this module.                                               *)
(***************************************************************************)
EXTENDS Integers, Sequences

CONSTANTS
    Producers,     \* threads that call push
    Consumers,     \* threads that call pop
    Item,          \* elements with their priority: records [data, priority]
    Timeouts,      \* a subset of {"nowait", "timed", "forever"}
    Modes,         \* the operating modes, pairs [oneProducer, oneConsumer]
    Disciplines,   \* a subset of BOOLEAN: does the buffer use priorities?
    Capacities,    \* the sizes it may be built with; 0 is unlimited
    NoItem, NoOp   \* no element; no pending call

VARIABLES
    usePriority, mode, maxSize,  \* fixed when the buffer is built
    items,      \* the elements held, oldest first
    closed,     \* has close() been called?
    pending,    \* the call a thread is waiting in, or NoOp
    result      \* the outcome of the last call of each thread

vars == <<usePriority, mode, maxSize, items, closed, pending, result>>

Threads  == Producers \cup Consumers
PushOp   == [kind : {"push"}, item : Item, timeout : Timeouts]
PopOp    == [kind : {"pop"}, item : {NoItem}, timeout : Timeouts]
NoResult == [status |-> "none", item |-> NoItem]

Full == maxSize > 0 /\ Len(items) >= maxSize

(***************************************************************************)
(* The positions pop may take an element from: the oldest element, or with *)
(* priorities any of those whose priority no other element exceeds.        *)
(***************************************************************************)
NextOut == {i \in 1 .. Len(items) :
              IF usePriority
              THEN \A j \in 1 .. Len(items) : items[j].priority <= items[i].priority
              ELSE i = 1}

Without(s, i) == SubSeq(s, 1, i - 1) \o SubSeq(s, i + 1, Len(s))

(***************************************************************************)
(* Two producers (consumers) are in each other's way in a mode that allows *)
(* only one.                                                               *)
(***************************************************************************)
InTheWay(t, o) ==
    /\ IF o.kind = "push" THEN mode.oneProducer ELSE mode.oneConsumer
    /\ \E u \in Threads \ {t} : pending[u] # NoOp /\ pending[u].kind = o.kind

(* A waiting call may go on; a new one must have the way to itself. *)
MayProceed(t, o) == pending[t] # NoOp \/ ~InTheWay(t, o)

Done(t, status, item) ==
    /\ pending' = [pending EXCEPT ![t] = NoOp]
    /\ result' = [result EXCEPT ![t] = [status |-> status, item |-> item]]

Accept(t, o) ==
    /\ o.kind = "push" /\ ~closed /\ ~Full /\ MayProceed(t, o)
    /\ items' = Append(items, o.item)
    /\ Done(t, "true", NoItem)

Deliver(t, o) ==
    /\ o.kind = "pop" /\ MayProceed(t, o)
    /\ \E i \in NextOut : /\ items' = Without(items, i)
                          /\ Done(t, "true", items[i])

(***************************************************************************)
(* A push is refused only by a closed buffer or, unless it may wait        *)
(* forever, by a full one; a pop fails only on an empty buffer, and one    *)
(* that may wait forever only when the buffer is closed as well.           *)
(***************************************************************************)
Refuse(t, o) ==
    /\ closed \/ MayProceed(t, o)
    /\ IF o.kind = "push"
       THEN closed \/ (Full /\ o.timeout # "forever")
       ELSE items = <<>> /\ (closed \/ o.timeout # "forever")
    /\ UNCHANGED items
    /\ Done(t, "false", NoItem)

(* Misuse is reported to a new caller only, never to a waiting one. *)
Reject(t, o) ==
    /\ pending[t] = NoOp /\ InTheWay(t, o)
    /\ UNCHANGED items
    /\ Done(t, "throw", NoItem)

Suspend(t, o) ==
    /\ pending[t] = NoOp /\ ~InTheWay(t, o)
    /\ o.timeout # "nowait" /\ ~closed
    /\ IF o.kind = "push" THEN Full ELSE items = <<>>
    /\ pending' = [pending EXCEPT ![t] = o]
    /\ result' = [result EXCEPT ![t] = NoResult]
    /\ UNCHANGED items

Act(t, o) ==
    /\ Accept(t, o) \/ Deliver(t, o) \/ Refuse(t, o) \/ Reject(t, o) \/ Suspend(t, o)
    /\ UNCHANGED <<usePriority, mode, maxSize, closed>>

(* A thread makes a new call, or goes on with the one it is waiting in. *)
Call(t) ==
    \/ pending[t] = NoOp /\ t \in Producers /\ \E o \in PushOp : Act(t, o)
    \/ pending[t] = NoOp /\ t \in Consumers /\ \E o \in PopOp : Act(t, o)
    \/ pending[t] # NoOp /\ Act(t, pending[t])

Close == /\ closed' = TRUE
         /\ UNCHANGED <<usePriority, mode, maxSize, items, pending, result>>

Clear == /\ items' = <<>>
         /\ UNCHANGED <<usePriority, mode, maxSize, closed, pending, result>>

Init == /\ usePriority \in Disciplines /\ mode \in Modes /\ maxSize \in Capacities
        /\ items = <<>>
        /\ closed = FALSE
        /\ pending = [t \in Threads |-> NoOp]
        /\ result = [t \in Threads |-> NoResult]

Next == Close \/ Clear \/ \E t \in Threads : Call(t)

Spec == Init /\ [][Next]_vars
=============================================================================
