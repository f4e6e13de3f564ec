--------------------------- MODULE BulkParserProofs ---------------------------
(* Proofs about BulkParser, for any input, block size, clock and files.    *)
EXTENDS BulkParser, BracesProofs

-----------------------------------------------------------------------------
(***************************************************************************)
(*                        What a call gives                                *)
(***************************************************************************)

(* A manager, member by member: the two blocks, the nesting level, the     *)
(* count and the two timestamps.                                           *)
M(s, d, level, count, t, u) ==
    [static_block_task |-> s, dynamic_block_task |-> d, dynamic_block_nesting_level |-> level,
     task_count |-> count, static_block_timestamp |-> t, dynamic_block_timestamp |-> u]

(* Every manager is of this form.                                          *)
LEMMA ManagerIs ==
    ASSUME NEW m \in Manager
    PROVE  /\ m = M(m.static_block_task, m.dynamic_block_task, m.dynamic_block_nesting_level,
                    m.task_count, m.static_block_timestamp, m.dynamic_block_timestamp)
           /\ m.static_block_task \in Seq(Nat) /\ m.dynamic_block_task \in Seq(Nat)
           /\ m.dynamic_block_nesting_level \in Nat /\ m.task_count \in Nat
           /\ m.static_block_timestamp \in Nat /\ m.dynamic_block_timestamp \in Nat
BY DEF Manager, M

(* The members of a manager.                                               *)
LEMMA Members ==
    ASSUME NEW s, NEW d, NEW level, NEW count, NEW t, NEW u, NEW m,
           m = M(s, d, level, count, t, u)
    PROVE  /\ m.static_block_task = s /\ m.dynamic_block_task = d
           /\ m.dynamic_block_nesting_level = level /\ m.task_count = count
           /\ m.static_block_timestamp = t /\ m.dynamic_block_timestamp = u
BY DEF M

(* Three members are set one after the other.                              *)
LEMMA SetThree ==
    ASSUME NEW m, NEW f, NEW g, NEW x, NEW y, NEW z
    PROVE  [m EXCEPT ![f] = x, ![g] = y, !.task_count = z]
             = [[[m EXCEPT ![f] = x] EXCEPT ![g] = y] EXCEPT !.task_count = z]
BY Zenon

(* What a call gives: the manager after it and the blocks written.         *)
Call(m, b) == [manager |-> m, blocks |-> b]

(* A block is written, or stays where it is.  M1 and M2 are the managers   *)
(* without the block.                                                      *)
Written(cond, m, block, m1, m2, t, u, count) ==
    IF ~cond THEN Quiet(m)
    ELSE [manager |-> IF count # 0 THEN m1 ELSE m2,
          blocks  |-> <<[commands |-> block, second |-> IF count # 0 THEN t ELSE u]>>]

(* The static block is written, or stays.                                  *)
LEMMA WriteStatic ==
    ASSUME NEW s, NEW d, NEW level, NEW count, NEW t, NEW u, NEW opens, NEW m,
           m = M(s, d, level, count, t, u)
    PROVE  process_tasks(m, "static_block_task", opens) =
             Written(s # <<>> /\ opens, m, s, M(<<>>, d, level, 0, Epoch, u),
                     M(<<>>, d, level, 0, t, Epoch), t, u, count)
<1>1. /\ m["static_block_task"] = s /\ m.task_count = count
      /\ m["static_block_timestamp"] = t /\ m["dynamic_block_timestamp"] = u
  BY Members
<1> DEFINE k  == [m EXCEPT !.static_block_task = <<>>]
           k1 == [k EXCEPT !.static_block_timestamp = Epoch]
           k2 == [k EXCEPT !.dynamic_block_timestamp = Epoch]
<1>2. k = M(<<>>, d, level, count, t, u)
  BY DEF M
<1>3. k1 = M(<<>>, d, level, count, Epoch, u) /\ k2 = M(<<>>, d, level, count, t, Epoch)
  <2> HIDE DEF k
  <2>1. k1 = M(<<>>, d, level, count, Epoch, u)
    BY <1>2 DEF M
  <2>2. k2 = M(<<>>, d, level, count, t, Epoch)
    BY <1>2 DEF M
  <2> QED BY <2>1, <2>2
<1>4. [m EXCEPT !["static_block_task"] = <<>>, !["static_block_timestamp"] = Epoch,
                !.task_count = 0] = M(<<>>, d, level, 0, Epoch, u)
  <2>1. [k1 EXCEPT !.task_count = 0] = M(<<>>, d, level, 0, Epoch, u)
    <3> HIDE DEF k1
    <3> QED BY <1>3 DEF M
  <2> QED BY <2>1, SetThree, Zenon
<1>5. [m EXCEPT !["static_block_task"] = <<>>, !["dynamic_block_timestamp"] = Epoch,
                !.task_count = 0] = M(<<>>, d, level, 0, t, Epoch)
  <2>1. [k2 EXCEPT !.task_count = 0] = M(<<>>, d, level, 0, t, Epoch)
    <3> HIDE DEF k2
    <3> QED BY <1>3 DEF M
  <2> QED BY <2>1, SetThree, Zenon
<1> QED BY <1>1, <1>4, <1>5 DEF process_tasks, Written

(* The dynamic block is written, or stays.                                 *)
LEMMA WriteDynamic ==
    ASSUME NEW s, NEW d, NEW level, NEW count, NEW t, NEW u, NEW opens, NEW m,
           m = M(s, d, level, count, t, u)
    PROVE  process_tasks(m, "dynamic_block_task", opens) =
             Written(d # <<>> /\ opens, m, d, M(s, <<>>, level, 0, Epoch, u),
                     M(s, <<>>, level, 0, t, Epoch), t, u, count)
<1>1. /\ m["dynamic_block_task"] = d /\ m.task_count = count
      /\ m["static_block_timestamp"] = t /\ m["dynamic_block_timestamp"] = u
  BY Members
<1> DEFINE k  == [m EXCEPT !.dynamic_block_task = <<>>]
           k1 == [k EXCEPT !.static_block_timestamp = Epoch]
           k2 == [k EXCEPT !.dynamic_block_timestamp = Epoch]
<1>2. k = M(s, <<>>, level, count, t, u)
  BY DEF M
<1>3. k1 = M(s, <<>>, level, count, Epoch, u) /\ k2 = M(s, <<>>, level, count, t, Epoch)
  <2> HIDE DEF k
  <2>1. k1 = M(s, <<>>, level, count, Epoch, u)
    BY <1>2 DEF M
  <2>2. k2 = M(s, <<>>, level, count, t, Epoch)
    BY <1>2 DEF M
  <2> QED BY <2>1, <2>2
<1>4. [m EXCEPT !["dynamic_block_task"] = <<>>, !["static_block_timestamp"] = Epoch,
                !.task_count = 0] = M(s, <<>>, level, 0, Epoch, u)
  <2>1. [k1 EXCEPT !.task_count = 0] = M(s, <<>>, level, 0, Epoch, u)
    <3> HIDE DEF k1
    <3> QED BY <1>3 DEF M
  <2> QED BY <2>1, SetThree, Zenon
<1>5. [m EXCEPT !["dynamic_block_task"] = <<>>, !["dynamic_block_timestamp"] = Epoch,
                !.task_count = 0] = M(s, <<>>, level, 0, t, Epoch)
  <2>1. [k2 EXCEPT !.task_count = 0] = M(s, <<>>, level, 0, t, Epoch)
    <3> HIDE DEF k2
    <3> QED BY <1>3 DEF M
  <2> QED BY <2>1, SetThree, Zenon
<1> QED BY <1>1, <1>4, <1>5 DEF process_tasks, Written

Stamp(t, now) == IF t = Epoch THEN now ELSE t

(* What a static command that makes a of the block gives.                  *)
Added(cond, a, d, level, count, x, u) ==
    IF cond THEN Call(M(<<>>, d, level, 0, Epoch, u), <<[commands |-> a, second |-> x]>>)
    ELSE Call(M(a, d, level, count + 1, x, u), <<>>)

(* A static command: the block is written when it is full.                 *)
LEMMA AddStaticIs ==
    ASSUME NEW s \in Seq(Nat), NEW d, NEW level, NEW count \in Nat, NEW t, NEW u, NEW p \in Nat,
           NEW now, NEW opens, NEW m, m = M(s, d, level, count, t, u)
    PROVE  AddStatic(m, p, now, opens) =
             Added((count + 1) % MaxStatic = 0 /\ opens, Append(s, p), d, level, count, Stamp(t, now), u)
<1> DEFINE added == [m EXCEPT !.static_block_task = Append(@, p), !.task_count = @ + 1,
                              !.static_block_timestamp = IF @ = Epoch THEN now ELSE @]
           a == Append(s, p)
           k == [m EXCEPT !.static_block_task = a]
           l == [k EXCEPT !.task_count = count + 1]
<1>1. added = M(a, d, level, count + 1, Stamp(t, now), u)
  <2>1. k = M(a, d, level, count, t, u)
    <3> HIDE DEF a
    <3> QED BY DEF M
  <2>2. l = M(a, d, level, count + 1, t, u)
    <3> HIDE DEF k, a
    <3> QED BY <2>1 DEF M
  <2>3. [l EXCEPT !.static_block_timestamp = Stamp(t, now)] = M(a, d, level, count + 1, Stamp(t, now), u)
    <3> HIDE DEF l, a
    <3> QED BY <2>2 DEF M
  <2>4. added = [m EXCEPT !.static_block_task = a, !.task_count = count + 1,
                          !.static_block_timestamp = Stamp(t, now)]
    <3>1. m.static_block_task = s /\ m.task_count = count /\ m.static_block_timestamp = t
      BY Members
    <3> QED BY <3>1, Zenon DEF Stamp
  <2>5. [m EXCEPT !.static_block_task = a, !.task_count = count + 1,
                  !.static_block_timestamp = Stamp(t, now)]
          = [l EXCEPT !.static_block_timestamp = Stamp(t, now)]
    BY Zenon
  <2> QED BY <2>3, <2>4, <2>5, Zenon
<1>2. added.task_count = count + 1
  <2> HIDE DEF added, a
  <2> QED BY <1>1, Members
<1>3. a # <<>> /\ count + 1 # 0
  BY AppendIs
<1>4. process_tasks(added, "static_block_task", opens) =
             Written(opens, added, a, M(<<>>, d, level, 0, Epoch, u),
                     M(<<>>, d, level, 0, Stamp(t, now), Epoch), Stamp(t, now), u, count + 1)
  <2>1. process_tasks(added, "static_block_task", opens) =
             Written(a # <<>> /\ opens, added, a, M(<<>>, d, level, 0, Epoch, u),
                     M(<<>>, d, level, 0, Stamp(t, now), Epoch), Stamp(t, now), u, count + 1)
    <3> HIDE DEF added, a
    <3> QED BY <1>1, WriteStatic
  <2> HIDE DEF added, a
  <2> QED BY <1>3, <2>1 DEF Written
<1> HIDE DEF added, a
<1> QED BY <1>1, <1>2, <1>3, <1>4 DEF AddStatic, Written, Added, Quiet, Call, added, a

WithLevel(r, x) == [r EXCEPT !.manager.dynamic_block_nesting_level = x]

(* The level is set in what a call gives.                                  *)
LEMMA SetLevel ==
    ASSUME NEW r, NEW s, NEW d, NEW level, NEW count, NEW t, NEW u, NEW b, NEW x,
           r = [manager |-> M(s, d, level, count, t, u), blocks |-> b]
    PROVE  WithLevel(r, x) = [manager |-> M(s, d, x, count, t, u), blocks |-> b]
<1> DEFINE m == M(s, d, level, count, t, u)
           k == [m EXCEPT !.dynamic_block_nesting_level = x]
<1>1. r.manager = m
  BY Zenon
<1>2. k = M(s, d, x, count, t, u)
  <2>1. ASSUME NEW l, l = m PROVE [l EXCEPT !.dynamic_block_nesting_level = x] = M(s, d, x, count, t, u)
    BY <2>1 DEF M
  <2> HIDE DEF m
  <2> QED BY <2>1, Zenon
<1>3. WithLevel(r, x) = [r EXCEPT !.manager = k]
  BY <1>1, Zenon DEF WithLevel
<1>4. [r EXCEPT !.manager = k] = [manager |-> k, blocks |-> b]
  <2> HIDE DEF k
  <2> QED OBVIOUS
<1> QED BY <1>2, <1>3, <1>4, Zenon

(* An opening brace: inside braces the level goes up, outside the static   *)
(* block is written, or stays.                                             *)
LEMMA OpenInside ==
    ASSUME NEW s, NEW d, NEW level \in Nat, NEW count, NEW t, NEW u, NEW now, NEW opens, NEW m,
           m = M(s, d, level, count, t, u), level > 0
    PROVE  OpenBracket(m, now, opens) = Call(M(s, d, level + 1, count, t, u), <<>>)
<1>1. m.dynamic_block_nesting_level = level
  BY Members
<1>5. Quiet(m).manager.dynamic_block_nesting_level = level
  BY <1>1, Zenon DEF Quiet
<1>2. OpenBracket(m, now, opens) = WithLevel(Quiet(m), level + 1)
  <2>1. is_dynamic_block_active(m)
    BY <1>1 DEF is_dynamic_block_active
  <2> QED BY <1>5, <2>1, Zenon DEF OpenBracket, WithLevel
<1>3. Quiet(m) = [manager |-> M(s, d, level, count, t, u), blocks |-> <<>>]
  BY DEF Quiet
<1>4. WithLevel(Quiet(m), level + 1) = [manager |-> M(s, d, level + 1, count, t, u), blocks |-> <<>>]
  BY <1>3, SetLevel
<1> QED BY <1>2, <1>4 DEF Call

(* What the first brace of an outermost pair gives.                        *)
Opened(cond, s, d, count, t, now) ==
    IF cond THEN Call(IF count # 0 THEN M(<<>>, d, 1, 0, Epoch, now) ELSE M(<<>>, d, 1, 0, t, Epoch),
                      <<[commands |-> s, second |-> IF count # 0 THEN t ELSE now]>>)
    ELSE Call(M(s, d, 1, count, t, now), <<>>)

(* The first of the pair: the clock is read for the dynamic block, and the *)
(* static block is written.                                                *)
LEMMA OpenOutside ==
    ASSUME NEW s, NEW d, NEW count, NEW t, NEW u, NEW now, NEW opens, NEW m,
           m = M(s, d, 0, count, t, u)
    PROVE  OpenBracket(m, now, opens) =
             Opened(s # <<>> /\ opens[1], s, d, count, t, now)
<1> DEFINE k == [m EXCEPT !.dynamic_block_timestamp = now]
           f == process_tasks(k, "static_block_task", opens[1])
<1>1. m.dynamic_block_nesting_level = 0
  BY Members
<1>2. k = M(s, d, 0, count, t, now)
  BY DEF M
<1>3. OpenBracket(m, now, opens) = WithLevel(f, f.manager.dynamic_block_nesting_level + 1)
  <2>1. ~is_dynamic_block_active(m)
    BY <1>1 DEF is_dynamic_block_active
  <2> QED BY <2>1, Zenon DEF OpenBracket, WithLevel
<1>4. f = Written(s # <<>> /\ opens[1], k, s, M(<<>>, d, 0, 0, Epoch, now),
                  M(<<>>, d, 0, 0, t, Epoch), t, now, count)
  <2> HIDE DEF k
  <2> QED BY <1>2, WriteStatic
<1> HIDE DEF k, f
<1>5. ASSUME NEW s1, NEW count1, NEW t1, NEW u1, NEW b, f = Call(M(s1, d, 0, count1, t1, u1), b)
      PROVE  OpenBracket(m, now, opens) = Call(M(s1, d, 1, count1, t1, u1), b)
  <2>1. f.manager.dynamic_block_nesting_level = 0
    BY <1>5 DEF Call, M
  <2>2. WithLevel(f, 1) = Call(M(s1, d, 1, count1, t1, u1), b)
    BY <1>5, SetLevel DEF Call
  <2> QED BY <1>3, <2>1, <2>2
<1>6. CASE ~(s # <<>> /\ opens[1])
  <2>1. f = Call(M(s, d, 0, count, t, now), <<>>)
    BY <1>2, <1>4, <1>6 DEF Written, Quiet, Call
  <2> QED BY <1>5, <1>6, <2>1 DEF Opened
<1>7. CASE s # <<>> /\ opens[1] /\ count # 0
  <2>1. f = Call(M(<<>>, d, 0, 0, Epoch, now), <<[commands |-> s, second |-> t]>>)
    BY <1>4, <1>7 DEF Written, Call
  <2> QED BY <1>5, <1>7, <2>1 DEF Opened
<1>8. CASE s # <<>> /\ opens[1] /\ count = 0
  <2>1. f = Call(M(<<>>, d, 0, 0, t, Epoch), <<[commands |-> s, second |-> now]>>)
    BY <1>4, <1>8 DEF Written, Call
  <2> QED BY <1>5, <1>8, <2>1 DEF Opened
<1> QED BY <1>6, <1>7, <1>8 DEF Opened

(* A closing brace: a pair stays open, and the level goes down.            *)
LEMMA CloseInside ==
    ASSUME NEW s, NEW d, NEW level \in Nat, NEW count, NEW t, NEW u, NEW p, NEW now, NEW opens,
           NEW m, m = M(s, d, level, count, t, u), level > 1
    PROVE  CloseBracket(m, p, now, opens) = Call(M(s, d, level - 1, count, t, u), <<>>)
<1>1. m.dynamic_block_nesting_level = level
  BY Members
<1> DEFINE k == [m EXCEPT !.dynamic_block_nesting_level = @ - 1]
<1>2. k = M(s, d, level - 1, count, t, u)
  <2>1. [m EXCEPT !.dynamic_block_nesting_level = level - 1] = M(s, d, level - 1, count, t, u)
    BY DEF M
  <2> QED BY <1>1, <2>1, Zenon
<1>3. CloseBracket(m, p, now, opens) = Quiet(k)
  <2>1. level > 1 /\ ~(level = 1)
    OBVIOUS
  <2> QED BY <1>1, <2>1, Zenon DEF CloseBracket
<1> QED BY <1>2, <1>3, Zenon DEF Quiet, Call

(* It closes the outermost pair, and the dynamic block is written, or      *)
(* stays.                                                                  *)
LEMMA CloseLast ==
    ASSUME NEW s, NEW d, NEW count, NEW t, NEW u, NEW p, NEW now, NEW opens,
           NEW m, m = M(s, d, 1, count, t, u)
    PROVE  CloseBracket(m, p, now, opens) =
             IF d # <<>> /\ opens[1]
             THEN Call(IF count # 0 THEN M(s, <<>>, 0, 0, Epoch, u) ELSE M(s, <<>>, 0, 0, t, Epoch),
                       <<[commands |-> d, second |-> IF count # 0 THEN t ELSE u]>>)
             ELSE Call(M(s, d, 0, count, t, u), <<>>)
<1> DEFINE f == process_tasks(m, "dynamic_block_task", opens[1])
<1>1. m.dynamic_block_nesting_level = 1
  BY Members
<1>3. CloseBracket(m, p, now, opens) = WithLevel(f, 0)
  <2>1. ~(1 > 1)
    OBVIOUS
  <2> QED BY <1>1, <2>1, Zenon DEF CloseBracket, WithLevel
<1>4. f = Written(d # <<>> /\ opens[1], m, d, M(s, <<>>, 1, 0, Epoch, u),
                  M(s, <<>>, 1, 0, t, Epoch), t, u, count)
  BY WriteDynamic
<1> HIDE DEF f
<1>5. ASSUME NEW d1, NEW count1, NEW t1, NEW u1, NEW b, f = Call(M(s, d1, 1, count1, t1, u1), b)
      PROVE  CloseBracket(m, p, now, opens) = Call(M(s, d1, 0, count1, t1, u1), b)
  <2>2. WithLevel(f, 0) = Call(M(s, d1, 0, count1, t1, u1), b)
    BY <1>5, SetLevel DEF Call
  <2> QED BY <1>3, <2>2
<1>6. CASE ~(d # <<>> /\ opens[1])
  <2>1. f = Call(M(s, d, 1, count, t, u), <<>>)
    BY <1>4, <1>6 DEF Written, Quiet, Call
  <2> QED BY <1>5, <1>6, <2>1
<1>7. CASE d # <<>> /\ opens[1] /\ count # 0
  <2>1. f = Call(M(s, <<>>, 1, 0, Epoch, u), <<[commands |-> d, second |-> t]>>)
    BY <1>4, <1>7 DEF Written, Call
  <2> QED BY <1>5, <1>7, <2>1
<1>8. CASE d # <<>> /\ opens[1] /\ count = 0
  <2>1. f = Call(M(s, <<>>, 1, 0, t, Epoch), <<[commands |-> d, second |-> u]>>)
    BY <1>4, <1>8 DEF Written, Call
  <2> QED BY <1>5, <1>8, <2>1
<1> QED BY <1>6, <1>7, <1>8

(* It closes nothing: a dynamic block that an earlier failure left is      *)
(* written, or stays, and the brace is a static command.                   *)
LEMMA CloseAlone ==
    ASSUME NEW s, NEW d, NEW count, NEW t, NEW u, NEW p, NEW now, NEW opens,
           NEW m, m = M(s, d, 0, count, t, u), NEW m1, NEW b1, NEW m2, NEW b2,
           process_tasks(m, "dynamic_block_task", opens[1]) = Call(m1, b1),
           AddStatic(m1, p, now, opens[2]) = Call(m2, b2)
    PROVE  CloseBracket(m, p, now, opens) = Call(m2, b1 \o b2)
<1> DEFINE f == process_tasks(m, "dynamic_block_task", opens[1])
           a == AddStatic(f.manager, p, now, opens[2])
<1>1. m.dynamic_block_nesting_level = 0
  BY Members
<1>2. CloseBracket(m, p, now, opens) = [a EXCEPT !.blocks = f.blocks \o @]
  <2>1. ~(0 > 1) /\ ~(0 = 1)
    OBVIOUS
  <2> QED BY <1>1, <2>1, Zenon DEF CloseBracket
<1>3. f.manager = m1 /\ f.blocks = b1
  <2> HIDE DEF f
  <2>1. f = Call(m1, b1)
    BY DEF f
  <2> QED BY <2>1 DEF Call
<1>4. a = Call(m2, b2)
  BY <1>3, Zenon
<1> HIDE DEF f, a
<1>5. a.blocks = b2
  BY <1>4 DEF Call
<1>6. [a EXCEPT !.blocks = b1 \o b2] = Call(m2, b1 \o b2)
  <2> DEFINE x == b1 \o b2
  <2> HIDE DEF x
  <2>1. [a EXCEPT !.blocks = x] = Call(m2, x)
    BY <1>4 DEF Call
  <2> QED BY <2>1 DEF x
<1> QED BY <1>2, <1>3, <1>5, <1>6, Zenon

(* A command inside braces goes to the dynamic block.                      *)
LEMMA CommandInside ==
    ASSUME NEW s, NEW d, NEW level \in Nat, NEW count, NEW t, NEW u, NEW p, NEW now, NEW opens,
           NEW m, m = M(s, d, level, count, t, u), level > 0
    PROVE  AddCommand(m, p, now, opens) = Call(M(s, Append(d, p), level, count, t, u), <<>>)
<1>1. m.dynamic_block_nesting_level = level /\ m.dynamic_block_task = d
  BY Members
<1> DEFINE a == Append(d, p)
           k == [m EXCEPT !.dynamic_block_task = Append(@, p)]
<1>2. k = M(s, a, level, count, t, u)
  <2>1. [m EXCEPT !.dynamic_block_task = a] = M(s, a, level, count, t, u)
    <3> HIDE DEF a
    <3> QED BY DEF M
  <2> QED BY <1>1, <2>1, Zenon
<1>3. AddCommand(m, p, now, opens) = Quiet(k)
  <2>1. is_dynamic_block_active(m)
    BY <1>1 DEF is_dynamic_block_active
  <2> QED BY <2>1, Zenon DEF AddCommand
<1> QED BY <1>2, <1>3, Zenon DEF Quiet, Call

(* A command outside is a static one.                                      *)
LEMMA CommandOutside ==
    ASSUME NEW s, NEW d, NEW count, NEW t, NEW u, NEW p, NEW now, NEW opens,
           NEW m, m = M(s, d, 0, count, t, u)
    PROVE  AddCommand(m, p, now, opens) = AddStatic(m, p, now, opens[1])
<1>1. ~is_dynamic_block_active(m)
  BY Members DEF is_dynamic_block_active
<1> QED BY <1>1, Zenon DEF AddCommand

-----------------------------------------------------------------------------
(***************************************************************************)
(*                  Every command once, in its order                       *)
(***************************************************************************)

(* The blocks on the console, and the two in memory as numbers -1 and 0.   *)
Part(s, d, con) ==
    [b \in -1 .. Len(con) |-> IF b = 0 THEN s ELSE IF b = -1 THEN d ELSE con[b].commands]

(* The parts P, numbered to L, hold each command of C once and in order.   *)
Fair(P, L, C) ==
    /\ \A x : x \in C <=> \E b \in -1 .. L : x \in ToSet(P[b])
    /\ \A b \in -1 .. L : Increasing(P[b])
    /\ \A a, b \in -1 .. L : a # b => ToSet(P[a]) \cap ToSet(P[b]) = {}

Once(s, d, con, C) == Fair(Part(s, d, con), Len(con), C)

(* Nothing is in no block.                                                 *)
LEMMA EmptyPart == ToSet(<<>>) = {} /\ Increasing(<<>>)
BY DEF ToSet, Increasing

(* The positions of a block with one more.                                 *)
LEMMA AppendSet ==
    ASSUME NEW s \in Seq(Nat), NEW p \in Nat
    PROVE  ToSet(Append(s, p)) = ToSet(s) \cup {p}
<1>1. /\ Len(Append(s, p)) = Len(s) + 1 /\ Len(s) \in Nat
      /\ \A i \in 1 .. Len(s) : Append(s, p)[i] = s[i]
      /\ Append(s, p)[Len(s) + 1] = p
      /\ DOMAIN Append(s, p) = 1 .. Len(s) + 1 /\ DOMAIN s = 1 .. Len(s)
  BY AppendProperties, LenProperties
<1>2. 1 .. Len(s) + 1 = (1 .. Len(s)) \cup {Len(s) + 1}
  BY <1>1
<1> QED BY <1>1, <1>2 DEF ToSet

(* A part moves to the end.                                                *)
LEMMA MovePart ==
    ASSUME NEW P, NEW Q, NEW L \in Nat, NEW C, Fair(P, L, C), NEW w \in {-1, 0},
           Q[w] = <<>>, Q[L + 1] = P[w], \A b \in -1 .. L : b # w => Q[b] = P[b]
    PROVE  Fair(Q, L + 1, C)
<1>1. \A b \in -1 .. L + 1 : b = w \/ b = L + 1 \/ (b \in -1 .. L /\ b # w)
  OBVIOUS
<1>2. w \in -1 .. L /\ L + 1 # w /\ L + 1 \in -1 .. L + 1 /\ \A b \in -1 .. L : b \in -1 .. L + 1 /\ b # L + 1
  OBVIOUS
<1>3. ToSet(Q[w]) = {} /\ Increasing(Q[w])
  BY EmptyPart
<1>4. ASSUME NEW x PROVE x \in C <=> \E b \in -1 .. L + 1 : x \in ToSet(Q[b])
  <2>1. x \in C <=> \E b \in -1 .. L : x \in ToSet(P[b])
    BY DEF Fair
  <2>2. ASSUME NEW b \in -1 .. L, x \in ToSet(P[b]) PROVE \E c \in -1 .. L + 1 : x \in ToSet(Q[c])
    <3>1. CASE b = w
      BY <1>2, <2>2, <3>1
    <3>2. CASE b # w
      BY <1>2, <2>2, <3>2
    <3> QED BY <3>1, <3>2
  <2>3. ASSUME NEW b \in -1 .. L + 1, x \in ToSet(Q[b]) PROVE \E c \in -1 .. L : x \in ToSet(P[c])
    <3>1. b # w
      BY <1>3, <2>3
    <3>2. CASE b = L + 1
      BY <1>2, <2>3, <3>2
    <3>3. CASE b \in -1 .. L /\ b # w
      BY <2>3, <3>3
    <3> QED BY <1>1, <3>1, <3>2, <3>3
  <2> QED BY <2>1, <2>2, <2>3
<1>5. ASSUME NEW b \in -1 .. L + 1 PROVE Increasing(Q[b])
  BY <1>1, <1>2, <1>3 DEF Fair
<1>6. ASSUME NEW a \in -1 .. L + 1, NEW b \in -1 .. L + 1, a # b
      PROVE  ToSet(Q[a]) \cap ToSet(Q[b]) = {}
  <2>1. CASE a = w \/ b = w
    BY <1>3, <2>1
  <2>2. CASE a # w /\ b # w
    <3> DEFINE f(c) == IF c = L + 1 THEN w ELSE c
    <3>1. f(a) \in -1 .. L /\ f(b) \in -1 .. L /\ f(a) # f(b)
      BY <1>1, <1>2, <1>6, <2>2
    <3>2. Q[a] = P[f(a)] /\ Q[b] = P[f(b)]
      BY <1>1, <1>2, <2>2
    <3> HIDE DEF f
    <3> QED BY <3>1, <3>2 DEF Fair
  <2> QED BY <2>1, <2>2
<1> QED BY <1>4, <1>5, <1>6 DEF Fair

(* A part gets the next command.                                           *)
LEMMA GrowPart ==
    ASSUME NEW P, NEW Q, NEW L \in Nat, NEW n \in Nat, NEW C \in SUBSET (1 .. n), Fair(P, L, C),
           NEW w \in {-1, 0}, P[w] \in Seq(Nat), Q[w] = Append(P[w], n + 1),
           \A b \in -1 .. L : b # w => Q[b] = P[b]
    PROVE  Fair(Q, L, C \cup {n + 1})
<1>1. w \in -1 .. L
  OBVIOUS
<1>2. ToSet(Q[w]) = ToSet(P[w]) \cup {n + 1}
  BY AppendSet
<1>3. ASSUME NEW b \in -1 .. L PROVE n + 1 \notin ToSet(P[b])
  <2>1. n + 1 \notin C
    OBVIOUS
  <2> QED BY <2>1 DEF Fair
<1>4. ASSUME NEW x PROVE x \in C \cup {n + 1} <=> \E b \in -1 .. L : x \in ToSet(Q[b])
  BY <1>1, <1>2 DEF Fair
<1>5. Increasing(Q[w])
  <2> DEFINE s == P[w]
  <2>1. Increasing(s)
    BY <1>1 DEF Fair
  <2>2. \A j \in 1 .. Len(s) : s[j] \in 1 .. n
    <3>1. \A j \in 1 .. Len(s) : s[j] \in ToSet(s)
      BY DEF ToSet
    <3>2. \A x \in ToSet(s) : x \in C
      BY <1>1 DEF Fair
    <3> QED BY <3>1, <3>2
  <2> HIDE DEF s
  <2>3. s \in Seq(Nat)
    BY DEF s
  <2>4. Increasing(Append(s, n + 1))
    BY <2>1, <2>2, <2>3, AppendOrdered
  <2> QED BY <2>4 DEF s
<1>6. ASSUME NEW b \in -1 .. L PROVE Increasing(Q[b])
  BY <1>5 DEF Fair
<1>7. ASSUME NEW a \in -1 .. L, NEW b \in -1 .. L, a # b
      PROVE  ToSet(Q[a]) \cap ToSet(Q[b]) = {}
  <2>1. ToSet(P[a]) \cap ToSet(P[b]) = {} /\ n + 1 \notin ToSet(P[a]) /\ n + 1 \notin ToSet(P[b])
    BY <1>3, <1>7 DEF Fair
  <2> QED BY <1>2, <1>7, <2>1
<1> QED BY <1>4, <1>6, <1>7 DEF Fair

(* One block more on the console.                                          *)
LEMMA OneMore ==
    ASSUME NEW con \in Seq(Block), NEW e \in Block
    PROVE  /\ con \o <<e>> \in Seq(Block) /\ Len(con \o <<e>>) = Len(con) + 1 /\ Len(con) \in Nat
           /\ \A b \in 1 .. Len(con) : (con \o <<e>>)[b] = con[b]
           /\ (con \o <<e>>)[Len(con) + 1] = e
<1>1. <<e>> \in Seq(Block) /\ Len(<<e>>) = 1 /\ <<e>>[1] = e
  OBVIOUS
<1>2. Len(con) \in Nat
  BY LenProperties
<1> QED BY <1>1, <1>2, ConcatProperties

(* A block is printed: it moves from memory to the end of the console.     *)
LEMMA OnceWritten ==
    ASSUME NEW s \in Seq(Nat), NEW d \in Seq(Nat), NEW con \in Seq(Block), NEW C, Once(s, d, con, C),
           NEW e \in Block
    PROVE  /\ e.commands = s => Once(<<>>, d, con \o <<e>>, C)
           /\ e.commands = d => Once(s, <<>>, con \o <<e>>, C)
<1> DEFINE after == con \o <<e>>
           P == Part(s, d, con)
           Q == Part(<<>>, d, after)
           R == Part(s, <<>>, after)
           L == Len(con)
<1>1. /\ Len(after) = L + 1 /\ L \in Nat
      /\ \A b \in 1 .. L : after[b] = con[b]
      /\ after[L + 1] = e
  BY OneMore
<1> HIDE DEF after, L
<1>2. \A b \in -1 .. L : P[b] = IF b = 0 THEN s ELSE IF b = -1 THEN d ELSE con[b].commands
  BY DEF Part, L
<1>3. \A b \in -1 .. L + 1 : /\ Q[b] = IF b = 0 THEN <<>> ELSE IF b = -1 THEN d ELSE after[b].commands
                             /\ R[b] = IF b = 0 THEN s ELSE IF b = -1 THEN <<>> ELSE after[b].commands
  BY <1>1 DEF Part
<1>4. /\ 0 \in -1 .. L /\ -1 \in -1 .. L /\ L + 1 # 0 /\ L + 1 # -1 /\ L + 1 \in -1 .. L + 1
      /\ \A b \in -1 .. L : b \in -1 .. L + 1 /\ (b # 0 /\ b # -1 => b \in 1 .. L)
  BY <1>1
<1>5. P[0] = s /\ P[-1] = d /\ Q[0] = <<>> /\ R[-1] = <<>> /\ Q[-1] = d /\ R[0] = s
  <2>1. 0 \in -1 .. L + 1 /\ -1 \in -1 .. L + 1 /\ 0 # -1
    BY <1>1
  <2> QED BY <1>2, <1>3, <1>4, <2>1
<1>6. Q[L + 1] = e.commands /\ R[L + 1] = e.commands
  BY <1>1, <1>3, <1>4
<1>7. /\ \A b \in -1 .. L : b # 0 => Q[b] = P[b]
      /\ \A b \in -1 .. L : b # -1 => R[b] = P[b]
  BY <1>1, <1>2, <1>3, <1>4, <1>5
<1>8. Fair(P, L, C)
  BY DEF Once, L
<1> HIDE DEF P, Q, R
<1>9. ASSUME e.commands = s PROVE Once(<<>>, d, con \o <<e>>, C)
  <2>1. Fair(Q, L + 1, C)
    BY <1>1, <1>5, <1>6, <1>7, <1>8, <1>9, MovePart
  <2> QED BY <1>1, <2>1 DEF Once, Q, after
<1>10. ASSUME e.commands = d PROVE Once(s, <<>>, con \o <<e>>, C)
  <2>1. Fair(R, L + 1, C)
    BY <1>1, <1>5, <1>6, <1>7, <1>8, <1>10, MovePart
  <2> QED BY <1>1, <2>1 DEF Once, R, after
<1> QED BY <1>9, <1>10

(* The next command goes to a block in memory.                             *)
LEMMA OnceAdded ==
    ASSUME NEW s \in Seq(Nat), NEW d \in Seq(Nat), NEW con \in Seq(Block), NEW n \in Nat,
           NEW C \in SUBSET (1 .. n), Once(s, d, con, C)
    PROVE  /\ Once(Append(s, n + 1), d, con, C \cup {n + 1})
           /\ Once(s, Append(d, n + 1), con, C \cup {n + 1})
<1> DEFINE P == Part(s, d, con)
           a == Append(s, n + 1)
           b1 == Append(d, n + 1)
           Q == Part(a, d, con)
           R == Part(s, b1, con)
           L == Len(con)
<1>1. L \in Nat
  BY LenProperties
<1> HIDE DEF L, a, b1
<1>2. \A b \in -1 .. L : /\ P[b] = IF b = 0 THEN s ELSE IF b = -1 THEN d ELSE con[b].commands
                         /\ Q[b] = IF b = 0 THEN a ELSE IF b = -1 THEN d ELSE con[b].commands
                         /\ R[b] = IF b = 0 THEN s ELSE IF b = -1 THEN b1 ELSE con[b].commands
  BY DEF Part, L
<1>3. P[0] = s /\ P[-1] = d /\ Q[0] = a /\ R[-1] = b1
  <2>1. 0 \in -1 .. L /\ -1 \in -1 .. L /\ 0 # -1
    BY <1>1
  <2> QED BY <1>2, <2>1
<1>4. /\ \A b \in -1 .. L : b # 0 => Q[b] = P[b]
      /\ \A b \in -1 .. L : b # -1 => R[b] = P[b]
  BY <1>2
<1>5. Fair(P, L, C)
  BY DEF Once, L
<1> HIDE DEF P, Q, R
<1>6. Fair(Q, L, C \cup {n + 1})
  <2>1. Q[0] = Append(P[0], n + 1)
    BY <1>3 DEF a
  <2> QED BY <1>1, <1>3, <1>4, <1>5, <2>1, GrowPart
<1>7. Fair(R, L, C \cup {n + 1})
  <2>1. R[-1] = Append(P[-1], n + 1)
    BY <1>3 DEF b1
  <2> QED BY <1>1, <1>3, <1>4, <1>5, <2>1, GrowPart
<1> QED BY <1>6, <1>7 DEF Once, Q, R, L, a, b1

(* A manager and a console of their types that hold the commands of C.     *)
Holds(m, con, C) ==
    /\ m \in Manager /\ con \in Seq(Block)
    /\ Once(m.static_block_task, m.dynamic_block_task, con, C)

(* The same, member by member.                                             *)
LEMMA HoldsM ==
    ASSUME NEW s, NEW d, NEW level, NEW count, NEW t, NEW u, NEW con, NEW C
    PROVE  Holds(M(s, d, level, count, t, u), con, C) <=>
             /\ s \in Seq(Nat) /\ d \in Seq(Nat) /\ level \in Nat /\ count \in Nat
             /\ t \in Nat /\ u \in Nat
             /\ con \in Seq(Block) /\ Once(s, d, con, C)
<1> DEFINE m == M(s, d, level, count, t, u)
<1>1. m \in Manager <=> /\ s \in Seq(Nat) /\ d \in Seq(Nat) /\ level \in Nat /\ count \in Nat
                        /\ t \in Nat /\ u \in Nat
  BY DEF M, Manager
<1>2. m.static_block_task = s /\ m.dynamic_block_task = d
  BY DEF M
<1> QED BY <1>1, <1>2 DEF Holds

(* A call that writes nothing leaves the console as it is.                 *)
LEMMA NoBlock ==
    ASSUME NEW con \in Seq(Block)
    PROVE  con \o <<>> = con
BY ConcatEmptySeq

(* A call that holds on to the commands and leaves or sets the level.      *)
Keeps(r, con, C, level) ==
    /\ Holds(r.manager, con \o r.blocks, C) /\ r.blocks \in Seq(Block)
    /\ r.manager.dynamic_block_nesting_level = level

(* The same of a call without a block.                                     *)
LEMMA KeepsNone ==
    ASSUME NEW s, NEW d, NEW level, NEW count, NEW t, NEW u, NEW con, NEW C,
           Holds(M(s, d, level, count, t, u), con, C)
    PROVE  Keeps(Call(M(s, d, level, count, t, u), <<>>), con, C, level)
<1> DEFINE m == M(s, d, level, count, t, u)
<1>1. Call(m, <<>>).manager = m /\ Call(m, <<>>).blocks = <<>>
  BY DEF Call
<1>2. m.dynamic_block_nesting_level = level
  BY DEF M
<1>3. con \o <<>> = con
  BY NoBlock DEF Holds
<1>4. <<>> \in Seq(Block)
  OBVIOUS
<1> HIDE DEF m
<1> QED BY <1>1, <1>2, <1>3, <1>4 DEF Keeps, m

(* The same of a call that writes the block with the commands c.           *)
LEMMA KeepsOne ==
    ASSUME NEW s, NEW d, NEW level, NEW count, NEW t, NEW u, NEW con, NEW C, NEW c, NEW x,
           Holds(M(s, d, level, count, t, u), con \o <<[commands |-> c, second |-> x]>>, C),
           c \in Seq(Nat), x \in Nat
    PROVE  Keeps(Call(M(s, d, level, count, t, u), <<[commands |-> c, second |-> x]>>), con, C, level)
<1> DEFINE m == M(s, d, level, count, t, u)
           b == <<[commands |-> c, second |-> x]>>
<1>1. Call(m, b).manager = m /\ Call(m, b).blocks = b
  BY DEF Call
<1>2. m.dynamic_block_nesting_level = level
  BY DEF M
<1>4. b \in Seq(Block)
  BY DEF Block
<1> HIDE DEF m, b
<1> QED BY <1>1, <1>2, <1>4 DEF Keeps, m, b

(* A write keeps the commands.                                             *)
LEMMA WriteKeeps ==
    ASSUME NEW s, NEW d, NEW level, NEW count, NEW t, NEW u, NEW opens, NEW con, NEW C, NEW m,
           m = M(s, d, level, count, t, u), Holds(m, con, C)
    PROVE  Keeps(process_tasks(m, "static_block_task", opens), con, C, level)
           /\ Keeps(process_tasks(m, "dynamic_block_task", opens), con, C, level)
<1>1. /\ s \in Seq(Nat) /\ d \in Seq(Nat) /\ level \in Nat /\ count \in Nat /\ t \in Nat /\ u \in Nat
      /\ con \in Seq(Block) /\ Once(s, d, con, C)
  BY HoldsM
<1>2. <<>> \in Seq(Nat) /\ Epoch \in Nat /\ 0 \in Nat
  BY DEF Epoch
<1>3. ASSUME NEW x \in Nat, NEW t1 \in Nat, NEW u1 \in Nat
      PROVE  /\ Keeps(Call(M(<<>>, d, level, 0, t1, u1), <<[commands |-> s, second |-> x]>>), con, C, level)
             /\ Keeps(Call(M(s, <<>>, level, 0, t1, u1), <<[commands |-> d, second |-> x]>>), con, C, level)
  <2>1. ASSUME NEW c \in Seq(Nat)
        PROVE  /\ [commands |-> c, second |-> x] \in Block
               /\ [commands |-> c, second |-> x].commands = c
               /\ con \o <<[commands |-> c, second |-> x]>> \in Seq(Block)
    <3>1. [commands |-> c, second |-> x] \in Block
      BY DEF Block
    <3> QED BY <1>1, <3>1, OneMore
  <2>2. Once(<<>>, d, con \o <<[commands |-> s, second |-> x]>>, C)
    BY <1>1, <2>1, OnceWritten
  <2>3. Once(s, <<>>, con \o <<[commands |-> d, second |-> x]>>, C)
    BY <1>1, <2>1, OnceWritten
  <2>4. Holds(M(<<>>, d, level, 0, t1, u1), con \o <<[commands |-> s, second |-> x]>>, C)
    BY <1>1, <1>2, <2>1, <2>2, HoldsM
  <2>5. Holds(M(s, <<>>, level, 0, t1, u1), con \o <<[commands |-> d, second |-> x]>>, C)
    BY <1>1, <1>2, <2>1, <2>3, HoldsM
  <2> QED BY <1>1, <2>4, <2>5, KeepsOne
<1>4. Keeps(Call(m, <<>>), con, C, level)
  BY KeepsNone
<1>5. Keeps(process_tasks(m, "static_block_task", opens), con, C, level)
  <2>1. process_tasks(m, "static_block_task", opens) =
             Written(s # <<>> /\ opens, m, s, M(<<>>, d, level, 0, Epoch, u),
                     M(<<>>, d, level, 0, t, Epoch), t, u, count)
    BY WriteStatic
  <2>2. CASE ~(s # <<>> /\ opens)
    BY <1>4, <2>1, <2>2 DEF Written, Quiet, Call
  <2>3. CASE s # <<>> /\ opens /\ count # 0
    BY <1>1, <1>2, <1>3, <2>1, <2>3 DEF Written, Call
  <2>4. CASE s # <<>> /\ opens /\ count = 0
    BY <1>1, <1>2, <1>3, <2>1, <2>4 DEF Written, Call
  <2> QED BY <2>2, <2>3, <2>4
<1>6. Keeps(process_tasks(m, "dynamic_block_task", opens), con, C, level)
  <2>1. process_tasks(m, "dynamic_block_task", opens) =
             Written(d # <<>> /\ opens, m, d, M(s, <<>>, level, 0, Epoch, u),
                     M(s, <<>>, level, 0, t, Epoch), t, u, count)
    BY WriteDynamic
  <2>2. CASE ~(d # <<>> /\ opens)
    BY <1>4, <2>1, <2>2 DEF Written, Quiet, Call
  <2>3. CASE d # <<>> /\ opens /\ count # 0
    BY <1>1, <1>2, <1>3, <2>1, <2>3 DEF Written, Call
  <2>4. CASE d # <<>> /\ opens /\ count = 0
    BY <1>1, <1>2, <1>3, <2>1, <2>4 DEF Written, Call
  <2> QED BY <2>2, <2>3, <2>4
<1> QED BY <1>5, <1>6

(* A static command is kept.                                               *)
LEMMA AddStaticKeeps ==
    ASSUME NEW s, NEW d, NEW level, NEW count, NEW t, NEW u, NEW n \in Nat, NEW now \in Nat,
           NEW opens, NEW con, NEW C \in SUBSET (1 .. n), NEW m,
           m = M(s, d, level, count, t, u), Holds(m, con, C)
    PROVE  Keeps(AddStatic(m, n + 1, now, opens), con, C \cup {n + 1}, level)
<1> DEFINE a == Append(s, n + 1)
           x == Stamp(t, now)
<1>1. /\ s \in Seq(Nat) /\ d \in Seq(Nat) /\ level \in Nat /\ count \in Nat /\ t \in Nat /\ u \in Nat
      /\ con \in Seq(Block) /\ Once(s, d, con, C)
  BY HoldsM
<1>2. <<>> \in Seq(Nat) /\ Epoch \in Nat /\ 0 \in Nat /\ x \in Nat /\ a \in Seq(Nat)
      /\ count + 1 \in Nat /\ n + 1 \in Nat
  BY <1>1, AppendIs DEF Epoch, Stamp
<1>3. Once(a, d, con, C \cup {n + 1})
  BY <1>1, OnceAdded
<1>4. AddStatic(m, n + 1, now, opens) =
             Added((count + 1) % MaxStatic = 0 /\ opens, a, d, level, count, x, u)
  BY <1>1, <1>2, AddStaticIs
<1> HIDE DEF a, x
<1>5. Keeps(Call(M(a, d, level, count + 1, x, u), <<>>), con, C \cup {n + 1}, level)
  BY <1>1, <1>2, <1>3, HoldsM, KeepsNone
<1>6. Keeps(Call(M(<<>>, d, level, 0, Epoch, u), <<[commands |-> a, second |-> x]>>),
            con, C \cup {n + 1}, level)
  <2> DEFINE e == [commands |-> a, second |-> x]
  <2>1. e \in Block /\ e.commands = a
    BY <1>2 DEF Block
  <2>2. Once(<<>>, d, con \o <<e>>, C \cup {n + 1})
    <3> HIDE DEF e
    <3> QED BY <1>1, <1>2, <1>3, <2>1, OnceWritten
  <2>3. con \o <<e>> \in Seq(Block)
    <3> HIDE DEF e
    <3> QED BY <1>1, <2>1, OneMore
  <2>4. Holds(M(<<>>, d, level, 0, Epoch, u), con \o <<e>>, C \cup {n + 1})
    <3> HIDE DEF e
    <3> QED BY <1>1, <1>2, <2>2, <2>3, HoldsM
  <2> QED BY <1>2, <2>4, KeepsOne
<1> QED BY <1>4, <1>5, <1>6 DEF Added

(* Two calls, one after the other.                                         *)
LEMMA KeepsBoth ==
    ASSUME NEW m1, NEW b1, NEW m2, NEW b2, NEW con \in Seq(Block), NEW C, NEW level,
           b1 \in Seq(Block), Keeps(Call(m2, b2), con \o b1, C, level)
    PROVE  Keeps(Call(m2, b1 \o b2), con, C, level)
<1>1. Call(m2, b2).manager = m2 /\ Call(m2, b2).blocks = b2
  BY DEF Call
<1>2. Call(m2, b1 \o b2).manager = m2 /\ Call(m2, b1 \o b2).blocks = b1 \o b2
  BY DEF Call
<1>3. b2 \in Seq(Block)
  BY <1>1 DEF Keeps
<1>4. b1 \o b2 \in Seq(Block)
  BY <1>3, ConcatProperties
<1>5. con \o (b1 \o b2) = (con \o b1) \o b2
  BY <1>3, ConcatAssociative
<1> QED BY <1>1, <1>2, <1>4, <1>5 DEF Keeps

(* Is a line at this level a brace of a pair, rather than a command?       *)
Brace(task, level) == task = LeftBrace \/ (task = RightBrace /\ level > 0)

(* add_task keeps all commands, takes the line as one unless it is a brace *)
(* of a pair, and counts the level.                                        *)
LEMMA AddTaskKeeps ==
    ASSUME NEW s, NEW d, NEW level, NEW count, NEW t, NEW u, NEW n \in Nat, NEW now \in Nat,
           NEW opens, NEW con, NEW C \in SUBSET (1 .. n), NEW task, NEW m,
           m = M(s, d, level, count, t, u), Holds(m, con, C)
    PROVE  Keeps(add_task(m, task, n + 1, now, opens), con,
                 IF Brace(task, level) THEN C ELSE C \cup {n + 1}, After(level, task))
<1>1. /\ s \in Seq(Nat) /\ d \in Seq(Nat) /\ level \in Nat /\ count \in Nat /\ t \in Nat /\ u \in Nat
      /\ con \in Seq(Block) /\ Once(s, d, con, C)
  BY HoldsM
<1>2. <<>> \in Seq(Nat) /\ Epoch \in Nat /\ 0 \in Nat /\ n + 1 \in Nat
  BY DEF Epoch
<1>3. CASE task = LeftBrace
  <2>1. add_task(m, task, n + 1, now, opens) = OpenBracket(m, now, opens)
    BY <1>3, BracesDiffer DEF add_task
  <2>2. Brace(task, level) /\ After(level, task) = level + 1
    BY <1>3, BracesDiffer DEF Brace, After
  <2>3. Keeps(OpenBracket(m, now, opens), con, C, level + 1)
    <3>1. CASE level > 0
      <4>1. OpenBracket(m, now, opens) = Call(M(s, d, level + 1, count, t, u), <<>>)
        BY <1>1, <3>1, OpenInside
      <4>2. level + 1 \in Nat
        BY <1>1
      <4>3. Holds(M(s, d, level + 1, count, t, u), con, C)
        BY <1>1, <4>2, HoldsM
      <4> QED BY <4>1, <4>3, KeepsNone
    <3>2. CASE level = 0
      <4> DEFINE k == M(s, d, 0, count, t, now)
                 f == process_tasks(k, "static_block_task", opens[1])
      <4>1. Holds(k, con, C)
        BY <1>1, <1>2, HoldsM
      <4>2. Keeps(f, con, C, 0)
        <5> HIDE DEF f
        <5> QED BY <4>1, WriteKeeps DEF f
      <4>3. f = Written(s # <<>> /\ opens[1], k, s, M(<<>>, d, 0, 0, Epoch, now),
                        M(<<>>, d, 0, 0, t, Epoch), t, now, count)
        BY WriteStatic
      <4>4. OpenBracket(m, now, opens) =
             Opened(s # <<>> /\ opens[1], s, d, count, t, now)
        <5>1. m = M(s, d, 0, count, t, u)
          BY <3>2
        <5> QED BY ONLY <5>1, OpenOutside
      <4> HIDE DEF f
      <4>5. ASSUME NEW s1, NEW count1, NEW t1, NEW u1, NEW b, f = Call(M(s1, d, 0, count1, t1, u1), b)
            PROVE  Keeps(Call(M(s1, d, 1, count1, t1, u1), b), con, C, 1)
        <5>1. f.manager = M(s1, d, 0, count1, t1, u1) /\ f.blocks = b
          BY <4>5 DEF Call
        <5>2. Holds(M(s1, d, 0, count1, t1, u1), con \o b, C) /\ b \in Seq(Block)
          BY <4>2, <5>1 DEF Keeps
        <5>6. /\ s1 \in Seq(Nat) /\ d \in Seq(Nat) /\ count1 \in Nat /\ t1 \in Nat /\ u1 \in Nat
              /\ con \o b \in Seq(Block) /\ Once(s1, d, con \o b, C)
          BY <5>2, HoldsM
        <5>3. Holds(M(s1, d, 1, count1, t1, u1), con \o b, C)
          BY <5>6, HoldsM
        <5> DEFINE j == M(s1, d, 1, count1, t1, u1)
        <5>4. j.dynamic_block_nesting_level = 1
          BY DEF M
        <5> HIDE DEF j
        <5>5. Call(j, b).manager = j /\ Call(j, b).blocks = b
          BY DEF Call
        <5> QED BY <5>2, <5>3, <5>4, <5>5 DEF Keeps, j
      <4>6. 0 + 1 = 1
        OBVIOUS
      <4>7. CASE ~(s # <<>> /\ opens[1])
        <5>1. f = Call(k, <<>>)
          BY <4>3, <4>7 DEF Written, Quiet, Call
        <5> QED BY <3>2, <4>4, <4>5, <4>6, <4>7, <5>1 DEF Opened
      <4>8. CASE s # <<>> /\ opens[1] /\ count # 0
        <5>1. f = Call(M(<<>>, d, 0, 0, Epoch, now), <<[commands |-> s, second |-> t]>>)
          BY <4>3, <4>8 DEF Written, Call
        <5> QED BY <3>2, <4>4, <4>5, <4>6, <4>8, <5>1 DEF Opened
      <4>9. CASE s # <<>> /\ opens[1] /\ count = 0
        <5>1. f = Call(M(<<>>, d, 0, 0, t, Epoch), <<[commands |-> s, second |-> now]>>)
          BY <4>3, <4>9 DEF Written, Call
        <5> QED BY <3>2, <4>4, <4>5, <4>6, <4>9, <5>1 DEF Opened
      <4> QED BY <4>7, <4>8, <4>9
    <3> QED BY <1>1, <3>1, <3>2
  <2> QED BY <2>1, <2>2, <2>3
<1>4. CASE task = RightBrace /\ level > 1
  <2>1. add_task(m, task, n + 1, now, opens) = CloseBracket(m, n + 1, now, opens)
    BY <1>4, BracesDiffer DEF add_task
  <2>2. Brace(task, level) /\ After(level, task) = level - 1
    BY <1>1, <1>4, BracesDiffer DEF Brace, After
  <2>3. CloseBracket(m, n + 1, now, opens) = Call(M(s, d, level - 1, count, t, u), <<>>)
    BY <1>1, <1>2, <1>4, CloseInside
  <2>4. level - 1 \in Nat
    BY <1>1, <1>4
  <2>5. Holds(M(s, d, level - 1, count, t, u), con, C)
    BY <1>1, <2>4, HoldsM
  <2> QED BY <2>1, <2>2, <2>3, <2>5, KeepsNone
<1>5. CASE task = RightBrace /\ level = 1
  <2>1. add_task(m, task, n + 1, now, opens) = CloseBracket(m, n + 1, now, opens)
    BY <1>5, BracesDiffer DEF add_task
  <2>2. Brace(task, level) /\ After(level, task) = 0
    BY <1>1, <1>5, BracesDiffer DEF Brace, After
  <2> DEFINE f == process_tasks(m, "dynamic_block_task", opens[1])
  <2>3. Keeps(f, con, C, level)
    <3> HIDE DEF f
    <3> QED BY WriteKeeps DEF f
  <2>4. f = Written(d # <<>> /\ opens[1], m, d, M(s, <<>>, level, 0, Epoch, u),
                    M(s, <<>>, level, 0, t, Epoch), t, u, count)
    BY WriteDynamic
  <2>5. CloseBracket(m, n + 1, now, opens) =
             IF d # <<>> /\ opens[1]
             THEN Call(IF count # 0 THEN M(s, <<>>, 0, 0, Epoch, u) ELSE M(s, <<>>, 0, 0, t, Epoch),
                       <<[commands |-> d, second |-> IF count # 0 THEN t ELSE u]>>)
             ELSE Call(M(s, d, 0, count, t, u), <<>>)
    BY <1>5, CloseLast
  <2> HIDE DEF f
  <2>6. ASSUME NEW d1, NEW count1, NEW t1, NEW u1, NEW b, f = Call(M(s, d1, level, count1, t1, u1), b)
        PROVE  Keeps(Call(M(s, d1, 0, count1, t1, u1), b), con, C, 0)
    <3>1. f.manager = M(s, d1, level, count1, t1, u1) /\ f.blocks = b
      BY <2>6 DEF Call
    <3>2. Holds(M(s, d1, level, count1, t1, u1), con \o b, C) /\ b \in Seq(Block)
      BY <2>3, <3>1 DEF Keeps
    <3>3. Holds(M(s, d1, 0, count1, t1, u1), con \o b, C)
      BY <3>2, <1>2, HoldsM
    <3> DEFINE j == M(s, d1, 0, count1, t1, u1)
    <3>4. j.dynamic_block_nesting_level = 0
      BY DEF M
    <3> HIDE DEF j
    <3>5. Call(j, b).manager = j /\ Call(j, b).blocks = b
      BY DEF Call
    <3> QED BY <3>2, <3>3, <3>4, <3>5 DEF Keeps, j
  <2>7. CASE ~(d # <<>> /\ opens[1])
    <3>1. f = Call(m, <<>>)
      BY <2>4, <2>7 DEF Written, Quiet, Call
    <3> QED BY <2>1, <2>2, <2>5, <2>6, <2>7, <3>1
  <2>8. CASE d # <<>> /\ opens[1] /\ count # 0
    <3>1. f = Call(M(s, <<>>, level, 0, Epoch, u), <<[commands |-> d, second |-> t]>>)
      BY <2>4, <2>8 DEF Written, Call
    <3> QED BY <2>1, <2>2, <2>5, <2>6, <2>8, <3>1
  <2>9. CASE d # <<>> /\ opens[1] /\ count = 0
    <3>1. f = Call(M(s, <<>>, level, 0, t, Epoch), <<[commands |-> d, second |-> u]>>)
      BY <2>4, <2>9 DEF Written, Call
    <3> QED BY <2>1, <2>2, <2>5, <2>6, <2>9, <3>1
  <2> QED BY <2>7, <2>8, <2>9
<1>6. CASE task = RightBrace /\ level = 0
  <2>1. add_task(m, task, n + 1, now, opens) = CloseBracket(m, n + 1, now, opens)
    BY <1>6, BracesDiffer DEF add_task
  <2>2. ~Brace(task, level) /\ After(level, task) = level
    BY <1>1, <1>6, BracesDiffer DEF Brace, After
  <2> DEFINE f == process_tasks(m, "dynamic_block_task", opens[1])
  <2>3. Keeps(f, con, C, level)
    <3> HIDE DEF f
    <3> QED BY WriteKeeps DEF f
  <2>4. f = Call(f.manager, f.blocks)
    <3>1. f = Written(d # <<>> /\ opens[1], m, d, M(s, <<>>, level, 0, Epoch, u),
                      M(s, <<>>, level, 0, t, Epoch), t, u, count)
      BY WriteDynamic
    <3> HIDE DEF f
    <3> QED BY <3>1 DEF Written, Quiet, Call
  <2> DEFINE m1 == f.manager
             b1 == f.blocks
             a  == AddStatic(m1, n + 1, now, opens[2])
  <2>5. Holds(m1, con \o b1, C) /\ b1 \in Seq(Block) /\ m1.dynamic_block_nesting_level = level
    BY <2>3 DEF Keeps
  <2>6. PICK s1, d1, level1, count1, t1, u1 : m1 = M(s1, d1, level1, count1, t1, u1)
    <3> HIDE DEF m1
    <3>1. m1 \in Manager
      BY <2>5 DEF Holds
    <3> QED BY <3>1, ManagerIs
  <2>7. level1 = level
    <3> HIDE DEF m1
    <3> QED BY <2>5, <2>6, Members
  <2>8. Keeps(a, con \o b1, C \cup {n + 1}, level)
    <3> HIDE DEF m1, b1
    <3> QED BY <2>5, <2>6, <2>7, AddStaticKeeps
  <2>9. a = Call(a.manager, a.blocks)
    <3> DEFINE x == Stamp(t1, now)
               ap == Append(s1, n + 1)
    <3>1. s1 \in Seq(Nat) /\ count1 \in Nat
      <4> HIDE DEF m1, b1
      <4> QED BY <2>5, <2>6, HoldsM
    <3>2. a = Added((count1 + 1) % MaxStatic = 0 /\ opens[2], ap, d1, level1, count1, x, u1)
      <4> HIDE DEF m1
      <4> QED BY <1>2, <2>6, <3>1, AddStaticIs
    <3> HIDE DEF a, ap, x
    <3> QED BY <3>2 DEF Added, Call
  <2>10. CloseBracket(m, n + 1, now, opens) = Call(a.manager, b1 \o a.blocks)
    <3> HIDE DEF f
    <3>1. f = Call(m1, b1)
      BY <2>4
    <3> HIDE DEF m1, b1
    <3> DEFINE m2 == a.manager
               b2 == a.blocks
    <3>2. a = Call(m2, b2)
      BY <2>9
    <3> HIDE DEF a, m2, b2
    <3>3. CloseBracket(m, n + 1, now, opens) = Call(m2, b1 \o b2)
      BY <1>6, <3>1, <3>2, CloseAlone DEF f, a
    <3> QED BY <3>3 DEF m2, b2
  <2>11. Keeps(Call(a.manager, b1 \o a.blocks), con, C \cup {n + 1}, level)
    <3> DEFINE m2 == a.manager
               b2 == a.blocks
    <3>1. Keeps(Call(m2, b2), con \o b1, C \cup {n + 1}, level)
      BY <2>8, <2>9
    <3> HIDE DEF m1, b1, m2, b2
    <3> QED BY <1>1, <2>5, <3>1, KeepsBoth DEF m2, b2
  <2> HIDE DEF a, b1
  <2> QED BY <2>1, <2>2, <2>10, <2>11
<1>7. CASE task # LeftBrace /\ task # RightBrace
  <2>1. add_task(m, task, n + 1, now, opens) = AddCommand(m, n + 1, now, opens)
    BY <1>7 DEF add_task
  <2>2. ~Brace(task, level) /\ After(level, task) = level
    BY <1>7 DEF Brace, After
  <2>3. CASE level > 0
    <3>1. AddCommand(m, n + 1, now, opens) = Call(M(s, Append(d, n + 1), level, count, t, u), <<>>)
      BY <1>1, <2>3, CommandInside
    <3>2. Append(d, n + 1) \in Seq(Nat)
      BY <1>1, <1>2, AppendIs
    <3>3. Once(s, Append(d, n + 1), con, C \cup {n + 1})
      BY <1>1, OnceAdded
    <3>4. Holds(M(s, Append(d, n + 1), level, count, t, u), con, C \cup {n + 1})
      BY <1>1, <3>2, <3>3, HoldsM
    <3> QED BY <2>1, <2>2, <3>1, <3>4, KeepsNone
  <2>4. CASE level = 0
    <3>1. AddCommand(m, n + 1, now, opens) = AddStatic(m, n + 1, now, opens[1])
      BY <2>4, CommandOutside
    <3> QED BY <2>1, <2>2, <3>1, AddStaticKeeps
  <2> QED BY <1>1, <2>3, <2>4
<1> QED BY <1>1, <1>3, <1>4, <1>5, <1>6, <1>7

-----------------------------------------------------------------------------
(***************************************************************************)
(*                 Types, levels and commands, as invariants               *)
(***************************************************************************)

(* One line more: the depths before stay, the new one is as After says.    *)
LEMMA NextDepth ==
    ASSUME NEW input \in Seq(Line), NEW task \in Line
    PROVE  /\ Append(input, task) \in Seq(Line) /\ Len(Append(input, task)) = Len(input) + 1
           /\ Len(input) \in Nat
           /\ \A i \in 0 .. Len(input) : Depth(Append(input, task))[i] = Depth(input)[i]
           /\ Depth(Append(input, task))[Len(input) + 1] = After(Depth(input)[Len(input)], task)
           /\ \A i \in 1 .. Len(input) : Append(input, task)[i] = input[i]
           /\ Append(input, task)[Len(input) + 1] = task
<1> DEFINE longer == Append(input, task)
           n == Len(input)
<1>1. /\ longer \in Seq(Line) /\ Len(longer) = n + 1 /\ n \in Nat
      /\ \A i \in 1 .. n : longer[i] = input[i]
      /\ longer[n + 1] = task
  BY AppendProperties, LenProperties
<1> HIDE DEF longer
<1>2. \A i \in 0 .. n : Depth(longer)[i] = Depth(input)[i]
  BY <1>1, DepthOfPrefix
<1>3. Depth(longer)[n + 1] = After(Depth(input)[n], task)
  <2>1. n + 1 \in 1 .. Len(longer) /\ n \in 0 .. n /\ (n + 1) - 1 = n /\ Len(longer) \in Nat
    BY <1>1
  <2>2. Depth(longer)[n + 1] = After(Depth(longer)[(n + 1) - 1], longer[n + 1])
    BY <2>1, DepthDef
  <2> QED BY <1>1, <1>2, <2>1, <2>2
<1> QED BY <1>1, <1>2, <1>3 DEF longer

(* It is a command unless it is a brace of a pair.                         *)
LEMMA NextCommands ==
    ASSUME NEW input \in Seq(Line), NEW task \in Line
    PROVE  CommandsOf(Append(input, task)) =
             IF Brace(task, Depth(input)[Len(input)]) THEN CommandsOf(input)
                                                      ELSE CommandsOf(input) \cup {Len(input) + 1}
<1> DEFINE longer == Append(input, task)
           n == Len(input)
           IsCommand(in, p) == in[p] # LeftBrace /\ ~(in[p] = RightBrace /\ Depth(in)[p - 1] > 0)
<1>1. Len(longer) = n + 1 /\ n \in Nat
  BY NextDepth
<1>2. ASSUME NEW p \in 1 .. n PROVE IsCommand(longer, p) <=> IsCommand(input, p)
  <2>1. longer[p] = input[p]
    BY NextDepth
  <2>2. Depth(longer)[p - 1] = Depth(input)[p - 1]
    <3>1. p - 1 \in 0 .. n
      BY <1>1
    <3> QED BY <3>1, NextDepth
  <2> QED BY <2>1, <2>2
<1>3. IsCommand(longer, n + 1) <=> ~Brace(task, Depth(input)[n])
  <2>1. longer[n + 1] = task
    BY NextDepth
  <2>2. Depth(longer)[n] = Depth(input)[n]
    <3>1. n \in 0 .. n
      BY <1>1
    <3> QED BY <3>1, NextDepth
  <2>3. (n + 1) - 1 = n
    BY <1>1
  <2> QED BY <2>1, <2>2, <2>3 DEF Brace
<1>4. CommandsOf(longer) = {p \in 1 .. n + 1 : IsCommand(longer, p)}
  BY <1>1 DEF CommandsOf
<1>5. CommandsOf(input) = {p \in 1 .. n : IsCommand(input, p)}
  BY DEF CommandsOf
<1>6. 1 .. n + 1 = (1 .. n) \cup {n + 1} /\ n + 1 \notin 1 .. n
  BY <1>1
<1> HIDE DEF IsCommand, longer, n
<1> QED BY <1>2, <1>3, <1>4, <1>5, <1>6 DEF longer, n

(* What EveryCommandOnce says of the parts.                                *)
LEMMA OnceSays ==
    console \in Seq(Block) =>
       (EveryCommandOnce <=>
          Once(manager.static_block_task, manager.dynamic_block_task, console, CommandsOf(lines)))
<1> SUFFICES ASSUME console \in Seq(Block)
             PROVE  EveryCommandOnce <=>
                      Once(manager.static_block_task, manager.dynamic_block_task, console, CommandsOf(lines))
  OBVIOUS
<1> DEFINE s == manager.static_block_task
           d == manager.dynamic_block_task
           part(b) == CASE b = 0  -> s
                        [] b = -1 -> d
                        [] OTHER  -> Commands(b)
           P == Part(s, d, console)
<1>1. ASSUME NEW b \in -1 .. Len(console) PROVE part(b) = P[b]
  <2>1. 0 # -1
    OBVIOUS
  <2> QED BY <2>1 DEF Part, Commands
<1>2. EveryCommandOnce <=>
        /\ UNION {ToSet(part(b)) : b \in -1 .. Len(console)} = CommandsOf(lines)
        /\ \A b \in -1 .. Len(console) : Increasing(part(b))
        /\ \A a, b \in -1 .. Len(console) : a # b => ToSet(part(a)) \cap ToSet(part(b)) = {}
  BY Zenon DEF EveryCommandOnce
<1> HIDE DEF part, P
<1>3. UNION {ToSet(part(b)) : b \in -1 .. Len(console)} = UNION {ToSet(P[b]) : b \in -1 .. Len(console)}
  BY <1>1
<1>4. UNION {ToSet(P[b]) : b \in -1 .. Len(console)} = CommandsOf(lines)
        <=> \A x : x \in CommandsOf(lines) <=> \E b \in -1 .. Len(console) : x \in ToSet(P[b])
  <2> DEFINE U == UNION {ToSet(P[b]) : b \in -1 .. Len(console)}
  <2>1. \A x : x \in U <=> \E b \in -1 .. Len(console) : x \in ToSet(P[b])
    OBVIOUS
  <2> HIDE DEF U
  <2>2. U = CommandsOf(lines) <=> \A x : x \in CommandsOf(lines) <=> x \in U
    OBVIOUS
  <2> QED BY <2>1, <2>2 DEF U
<1> QED BY <1>1, <1>2, <1>3, <1>4 DEF Once, Fair, P

(* The invariant: the types, the level, and every command once.            *)
LevelIsDepth == manager.dynamic_block_nesting_level = Depth(lines)[Len(lines)]

OnceInv == TypeOK /\ LevelIsDepth /\ EveryCommandOnce

(* It holds at the start.                                                  *)
LEMMA OnceInvInit == Init => OnceInv
<1> SUFFICES ASSUME Init PROVE OnceInv
  OBVIOUS
<1>1. TypeOK
  <2>1. manager \in Manager
    BY DEF Init, Manager, Epoch
  <2>2. /\ lines \in Seq(Line) /\ times \in Seq(Nat) /\ Len(times) = Len(lines)
        /\ console \in Seq(Block)
    BY DEF Init
  <2>3. /\ failed \in BOOLEAN /\ stop_flag \in BOOLEAN
        /\ pc \in {"idle", "testing", "reading", "destroyed"}
    BY DEF Init
  <2> QED BY <2>1, <2>2, <2>3 DEF TypeOK
<1>2. Len(lines) = 0 /\ Len(console) = 0 /\ lines = <<>>
  BY DEF Init
<1>3. LevelIsDepth
  BY <1>2, DepthDef DEF Init, LevelIsDepth
<1>4. CommandsOf(lines) = {}
  BY <1>2 DEF CommandsOf
<1>5. EveryCommandOnce
  <2> DEFINE P == Part(<<>>, <<>>, <<>>)
  <2>1. \A b \in -1 .. 0 : P[b] = <<>>
    BY DEF Part
  <2> HIDE DEF P
  <2>2. Fair(P, 0, {})
    BY <2>1, EmptyPart DEF Fair
  <2>3. manager.static_block_task = <<>> /\ manager.dynamic_block_task = <<>> /\ console = <<>>
    BY DEF Init
  <2> QED BY <1>1, <1>2, <1>4, <2>2, <2>3, OnceSays DEF Once, P, TypeOK
<1> QED BY <1>1, <1>3, <1>5 DEF OnceInv

(* What OnceInv says, for a step that calls a member function.             *)
LEMMA OnceInvHolds ==
    ASSUME OnceInv
    PROVE  /\ Holds(manager, console, CommandsOf(lines)) /\ CommandsOf(lines) \in SUBSET (1 .. Len(lines))
           /\ Len(lines) \in Nat
           /\ \E s, d, count, t, u : manager = M(s, d, Depth(lines)[Len(lines)], count, t, u)
<1>1. manager \in Manager /\ console \in Seq(Block) /\ Len(lines) \in Nat
  BY LenProperties DEF OnceInv, TypeOK
<1>2. Holds(manager, console, CommandsOf(lines))
  BY <1>1, OnceSays DEF OnceInv, Holds
<1>3. CommandsOf(lines) \in SUBSET (1 .. Len(lines))
  BY DEF CommandsOf
<1>4. manager = M(manager.static_block_task, manager.dynamic_block_task, manager.dynamic_block_nesting_level,
                  manager.task_count, manager.static_block_timestamp, manager.dynamic_block_timestamp)
  BY <1>1, ManagerIs
<1> QED BY <1>1, <1>2, <1>3, <1>4 DEF OnceInv, LevelIsDepth

(* The step that reads a line keeps it.                                    *)
LEMMA OnceInvRead ==
    ASSUME OnceInv, NEW task \in Line, NEW delay \in Delays, NEW opens \in [1 .. 2 -> FileOpens],
           ReadLine(task, delay, opens)
    PROVE  OnceInv'
<1> DEFINE n == Len(lines)
           now == delay + IF times = <<>> THEN 1 ELSE Last(times)
           call == add_task(manager, task, n + 1, now, opens)
           level == Depth(lines)[n]
           C == CommandsOf(lines)
<1>1. /\ lines' = Append(lines, task) /\ times' = Append(times, now)
      /\ manager' = call.manager /\ console' = console \o call.blocks
      /\ failed' = (failed \/ FALSE \in Range(opens))
      /\ pc' = "testing" /\ stop_flag' = stop_flag
  BY DEF ReadLine
<1>2. /\ lines \in Seq(Line) /\ times \in Seq(Nat) /\ Len(times) = Len(lines)
      /\ failed \in BOOLEAN /\ stop_flag \in BOOLEAN
  BY DEF OnceInv, TypeOK
<1>3. now \in Nat
  <2>1. delay \in Nat
    BY EnvironmentAssumption
  <2>2. times # <<>> => Last(times) \in Nat
    BY <1>2 DEF Last
  <2> QED BY <2>1, <2>2
<1>4. Keeps(call, console, IF Brace(task, level) THEN C ELSE C \cup {n + 1}, After(level, task))
  <2>1. PICK s, d, count, t, u : manager = M(s, d, level, count, t, u)
    BY OnceInvHolds
  <2>2. Holds(manager, console, C) /\ C \in SUBSET (1 .. n) /\ n \in Nat
    BY OnceInvHolds
  <2> HIDE DEF n, now, level, C
  <2> QED BY <1>3, <2>1, <2>2, AddTaskKeeps
<1> HIDE DEF call, now
<1>5. CommandsOf(lines') = IF Brace(task, level) THEN C ELSE C \cup {n + 1}
  BY <1>1, <1>2, NextCommands
<1>6. Holds(manager', console', CommandsOf(lines'))
  BY <1>1, <1>4, <1>5 DEF Keeps
<1>7. EveryCommandOnce'
  <2>1. console' \in Seq(Block)
    BY <1>6 DEF Holds
  <2>2. EveryCommandOnce' <=>
          Once(manager'.static_block_task, manager'.dynamic_block_task, console', CommandsOf(lines'))
    <3>1. (console \in Seq(Block) =>
             (EveryCommandOnce <=>
                Once(manager.static_block_task, manager.dynamic_block_task, console, CommandsOf(lines))))'
      BY OnceSays, PTL
    <3> QED BY <2>1, <3>1
  <2> QED BY <1>6, <2>2 DEF Holds
<1>8. LevelIsDepth'
  <2>1. manager'.dynamic_block_nesting_level = After(level, task)
    BY <1>1, <1>4 DEF Keeps
  <2>2. Depth(lines')[Len(lines')] = After(level, task)
    BY <1>1, <1>2, NextDepth
  <2> QED BY <2>1, <2>2 DEF LevelIsDepth
<1>9. TypeOK'
  <2>1. lines' \in Seq(Line) /\ Len(lines') = n + 1
    BY <1>1, <1>2, NextDepth
  <2>2. times' \in Seq(Nat) /\ Len(times') = n + 1
    BY <1>1, <1>2, <1>3, AppendProperties
  <2>3. manager' \in Manager /\ console' \in Seq(Block)
    BY <1>6 DEF Holds
  <2>4. failed' \in BOOLEAN /\ stop_flag' \in BOOLEAN /\ pc' \in {"idle", "testing", "reading", "destroyed"}
    <3>1. failed' \in BOOLEAN
      BY <1>1, Zenon
    <3> QED BY <1>1, <1>2, <3>1
  <2> QED BY <2>1, <2>2, <2>3, <2>4 DEF TypeOK
<1> QED BY <1>7, <1>8, <1>9 DEF OnceInv

(* The destructor keeps it.                                                *)
LEMMA OnceInvDestroy ==
    ASSUME OnceInv, NEW opens \in FileOpens, Destroy(opens)
    PROVE  OnceInv'
<1> DEFINE call == IF is_dynamic_block_active(manager) THEN Quiet(manager)
                   ELSE process_tasks(manager, "static_block_task", opens)
           level == Depth(lines)[Len(lines)]
           C == CommandsOf(lines)
<1>1. /\ lines' = lines /\ times' = times /\ stop_flag' = stop_flag
      /\ manager' = call.manager /\ console' = console \o call.blocks
      /\ failed' = (failed \/ ~opens) /\ pc' = "destroyed"
  BY DEF Destroy
<1>2. /\ lines \in Seq(Line) /\ times \in Seq(Nat) /\ Len(times) = Len(lines)
      /\ failed \in BOOLEAN /\ stop_flag \in BOOLEAN
  BY DEF OnceInv, TypeOK
<1>3. Keeps(call, console, C, level)
  <2>1. PICK s, d, count, t, u : manager = M(s, d, level, count, t, u)
    BY OnceInvHolds
  <2>2. Holds(manager, console, C)
    BY OnceInvHolds
  <2> HIDE DEF level, C
  <2>3. Keeps(process_tasks(manager, "static_block_task", opens), console, C, level)
    BY <2>1, <2>2, WriteKeeps
  <2>4. Keeps(Quiet(manager), console, C, level)
    <3>1. Keeps(Call(manager, <<>>), console, C, level)
      BY <2>1, <2>2, KeepsNone
    <3> QED BY <3>1 DEF Call, Quiet
  <2> QED BY <2>3, <2>4
<1> HIDE DEF call
<1>4. Holds(manager', console', CommandsOf(lines'))
  BY <1>1, <1>3 DEF Keeps
<1>5. EveryCommandOnce'
  <2>1. console' \in Seq(Block)
    BY <1>4 DEF Holds
  <2>2. (console \in Seq(Block) =>
           (EveryCommandOnce <=>
              Once(manager.static_block_task, manager.dynamic_block_task, console, CommandsOf(lines))))'
    BY OnceSays, PTL
  <2> QED BY <1>4, <2>1, <2>2 DEF Holds
<1>6. LevelIsDepth'
  BY <1>1, <1>3 DEF LevelIsDepth, Keeps
<1>7. TypeOK'
  <2>1. manager' \in Manager /\ console' \in Seq(Block)
    BY <1>4 DEF Holds
  <2>2. failed' \in BOOLEAN
    BY <1>1, Zenon
  <2>3. stop_flag' \in BOOLEAN /\ pc' \in {"idle", "testing", "reading", "destroyed"}
    BY <1>1, <1>2
  <2> QED BY <1>1, <1>2, <2>1, <2>2, <2>3 DEF TypeOK
<1> QED BY <1>5, <1>6, <1>7 DEF OnceInv

(* All other steps leave the lines, the manager and the console alone.     *)
LEMMA OnceInvOther ==
    ASSUME OnceInv, Run \/ TestStopFlag \/ EndOfInput \/ Signal \/ UNCHANGED vars
    PROVE  OnceInv'
<1>1. /\ lines' = lines /\ times' = times /\ manager' = manager /\ console' = console
      /\ failed' = failed
      /\ stop_flag' \in BOOLEAN /\ pc' \in {"idle", "testing", "reading", "destroyed"}
  <2>1. stop_flag \in BOOLEAN /\ pc \in {"idle", "testing", "reading", "destroyed"}
    BY DEF OnceInv, TypeOK
  <2>2. CASE Run
    BY <2>1, <2>2 DEF Run
  <2>3. CASE TestStopFlag
    BY <2>1, <2>3 DEF TestStopFlag
  <2>4. CASE EndOfInput
    BY <2>1, <2>4 DEF EndOfInput
  <2>5. CASE Signal
    <3>1. stop_flag' = TRUE /\ pc' \in {"idle", "testing", "reading", "destroyed"}
      BY <2>1, <2>5 DEF Signal
    <3> QED BY <2>5, <3>1 DEF Signal
  <2>6. CASE UNCHANGED vars
    BY <2>1, <2>6 DEF vars
  <2> QED BY <2>2, <2>3, <2>4, <2>5, <2>6
<1>2. TypeOK'
  BY <1>1 DEF OnceInv, TypeOK
<1>3. LevelIsDepth'
  BY <1>1 DEF OnceInv, LevelIsDepth
<1>4. EveryCommandOnce'
  <2>1. (console \in Seq(Block) =>
           (EveryCommandOnce <=>
              Once(manager.static_block_task, manager.dynamic_block_task, console, CommandsOf(lines))))'
    BY OnceSays, PTL
  <2>2. console \in Seq(Block) /\ EveryCommandOnce
    BY DEF OnceInv, TypeOK
  <2> QED BY <1>1, <2>1, <2>2, OnceSays
<1> QED BY <1>2, <1>3, <1>4 DEF OnceInv

(* The three together.                                                     *)
LEMMA OnceInvNext == OnceInv /\ [Next]_vars => OnceInv'
<1> SUFFICES ASSUME OnceInv, [Next]_vars PROVE OnceInv'
  OBVIOUS
<1>1. ASSUME NEW task \in Line, NEW delay \in Delays, NEW opens \in [1 .. 2 -> FileOpens],
             ReadLine(task, delay, opens)
      PROVE  OnceInv'
  BY <1>1, OnceInvRead
<1>2. ASSUME NEW opens \in FileOpens, Destroy(opens) PROVE OnceInv'
  BY <1>2, OnceInvDestroy
<1>3. CASE Run \/ TestStopFlag \/ EndOfInput \/ Signal \/ UNCHANGED vars
  BY <1>3, OnceInvOther
<1> QED BY <1>1, <1>2, <1>3 DEF Next

(* The members of the taskmanager and the console have their types, for    *)
(* every input, block size and failure of a file.                          *)
THEOREM TypeCorrect == Spec => []TypeOK
<1>1. OnceInv => TypeOK
  BY DEF OnceInv
<1> QED BY <1>1, OnceInvInit, OnceInvNext, PTL DEF Spec

(* Every command read is on the console or in memory, exactly once and in  *)
(* order, whichever files fail to open.                                    *)
THEOREM CommandsAreKept == Spec => []EveryCommandOnce
<1>1. OnceInv => EveryCommandOnce
  BY DEF OnceInv
<1> QED BY <1>1, OnceInvInit, OnceInvNext, PTL DEF Spec

-----------------------------------------------------------------------------
(***************************************************************************)
(*                    Blocks, while all files open                         *)
(***************************************************************************)

(* D gives the depths of n lines, C their commands, T their seconds; dead  *)
(* says whether the program is at its end.                                 *)
Tog(D, p, q) == \A k \in p .. q : D[k] > 0 <=> D[p] > 0

(* The block e has all that belongs to it, and no more will come.          *)
Over(D, n, C, dead, e) ==
    LET f == e.commands[1]
    IN  /\ ~Tog(D, f, n) \/ (dead /\ ~(D[f] > 0))
        /\ \A q \in C : f <= q /\ Tog(D, f, q) => q \in ToSet(e.commands)

(* The line whose second names the file of the block e.                    *)
Begins(D, T, e, k) ==
    LET f == e.commands[1]
    IN  /\ IF D[f] > 0 THEN ~(D[k - 1] > 0) /\ Tog(D, k, f) ELSE k = f
        /\ e.second = T[k]

(* e is a block as BlocksAreRight has them.                                *)
BlockOk(D, n, C, T, dead, e) ==
    LET f == e.commands[1]
    IN  /\ e.commands # <<>> /\ f \in ToSet(e.commands)
        /\ \A q \in ToSet(e.commands) : q \in C /\ q \in 1 .. n /\ Tog(D, f, q)
        /\ ~(D[f] > 0) => Len(e.commands) <= MaxStatic
        /\ (~(D[f] > 0) /\ Len(e.commands) = MaxStatic) \/ Over(D, n, C, dead, e)
        /\ \E k \in 1 .. f : Begins(D, T, e, k)

(* The blocks on the console, and the commands in memory after them.       *)
BlocksOk(D, n, C, T, dead, con, rest) ==
    /\ \A b \in 1 .. Len(con) : BlockOk(D, n, C, T, dead, con[b])
    /\ \A b \in 1 .. Len(con) : \A q \in ToSet(con[b].commands) : \A p \in rest : q < p
    /\ \A a, b \in 1 .. Len(con) :
          a < b => \A x \in ToSet(con[a].commands) : \A y \in ToSet(con[b].commands) : x < y

(* Lines are added, none changes; at the end of the program none is added. *)
Later(D, n, C, T, dead, D2, n2, C2, T2, dead2) ==
    /\ n \in Nat /\ n2 \in Nat /\ n <= n2
    /\ \A i \in 0 .. n : D2[i] = D[i]
    /\ \A i \in 1 .. n : T2[i] = T[i]
    /\ \A q \in C2 : q \in C \/ (q > n /\ q \in 1 .. n2)
    /\ C \subseteq C2 /\ C \subseteq 1 .. n
    /\ dead => dead2 /\ n2 = n /\ C2 = C

(* What is together stays so.                                              *)
LEMMA TogLater ==
    ASSUME NEW D, NEW D2, NEW n \in Nat, \A i \in 0 .. n : D2[i] = D[i],
           NEW p \in 0 .. n, NEW q \in 0 .. n
    PROVE  Tog(D2, p, q) <=> Tog(D, p, q)
<1>1. \A k \in p .. q : k \in 0 .. n
  OBVIOUS
<1> QED BY <1>1 DEF Tog

(* A block that is right stays so.                                         *)
LEMMA BlockStays ==
    ASSUME NEW D, NEW n, NEW C, NEW T, NEW dead, NEW D2, NEW n2, NEW C2, NEW T2, NEW dead2,
           Later(D, n, C, T, dead, D2, n2, C2, T2, dead2),
           NEW e, BlockOk(D, n, C, T, dead, e)
    PROVE  BlockOk(D2, n2, C2, T2, dead2, e)
<1> DEFINE f == e.commands[1]
           S == ToSet(e.commands)
<1>1. /\ e.commands # <<>> /\ f \in S
      /\ \A q \in S : q \in C /\ q \in 1 .. n /\ Tog(D, f, q)
      /\ ~(D[f] > 0) => Len(e.commands) <= MaxStatic
      /\ (~(D[f] > 0) /\ Len(e.commands) = MaxStatic) \/ Over(D, n, C, dead, e)
  BY Zenon DEF BlockOk
<1>2. PICK k \in 1 .. f : Begins(D, T, e, k)
  BY DEF BlockOk
<1>3. /\ n \in Nat /\ n2 \in Nat /\ n <= n2
      /\ \A i \in 0 .. n : D2[i] = D[i]
      /\ \A i \in 1 .. n : T2[i] = T[i]
      /\ \A q \in C2 : q \in C \/ (q > n /\ q \in 1 .. n2)
      /\ C \subseteq C2 /\ C \subseteq 1 .. n
      /\ dead => dead2 /\ n2 = n /\ C2 = C
  BY DEF Later
<1>4. f \in 1 .. n /\ f \in 0 .. n /\ D2[f] = D[f]
  BY <1>1, <1>3
<1>5. \A q \in 0 .. n : Tog(D2, f, q) <=> Tog(D, f, q)
  <2> HIDE DEF f
  <2> QED BY <1>3, <1>4, TogLater
<1> HIDE DEF f, S
<1>6. \A q \in S : q \in C2 /\ q \in 1 .. n2 /\ Tog(D2, f, q)
  <2> SUFFICES ASSUME NEW q \in S PROVE q \in C2 /\ q \in 1 .. n2 /\ Tog(D2, f, q)
    OBVIOUS
  <2>1. q \in C /\ q \in 1 .. n /\ Tog(D, f, q)
    BY <1>1
  <2>2. q \in 0 .. n /\ q \in 1 .. n2 /\ q \in C2
    BY <1>3, <2>1
  <2> QED BY <1>5, <2>1, <2>2
<1>7. Over(D, n, C, dead, e) => Over(D2, n2, C2, dead2, e)
  <2> SUFFICES ASSUME Over(D, n, C, dead, e) PROVE Over(D2, n2, C2, dead2, e)
    OBVIOUS
  <2>1. /\ ~Tog(D, f, n) \/ (dead /\ ~(D[f] > 0))
        /\ \A q \in C : f <= q /\ Tog(D, f, q) => q \in S
    BY Zenon DEF Over, f, S
  <2>2. ~Tog(D, f, n) => \A q \in n .. n2 : ~Tog(D2, f, q)
    <3> SUFFICES ASSUME ~Tog(D, f, n), NEW q \in n .. n2 PROVE ~Tog(D2, f, q)
      OBVIOUS
    <3>1. PICK j \in f .. n : ~(D[j] > 0 <=> D[f] > 0)
      BY Zenon DEF Tog
    <3>2. j \in f .. q /\ D2[j] = D[j]
      BY <1>3, <1>4, <3>1
    <3>3. ~(D2[j] > 0 <=> D2[f] > 0)
      BY <1>4, <3>1, <3>2, Zenon
    <3> QED BY <3>2, <3>3 DEF Tog
  <2>3. ~Tog(D2, f, n2) \/ (dead2 /\ ~(D2[f] > 0))
    <3>1. n2 \in n .. n2
      BY <1>3
    <3> QED BY <1>3, <1>4, <2>1, <2>2, <3>1
  <2>4. ASSUME NEW q \in C2, f <= q, Tog(D2, f, q) PROVE q \in S
    <3>1. CASE q \in C
      <4>1. q \in 0 .. n
        BY <1>3, <3>1
      <4> QED BY <1>5, <2>1, <2>4, <3>1, <4>1
    <3>2. CASE q \notin C
      <4>1. q > n /\ q \in 1 .. n2 /\ ~dead
        BY <1>3, <3>2
      <4>2. q \in n .. n2
        BY <1>3, <4>1
      <4> QED BY <2>1, <2>2, <2>4, <4>1, <4>2
    <3> QED BY <3>1, <3>2
  <2> QED BY <2>3, <2>4 DEF Over, f, S
<1>8. Begins(D2, T2, e, k)
  <2>1. /\ IF D[f] > 0 THEN ~(D[k - 1] > 0) /\ Tog(D, k, f) ELSE k = f
        /\ e.second = T[k]
    BY <1>2, Zenon DEF Begins, f
  <2>2. k \in 1 .. n /\ k - 1 \in 0 .. n /\ k \in 0 .. n
    <3>1. k \in 1 .. f
      BY DEF f
    <3>2. n \in Nat
      BY <1>3
    <3> QED BY <1>4, <3>1, <3>2
  <2>3. T2[k] = T[k] /\ D2[k - 1] = D[k - 1]
    BY <1>3, <2>2
  <2>4. Tog(D2, k, f) <=> Tog(D, k, f)
    BY <1>3, <1>4, <2>2, TogLater
  <2>5. IF D2[f] > 0 THEN ~(D2[k - 1] > 0) /\ Tog(D2, k, f) ELSE k = f
    BY <1>4, <2>1, <2>3, <2>4, Zenon
  <2> QED BY <2>1, <2>3, <2>5, Zenon DEF Begins, f
<1> QED BY <1>1, <1>2, <1>4, <1>6, <1>7, <1>8 DEF BlockOk, f, S

(* Nothing is printed: the blocks stay right, and the commands in memory   *)
(* are those there were and new ones.                                      *)
LEMMA BlocksStay ==
    ASSUME NEW D, NEW n, NEW C, NEW T, NEW dead, NEW D2, NEW n2, NEW C2, NEW T2, NEW dead2,
           Later(D, n, C, T, dead, D2, n2, C2, T2, dead2),
           NEW con, NEW rest, NEW rest2, BlocksOk(D, n, C, T, dead, con, rest),
           \A p \in rest2 : p \in rest \/ (p \in Nat /\ p > n)
    PROVE  BlocksOk(D2, n2, C2, T2, dead2, con, rest2)
<1>1. \A b \in 1 .. Len(con) : BlockOk(D2, n2, C2, T2, dead2, con[b])
  BY BlockStays DEF BlocksOk
<1>2. \A b \in 1 .. Len(con) : \A q \in ToSet(con[b].commands) : q \in 1 .. n /\ n \in Nat
  BY Zenon DEF BlocksOk, BlockOk, Later
<1>3. ASSUME NEW b \in 1 .. Len(con), NEW q \in ToSet(con[b].commands), NEW p \in rest2
      PROVE  q < p
  <2>1. CASE p \in rest
    BY <2>1 DEF BlocksOk
  <2>2. CASE p \in Nat /\ p > n
    <3>1. q \in 1 .. n /\ n \in Nat
      BY <1>2
    <3> QED BY <2>2, <3>1
  <2> QED BY <2>1, <2>2
<1> QED BY <1>1, <1>3 DEF BlocksOk

(* A block is printed, of commands that were in memory or are new.         *)
LEMMA BlocksAdd ==
    ASSUME NEW D, NEW n, NEW C, NEW T, NEW dead, NEW D2, NEW n2, NEW C2, NEW T2, NEW dead2,
           Later(D, n, C, T, dead, D2, n2, C2, T2, dead2),
           NEW con \in Seq(Block), NEW rest, BlocksOk(D, n, C, T, dead, con, rest),
           NEW e \in Block, BlockOk(D2, n2, C2, T2, dead2, e),
           \A p \in ToSet(e.commands) : p \in rest \/ (p \in Nat /\ p > n)
    PROVE  BlocksOk(D2, n2, C2, T2, dead2, con \o <<e>>, {})
<1> DEFINE after == con \o <<e>>
           L == Len(con)
<1>1. /\ Len(after) = L + 1 /\ L \in Nat
      /\ \A b \in 1 .. L : after[b] = con[b]
      /\ after[L + 1] = e
  BY OneMore
<1>2. BlocksOk(D2, n2, C2, T2, dead2, con, ToSet(e.commands))
  BY BlocksStay
<1> HIDE DEF after, L
<1>3. \A b \in 1 .. L + 1 : b \in 1 .. L \/ b = L + 1
  BY <1>1
<1>4. \A b \in 1 .. L + 1 : BlockOk(D2, n2, C2, T2, dead2, after[b])
  <2>1. \A b \in 1 .. L : BlockOk(D2, n2, C2, T2, dead2, con[b])
    BY <1>2 DEF BlocksOk, L
  <2> QED BY <1>1, <1>3, <2>1
<1>5. ASSUME NEW a \in 1 .. L + 1, NEW b \in 1 .. L + 1, a < b,
             NEW x \in ToSet(after[a].commands), NEW y \in ToSet(after[b].commands)
      PROVE  x < y
  <2>1. a \in 1 .. L /\ after[a] = con[a]
    BY <1>1, <1>5
  <2>2. CASE b \in 1 .. L
    <3>1. after[b] = con[b]
      BY <1>1, <2>2
    <3>2. \A i, j \in 1 .. L : i < j => \A v \in ToSet(con[i].commands) : \A w \in ToSet(con[j].commands) : v < w
      BY <1>2, Zenon DEF BlocksOk, L
    <3> QED BY <1>5, <2>1, <2>2, <3>1, <3>2
  <2>3. CASE b = L + 1
    <3>1. \A i \in 1 .. L : \A v \in ToSet(con[i].commands) : \A w \in ToSet(e.commands) : v < w
      BY <1>2, Zenon DEF BlocksOk, L
    <3> QED BY <1>1, <1>5, <2>1, <2>3, <3>1
  <2> QED BY <1>3, <2>2, <2>3
<1>6. BlocksOk(D2, n2, C2, T2, dead2, after, {})
  BY <1>1, <1>4, <1>5 DEF BlocksOk
<1> QED BY <1>6 DEF after

(* No command from a block in memory on is anywhere else.                  *)
LEMMA AllOfThem ==
    ASSUME NEW D, NEW n, NEW C, NEW T, NEW dead, NEW con, NEW c, NEW f,
           BlocksOk(D, n, C, T, dead, con, ToSet(c)), n \in Nat, f \in ToSet(c), f \in Nat,
           \A q \in C : q \in ToSet(c) \/ \E b \in 1 .. Len(con) : q \in ToSet(con[b].commands)
    PROVE  \A q \in C : f <= q => q \in ToSet(c)
<1> SUFFICES ASSUME NEW q \in C, f <= q, q \notin ToSet(c) PROVE FALSE
  OBVIOUS
<1>1. PICK b \in 1 .. Len(con) : q \in ToSet(con[b].commands)
  OBVIOUS
<1>2. q < f
  BY <1>1 DEF BlocksOk
<1>3. q \in 1 .. n
  BY <1>1, Zenon DEF BlocksOk, BlockOk
<1> QED BY <1>2, <1>3

-----------------------------------------------------------------------------
(* The blocks in memory, as BlocksAreRight and the clock need them.        *)
MemoryOk(D, n, T, s, d, count, t, u) ==
    /\ count = Len(s) /\ count < MaxStatic
    /\ IF D[n] > 0 THEN s = <<>> ELSE d = <<>>
    /\ IF s = <<>> THEN t = Epoch ELSE t = T[s[1]]
    /\ \A p \in ToSet(s) \cup ToSet(d) : p \in 1 .. n /\ Tog(D, p, n)
    /\ D[n] > 0 => \E k \in 1 .. n : ~(D[k - 1] > 0) /\ Tog(D, k, n) /\ u = T[k]

(* The first of a block in memory, and what its commands share.            *)
LEMMA FirstOf ==
    ASSUME NEW c \in Seq(Nat), c # <<>>, Increasing(c)
    PROVE  c[1] \in ToSet(c) /\ c[1] \in Nat /\ \A q \in ToSet(c) : c[1] <= q /\ q \in Nat
<1>1. Len(c) \in Nat /\ Len(c) # 0 /\ \A i \in 1 .. Len(c) : c[i] \in Nat
  OBVIOUS
<1>2. 1 \in 1 .. Len(c)
  BY <1>1
<1>3. ToSet(c) = {c[i] : i \in 1 .. Len(c)}
  BY DEF ToSet
<1>4. ASSUME NEW i \in 1 .. Len(c) PROVE c[1] <= c[i] /\ c[i] \in Nat
  <2>1. CASE i = 1
    BY <1>1, <1>2, <2>1
  <2>2. CASE i # 1
    <3>1. 1 < i
      BY <1>1, <2>2
    <3>2. c[1] < c[i]
      BY <1>2, <3>1 DEF Increasing
    <3> QED BY <1>1, <1>2, <3>2
  <2> QED BY <2>1, <2>2
<1> QED BY <1>2, <1>3, <1>4

(* Two lines that are each together with the last are together.            *)
LEMMA TogBoth ==
    ASSUME NEW D, NEW n \in Nat, NEW p \in 0 .. n, NEW q \in 0 .. n, Tog(D, p, n), p <= q
    PROVE  Tog(D, p, q) /\ (D[p] > 0 <=> D[q] > 0) /\ (D[p] > 0 <=> D[n] > 0)
<1>1. \A k \in p .. n : D[k] > 0 <=> D[p] > 0
  BY Zenon DEF Tog
<1>2. q \in p .. n /\ n \in p .. n /\ \A k \in p .. q : k \in p .. n
  OBVIOUS
<1> QED BY <1>1, <1>2 DEF Tog

(* A static block that a brace or the end of the program cuts short.       *)
LEMMA StaticIsOk ==
    ASSUME NEW D, NEW n \in Nat, NEW C, NEW T, NEW con, NEW s \in Seq(Nat), NEW d, NEW count, NEW t, NEW u,
           NEW D2, NEW n2 \in Nat, NEW T2, NEW dead2,
           s # <<>>, Increasing(s), ToSet(s) \subseteq C,
           MemoryOk(D, n, T, s, d, count, t, u), BlocksOk(D, n, C, T, FALSE, con, ToSet(s)),
           \A q \in C : q \in ToSet(s) \/ \E b \in 1 .. Len(con) : q \in ToSet(con[b].commands),
           Later(D, n, C, T, FALSE, D2, n2, C, T2, dead2), dead2 \/ D2[n2] > 0,
           NEW e, e.commands = s, e.second = t
    PROVE  BlockOk(D2, n2, C, T2, dead2, e)
<1> DEFINE f == s[1]
           S == ToSet(s)
<1>1. f \in S /\ f \in Nat /\ \A q \in S : f <= q /\ q \in Nat
  BY FirstOf
<1>2. /\ n <= n2
      /\ \A i \in 0 .. n : D2[i] = D[i]
      /\ \A i \in 1 .. n : T2[i] = T[i]
  BY DEF Later
<1>3. /\ count = Len(s) /\ count < MaxStatic
      /\ ~(D[n] > 0)
      /\ t = T[f]
      /\ \A p \in S : p \in 1 .. n /\ Tog(D, p, n)
  BY Zenon DEF MemoryOk
<1>4. f \in 1 .. n /\ f \in 0 .. n /\ Tog(D, f, n)
  BY <1>1, <1>3
<1>5. ~(D[f] > 0) /\ D2[f] = D[f]
  <2>1. n \in f .. n
    BY <1>4
  <2> QED BY <1>2, <1>3, <1>4, <2>1 DEF Tog
<1> HIDE DEF f, S
<1>6. ASSUME NEW q \in S PROVE q \in C /\ q \in 1 .. n2 /\ Tog(D2, f, q)
  <2>1. q \in 1 .. n /\ q \in 0 .. n /\ f <= q
    BY <1>1, <1>3
  <2>2. Tog(D, f, q)
    BY <1>4, <2>1, TogBoth
  <2>3. Tog(D2, f, q)
    BY <1>2, <1>4, <2>1, <2>2, TogLater
  <2>4. q \in C
    BY DEF S
  <2>5. q \in 1 .. n2
    BY <1>2, <2>1
  <2> QED BY <2>3, <2>4, <2>5
<1>7. Over(D2, n2, C, dead2, e)
  <2>1. ~Tog(D2, f, n2) \/ (dead2 /\ ~(D2[f] > 0))
    <3>1. CASE dead2
      BY <1>5, <3>1
    <3>2. CASE D2[n2] > 0
      <4>1. n2 \in f .. n2
        BY <1>2, <1>4
      <4> QED BY <1>5, <3>2, <4>1 DEF Tog
    <3> QED BY <3>1, <3>2
  <2>2. \A q \in C : f <= q => q \in S
    BY <1>1, AllOfThem DEF S
  <2> QED BY <2>1, <2>2, Zenon DEF Over, f, S
<1>8. Begins(D2, T2, e, f) /\ f \in 1 .. f
  <2>1. f \in 1 .. f
    BY <1>4
  <2>2. t = T2[f]
    BY <1>2, <1>3, <1>4
  <2> QED BY <1>5, <2>1, <2>2, Zenon DEF Begins, f
<1>9. Len(s) <= MaxStatic
  BY <1>3, MaxStaticAssumption, LenProperties
<1> QED BY <1>1, <1>6, <1>7, <1>8, <1>9 DEF BlockOk, f, S

(* A dynamic block whose outermost pair is closed.                         *)
LEMMA DynamicIsOk ==
    ASSUME NEW D, NEW n \in Nat, NEW C, NEW T, NEW con, NEW d \in Seq(Nat), NEW s, NEW count, NEW t, NEW u,
           NEW D2, NEW n2 \in Nat, NEW T2,
           d # <<>>, Increasing(d), ToSet(d) \subseteq C,
           MemoryOk(D, n, T, s, d, count, t, u), BlocksOk(D, n, C, T, FALSE, con, ToSet(d)),
           \A q \in C : q \in ToSet(d) \/ \E b \in 1 .. Len(con) : q \in ToSet(con[b].commands),
           Later(D, n, C, T, FALSE, D2, n2, C, T2, FALSE), ~(D2[n2] > 0),
           NEW e, e.commands = d, e.second = u
    PROVE  BlockOk(D2, n2, C, T2, FALSE, e)
<1> DEFINE f == d[1]
           S == ToSet(d)
<1>1. f \in S /\ f \in Nat /\ \A q \in S : f <= q /\ q \in Nat
  BY FirstOf
<1>2. /\ n <= n2
      /\ \A i \in 0 .. n : D2[i] = D[i]
      /\ \A i \in 1 .. n : T2[i] = T[i]
  BY DEF Later
<1>3. /\ D[n] > 0
      /\ \A p \in S : p \in 1 .. n /\ Tog(D, p, n)
  BY Zenon DEF MemoryOk
<1>4. f \in 1 .. n /\ f \in 0 .. n /\ Tog(D, f, n)
  BY <1>1, <1>3
<1>5. D[f] > 0 /\ D2[f] = D[f]
  <2>1. n \in f .. n
    BY <1>4
  <2> QED BY <1>2, <1>3, <1>4, <2>1 DEF Tog
<1>10. PICK k \in 1 .. n : ~(D[k - 1] > 0) /\ Tog(D, k, n) /\ u = T[k]
  BY <1>3, Zenon DEF MemoryOk
<1> HIDE DEF f, S
<1>6. ASSUME NEW q \in S PROVE q \in C /\ q \in 1 .. n2 /\ Tog(D2, f, q)
  <2>1. q \in 1 .. n /\ q \in 0 .. n /\ f <= q
    BY <1>1, <1>3
  <2>2. Tog(D, f, q)
    BY <1>4, <2>1, TogBoth
  <2>3. Tog(D2, f, q)
    BY <1>2, <1>4, <2>1, <2>2, TogLater
  <2>4. q \in C
    BY DEF S
  <2>5. q \in 1 .. n2
    BY <1>2, <2>1
  <2> QED BY <2>3, <2>4, <2>5
<1>7. Over(D2, n2, C, FALSE, e)
  <2>1. ~Tog(D2, f, n2)
    <3>1. n2 \in f .. n2
      BY <1>2, <1>4
    <3>2. D2[f] > 0
      BY <1>5
    <3> QED BY <3>1, <3>2 DEF Tog
  <2>2. \A q \in C : f <= q => q \in S
    BY <1>1, AllOfThem DEF S
  <2> QED BY <2>1, <2>2, Zenon DEF Over, f, S
<1>8. k \in 1 .. f
  <2>1. ASSUME k > f PROVE FALSE
    <3>1. k - 1 \in f .. n
      BY <1>4, <2>1
    <3> QED BY <1>4, <1>5, <1>10, <3>1 DEF Tog
  <2> QED BY <1>4, <2>1
<1>9. Begins(D2, T2, e, k)
  <2>1. k \in 0 .. n /\ k - 1 \in 0 .. n
    OBVIOUS
  <2>2. Tog(D, k, f)
    <3>1. k <= f
      BY <1>8
    <3> QED BY <1>4, <1>10, <2>1, <3>1, TogBoth
  <2>3. Tog(D2, k, f)
    BY <1>2, <1>4, <2>1, <2>2, TogLater
  <2>4. ~(D2[k - 1] > 0) /\ u = T2[k] /\ D2[f] > 0
    BY <1>2, <1>5, <1>10, <2>1
  <2> QED BY <2>3, <2>4, Zenon DEF Begins, f
<1> QED BY <1>1, <1>5, <1>6, <1>7, <1>8, <1>9 DEF BlockOk, f, S

(* Up to the limit only the limit is a multiple of it.                     *)
LEMMA FullWhen ==
    ASSUME NEW y \in Nat \ {0}, NEW x \in 1 .. y
    PROVE  x % y = 0 <=> x = y
<1>1. CASE x < y
  <2>1. x % y = x
    BY <1>1
  <2> QED BY <1>1, <2>1
<1>2. CASE x = y
  BY <1>2
<1> QED BY <1>1, <1>2

(* A static block that is full.                                            *)
LEMMA FullIsOk ==
    ASSUME NEW D, NEW n \in Nat, NEW C \in SUBSET (1 .. n), NEW T, NEW s \in Seq(Nat), NEW d,
           NEW count, NEW t, NEW u, NEW D2, NEW T2,
           Increasing(s), ToSet(s) \subseteq C, MemoryOk(D, n, T, s, d, count, t, u),
           ~(D[n] > 0), ~(D2[n + 1] > 0), (count + 1) % MaxStatic = 0,
           Later(D, n, C, T, FALSE, D2, n + 1, C \cup {n + 1}, T2, FALSE),
           \A i \in 1 .. n : T[i] # Epoch,
           NEW e, e.commands = Append(s, n + 1), e.second = Stamp(t, T2[n + 1])
    PROVE  BlockOk(D2, n + 1, C \cup {n + 1}, T2, FALSE, e)
<1> DEFINE c == Append(s, n + 1)
           f == c[1]
           S == ToSet(c)
<1>1. /\ c \in Seq(Nat) /\ c # <<>> /\ Len(c) = Len(s) + 1 /\ Len(s) \in Nat
      /\ \A j \in 1 .. Len(s) : c[j] = s[j]
      /\ c[Len(s) + 1] = n + 1
  BY AppendIs, LenProperties
<1>2. S = ToSet(s) \cup {n + 1}
  BY AppendSet
<1>3. /\ \A i \in 0 .. n : D2[i] = D[i]
      /\ \A i \in 1 .. n : T2[i] = T[i]
  BY DEF Later
<1>4. /\ count = Len(s) /\ count < MaxStatic
      /\ IF s = <<>> THEN t = Epoch ELSE t = T[s[1]]
      /\ \A p \in ToSet(s) : p \in 1 .. n /\ Tog(D, p, n)
  BY Zenon DEF MemoryOk
<1>5. Len(c) = MaxStatic
  <2>1. count + 1 \in 1 .. MaxStatic /\ MaxStatic \in Nat
    BY <1>1, <1>4, MaxStaticAssumption
  <2>2. count + 1 = MaxStatic
    BY <2>1, FullWhen
  <2> QED BY <1>1, <1>4, <2>2
<1>6. CASE s = <<>>
  <2>1. f = n + 1 /\ Len(s) = 0
    BY <1>1, <1>6
  <2>2. S = {n + 1}
    BY <1>2, <1>6, EmptyPart
  <2>3. Tog(D2, n + 1, n + 1)
    BY DEF Tog
  <2>4. Begins(D2, T2, e, n + 1)
    <3>1. e.second = T2[n + 1]
      BY <1>4, <1>6 DEF Stamp
    <3> HIDE DEF c
    <3> QED BY <2>1, <3>1 DEF Begins, c
  <2>5. n + 1 \in 1 .. n + 1 /\ n + 1 \in C \cup {n + 1}
    OBVIOUS
  <2> HIDE DEF S, f, c
  <2>6. e.commands = c
    BY DEF c
  <2>7. f \in S
    BY <2>1, <2>2
  <2>8. \A q \in S : q \in C \cup {n + 1} /\ q \in 1 .. n + 1 /\ Tog(D2, f, q)
    BY <2>1, <2>2, <2>3, <2>5
  <2>9. Len(c) <= MaxStatic /\ \E k \in 1 .. f : Begins(D2, T2, e, k)
    BY <1>5, <2>1, <2>4, <2>5, MaxStaticAssumption
  <2>10. ~(D2[f] > 0)
    BY <2>1
  <2> QED BY <1>1, <1>5, <2>6, <2>7, <2>8, <2>9, <2>10, Zenon DEF BlockOk, f, S
<1>7. CASE s # <<>>
  <2>1. s[1] \in ToSet(s) /\ s[1] \in Nat /\ \A q \in ToSet(s) : s[1] <= q /\ q \in Nat
    BY <1>7, FirstOf
  <2>2. f = s[1]
    <3>1. 1 \in 1 .. Len(s)
      BY <1>1, <1>7
    <3> QED BY <1>1, <3>1
  <2>3. f \in 1 .. n /\ f \in 0 .. n /\ Tog(D, f, n) /\ t = T[f]
    BY <1>4, <1>7, <2>1, <2>2
  <2> HIDE DEF S, f, c
  <2>4. ~(D[f] > 0) /\ D2[f] = D[f]
    <3>1. n \in f .. n
      BY <2>3
    <3> QED BY <1>3, <2>3, <3>1 DEF Tog
  <2>5. ASSUME NEW q \in ToSet(s) PROVE q \in C /\ q \in 1 .. n + 1 /\ Tog(D2, f, q)
    <3>1. q \in 1 .. n /\ q \in 0 .. n /\ f <= q
      BY <1>4, <2>1, <2>2
    <3>2. Tog(D, f, q)
      BY <2>3, <3>1, TogBoth
    <3>3. Tog(D2, f, q)
      BY <1>3, <2>3, <3>1, <3>2, TogLater
    <3> QED BY <3>1, <3>3
  <2>6. Tog(D2, f, n + 1)
    <3>1. ASSUME NEW k \in f .. n + 1 PROVE D2[k] > 0 <=> D2[f] > 0
      <4>1. CASE k = n + 1
        BY <2>4, <4>1
      <4>2. CASE k \in f .. n
        <5>1. D2[k] = D[k] /\ (D[k] > 0 <=> D[f] > 0)
          <6>1. k \in 0 .. n
            BY <2>3, <4>2
          <6> QED BY <1>3, <2>3, <4>2, <6>1 DEF Tog
        <5> QED BY <2>4, <5>1, Zenon
      <4> QED BY <2>3, <4>1, <4>2
    <3> QED BY <3>1 DEF Tog
  <2>7. \A q \in S : q \in C \cup {n + 1} /\ q \in 1 .. n + 1 /\ Tog(D2, f, q)
    <3>1. n + 1 \in 1 .. n + 1
      OBVIOUS
    <3> QED BY <1>2, <2>5, <2>6, <3>1
  <2>8. Begins(D2, T2, e, f) /\ f \in 1 .. f
    <3>1. f \in 1 .. f
      BY <2>3
    <3>2. e.second = T2[f]
      <4>1. t # Epoch
        BY <2>3
      <4> QED BY <1>3, <2>3, <4>1 DEF Stamp
    <3>3. e.commands[1] = f
      BY DEF f, c
    <3> QED BY <2>4, <3>1, <3>2, <3>3, Zenon DEF Begins
  <2>9. e.commands = c /\ f \in S /\ c # <<>>
    BY <1>1, <1>2, <2>1, <2>2 DEF c
  <2>10. Len(c) <= MaxStatic /\ ~(D2[f] > 0)
    BY <1>5, <2>4, MaxStaticAssumption
  <2> QED BY <1>5, <2>7, <2>8, <2>9, <2>10, Zenon DEF BlockOk, f, S
<1> QED BY <1>6, <1>7

(* Nothing is in memory, outside of braces or in the first line of them.   *)
LEMMA NothingIsOk ==
    ASSUME NEW D, NEW n \in Nat, NEW T, NEW u,
           D[n] > 0 => n # 0 /\ ~(D[n - 1] > 0) /\ u = T[n]
    PROVE  MemoryOk(D, n, T, <<>>, <<>>, 0, Epoch, u)
<1>1. Len(<<>>) = 0 /\ 0 < MaxStatic
  BY MaxStaticAssumption
<1>2. D[n] > 0 => \E k \in 1 .. n : ~(D[k - 1] > 0) /\ Tog(D, k, n) /\ u = T[k]
  <2> SUFFICES ASSUME D[n] > 0 PROVE n \in 1 .. n /\ ~(D[n - 1] > 0) /\ Tog(D, n, n) /\ u = T[n]
    OBVIOUS
  <2> QED BY DEF Tog
<1> QED BY <1>1, <1>2, EmptyPart DEF MemoryOk

(* What is together with the last line is so with the next.                *)
LEMMA TogNext ==
    ASSUME NEW D, NEW D2, NEW n \in Nat, \A i \in 0 .. n : D2[i] = D[i],
           D2[n + 1] > 0 <=> D[n] > 0, NEW p \in 0 .. n, Tog(D, p, n)
    PROVE  Tog(D2, p, n + 1)
<1>1. D[p] > 0 <=> D[n] > 0
  <2>1. n \in p .. n
    OBVIOUS
  <2> QED BY <2>1 DEF Tog
<1>2. D2[p] = D[p]
  OBVIOUS
<1>3. ASSUME NEW k \in p .. n + 1 PROVE D2[k] > 0 <=> D2[p] > 0
  <2>1. CASE k = n + 1
    BY <1>1, <1>2, <2>1
  <2>2. CASE k # n + 1
    <3>1. k \in p .. n /\ k \in 0 .. n
      BY <2>2
    <3>2. D2[k] = D[k] /\ (D[k] > 0 <=> D[p] > 0)
      BY <3>1 DEF Tog
    <3> QED BY <1>2, <3>2, Zenon
  <2> QED BY <2>1, <2>2
<1> QED BY <1>3 DEF Tog

(* Inside braces, with or without a new command.                           *)
LEMMA InsideIsOk ==
    ASSUME NEW D, NEW D2, NEW n \in Nat, NEW T, NEW T2, NEW s, NEW d, NEW count, NEW t, NEW u, NEW d2,
           MemoryOk(D, n, T, s, d, count, t, u), D[n] > 0, D2[n + 1] > 0,
           \A i \in 0 .. n : D2[i] = D[i], \A i \in 1 .. n : T2[i] = T[i],
           \A p \in ToSet(d2) : p \in ToSet(d) \/ p = n + 1
    PROVE  MemoryOk(D2, n + 1, T2, s, d2, count, t, u)
<1>1. /\ count = Len(s) /\ count < MaxStatic /\ s = <<>> /\ t = Epoch
      /\ \A p \in ToSet(d) : p \in 1 .. n /\ Tog(D, p, n)
  BY Zenon DEF MemoryOk
<1>2. PICK k \in 1 .. n : ~(D[k - 1] > 0) /\ Tog(D, k, n) /\ u = T[k]
  BY Zenon DEF MemoryOk
<1>3. ASSUME NEW p \in 1 .. n, Tog(D, p, n) PROVE Tog(D2, p, n + 1)
  BY <1>3, TogNext
<1>4. Tog(D2, n + 1, n + 1)
  BY DEF Tog
<1>5. ASSUME NEW p \in ToSet(d2) PROVE p \in 1 .. n + 1 /\ Tog(D2, p, n + 1)
  <2>1. CASE p = n + 1
    BY <1>4, <2>1
  <2>2. CASE p \in ToSet(d)
    <3>1. p \in 1 .. n /\ Tog(D, p, n)
      BY <1>1, <2>2
    <3> QED BY <1>3, <3>1
  <2> QED BY <2>1, <2>2
<1>6. k \in 1 .. n + 1 /\ ~(D2[k - 1] > 0) /\ Tog(D2, k, n + 1) /\ u = T2[k]
  <2>1. k \in 1 .. n + 1 /\ k - 1 \in 0 .. n
    OBVIOUS
  <2> QED BY <1>2, <1>3, <2>1
<1>7. \E j \in 1 .. n + 1 : ~(D2[j - 1] > 0) /\ Tog(D2, j, n + 1) /\ u = T2[j]
  BY <1>6
<1> QED BY <1>1, <1>5, <1>7, EmptyPart DEF MemoryOk

(* A static command for which there was room.                              *)
LEMMA RoomIsOk ==
    ASSUME NEW D, NEW D2, NEW n \in Nat, NEW T, NEW T2, NEW s \in Seq(Nat), NEW d, NEW count, NEW t, NEW u,
           MemoryOk(D, n, T, s, d, count, t, u), ~(D[n] > 0), ~(D2[n + 1] > 0),
           \A i \in 0 .. n : D2[i] = D[i], \A i \in 1 .. n : T2[i] = T[i] /\ T[i] # Epoch,
           (count + 1) % MaxStatic # 0
    PROVE  MemoryOk(D2, n + 1, T2, Append(s, n + 1), d, count + 1, Stamp(t, T2[n + 1]), u)
<1> DEFINE c == Append(s, n + 1)
<1>1. /\ c \in Seq(Nat) /\ c # <<>> /\ Len(c) = Len(s) + 1 /\ Len(s) \in Nat
      /\ \A j \in 1 .. Len(s) : c[j] = s[j]
      /\ c[Len(s) + 1] = n + 1
  BY AppendIs, LenProperties
<1>2. ToSet(c) = ToSet(s) \cup {n + 1}
  BY AppendSet
<1>3. /\ count = Len(s) /\ count < MaxStatic /\ d = <<>>
      /\ IF s = <<>> THEN t = Epoch ELSE t = T[s[1]]
      /\ \A p \in ToSet(s) : p \in 1 .. n /\ Tog(D, p, n)
  BY Zenon DEF MemoryOk
<1>4. count + 1 < MaxStatic
  <2>1. count + 1 \in 1 .. MaxStatic
    BY <1>1, <1>3, MaxStaticAssumption
  <2>2. count + 1 # MaxStatic
    BY <2>1, FullWhen, MaxStaticAssumption
  <2> QED BY <2>1, <2>2, MaxStaticAssumption
<1>5. ASSUME NEW p \in ToSet(c) PROVE p \in 1 .. n + 1 /\ Tog(D2, p, n + 1)
  <2>1. CASE p = n + 1
    BY <2>1 DEF Tog
  <2>2. CASE p \in ToSet(s)
    <3>1. p \in 1 .. n /\ Tog(D, p, n)
      BY <1>3, <2>2
    <3> QED BY <3>1, TogNext
  <2> QED BY <1>2, <2>1, <2>2
<1>6. Stamp(t, T2[n + 1]) = T2[c[1]]
  <2>1. CASE s = <<>>
    <3>1. c[1] = n + 1
      BY <1>1, <2>1
    <3> QED BY <1>3, <2>1, <3>1 DEF Stamp
  <2>2. CASE s # <<>>
    <3>1. 1 \in 1 .. Len(s)
      BY <1>1, <2>2
    <3>2. c[1] = s[1] /\ s[1] \in ToSet(s)
      BY <1>1, <3>1 DEF ToSet
    <3>3. s[1] \in 1 .. n
      BY <1>3, <3>2
    <3>4. t = T[s[1]] /\ t # Epoch
      BY <1>3, <2>2, <3>3
    <3> QED BY <3>2, <3>3, <3>4 DEF Stamp
  <2> QED BY <2>1, <2>2
<1> HIDE DEF c
<1>7. count + 1 = Len(c)
  BY <1>1, <1>3
<1> QED BY <1>1, <1>3, <1>4, <1>5, <1>6, <1>7, EmptyPart DEF MemoryOk, c

-----------------------------------------------------------------------------
(* The manager and the console while all files open.                       *)
Good(D, n, C, T, dead, m, con) ==
    /\ MemoryOk(D, n, T, m.static_block_task, m.dynamic_block_task, m.task_count,
                m.static_block_timestamp, m.dynamic_block_timestamp)
    /\ BlocksOk(D, n, C, T, dead, con, ToSet(m.static_block_task) \cup ToSet(m.dynamic_block_task))

(* The same, member by member.                                             *)
LEMMA GoodM ==
    ASSUME NEW D, NEW n, NEW C, NEW T, NEW dead, NEW con,
           NEW s, NEW d, NEW level, NEW count, NEW t, NEW u
    PROVE  Good(D, n, C, T, dead, M(s, d, level, count, t, u), con) <=>
             /\ MemoryOk(D, n, T, s, d, count, t, u)
             /\ BlocksOk(D, n, C, T, dead, con, ToSet(s) \cup ToSet(d))
<1> DEFINE m == M(s, d, level, count, t, u)
<1>1. /\ m.static_block_task = s /\ m.dynamic_block_task = d
      /\ m.task_count = count
      /\ m.static_block_timestamp = t /\ m.dynamic_block_timestamp = u
  BY DEF M
<1> HIDE DEF m
<1> QED BY <1>1, Zenon DEF Good, m

(* What it means that the commands are held once.                          *)
LEMMA OnceGives ==
    ASSUME NEW s, NEW d, NEW con, NEW C, Once(s, d, con, C), Len(con) \in Nat
    PROVE  /\ Increasing(s) /\ Increasing(d) /\ ToSet(s) \subseteq C /\ ToSet(d) \subseteq C
           /\ \A q \in C : \/ q \in ToSet(s) \cup ToSet(d)
                           \/ \E b \in 1 .. Len(con) : q \in ToSet(con[b].commands)
<1> DEFINE P == Part(s, d, con)
           L == Len(con)
<1>1. /\ \A x : x \in C <=> \E b \in -1 .. L : x \in ToSet(P[b])
      /\ \A b \in -1 .. L : Increasing(P[b])
  BY DEF Once, Fair
<1>2. \A b \in -1 .. L : P[b] = IF b = 0 THEN s ELSE IF b = -1 THEN d ELSE con[b].commands
  BY DEF Part
<1>3. 0 \in -1 .. L /\ -1 \in -1 .. L /\ 0 # -1 /\ \A b \in -1 .. L : b # 0 /\ b # -1 => b \in 1 .. L
  OBVIOUS
<1> HIDE DEF P
<1>4. P[0] = s /\ P[-1] = d
  BY <1>2, <1>3
<1>5. ASSUME NEW q \in C, q \notin ToSet(s), q \notin ToSet(d)
      PROVE  \E b \in 1 .. L : q \in ToSet(con[b].commands)
  <2>1. PICK b \in -1 .. L : q \in ToSet(P[b])
    BY <1>1
  <2>2. b # 0 /\ b # -1
    BY <1>4, <1>5, <2>1
  <2> QED BY <1>2, <1>3, <2>1, <2>2
<1> QED BY <1>1, <1>3, <1>4, <1>5

(* A call whose manager and blocks are good.                               *)
GoodCall(D, n, C, T, dead, r, con) == Good(D, n, C, T, dead, r.manager, con \o r.blocks)

(* That of a call that writes nothing.                                     *)
LEMMA GoodNone ==
    ASSUME NEW D, NEW n, NEW C, NEW T, NEW dead, NEW con \in Seq(Block), NEW m,
           Good(D, n, C, T, dead, m, con)
    PROVE  GoodCall(D, n, C, T, dead, Call(m, <<>>), con)
<1>1. con \o <<>> = con
  BY NoBlock
<1>2. Call(m, <<>>).manager = m /\ Call(m, <<>>).blocks = <<>>
  BY DEF Call
<1> QED BY <1>1, <1>2 DEF GoodCall

(* That of a call that empties the memory and writes one block.            *)
LEMMA GoodOne ==
    ASSUME NEW D, NEW n, NEW C, NEW T, NEW D2, NEW n2, NEW C2, NEW T2, NEW dead2,
           Later(D, n, C, T, FALSE, D2, n2, C2, T2, dead2),
           NEW con \in Seq(Block), NEW rest, BlocksOk(D, n, C, T, FALSE, con, rest),
           NEW c \in Seq(Nat), NEW x \in Nat,
           BlockOk(D2, n2, C2, T2, dead2, [commands |-> c, second |-> x]),
           \A p \in ToSet(c) : p \in rest \/ (p \in Nat /\ p > n),
           NEW level, NEW u, MemoryOk(D2, n2, T2, <<>>, <<>>, 0, Epoch, u)
    PROVE  GoodCall(D2, n2, C2, T2, dead2,
                    Call(M(<<>>, <<>>, level, 0, Epoch, u), <<[commands |-> c, second |-> x]>>), con)
<1> DEFINE e == [commands |-> c, second |-> x]
           m == M(<<>>, <<>>, level, 0, Epoch, u)
<1>1. e \in Block /\ e.commands = c
  BY DEF Block
<1> HIDE DEF e
<1>2. BlocksOk(D2, n2, C2, T2, dead2, con \o <<e>>, {})
  BY <1>1, BlocksAdd DEF e
<1>3. ToSet(<<>>) \cup ToSet(<<>>) = {}
  BY EmptyPart
<1>4. Good(D2, n2, C2, T2, dead2, m, con \o <<e>>)
  BY <1>2, <1>3, GoodM
<1>5. Call(m, <<e>>).manager = m /\ Call(m, <<e>>).blocks = <<e>>
  BY DEF Call
<1> HIDE DEF m
<1>6. GoodCall(D2, n2, C2, T2, dead2, Call(m, <<e>>), con)
  BY <1>4, <1>5 DEF GoodCall
<1> QED BY <1>6 DEF m, e

(* A call that writes nothing, with a manager that is good.                *)
LEMMA GoodStays ==
    ASSUME NEW D, NEW n, NEW C, NEW T, NEW D2, NEW n2, NEW C2, NEW T2,
           Later(D, n, C, T, FALSE, D2, n2, C2, T2, FALSE),
           NEW con \in Seq(Block), NEW rest, BlocksOk(D, n, C, T, FALSE, con, rest),
           NEW s, NEW d, NEW level, NEW count, NEW t, NEW u,
           \A p \in ToSet(s) \cup ToSet(d) : p \in rest \/ (p \in Nat /\ p > n),
           MemoryOk(D2, n2, T2, s, d, count, t, u)
    PROVE  GoodCall(D2, n2, C2, T2, FALSE, Call(M(s, d, level, count, t, u), <<>>), con)
<1> DEFINE rest2 == ToSet(s) \cup ToSet(d)
<1>1. BlocksOk(D2, n2, C2, T2, FALSE, con, rest2)
  <2> DEFINE no == FALSE
  <2>1. \A p \in rest2 : p \in rest \/ (p \in Nat /\ p > n)
    OBVIOUS
  <2>2. Later(D, n, C, T, no, D2, n2, C2, T2, no) /\ BlocksOk(D, n, C, T, no, con, rest)
    OBVIOUS
  <2> HIDE DEF rest2, no
  <2>3. BlocksOk(D2, n2, C2, T2, no, con, rest2)
    BY <2>1, <2>2, BlocksStay
  <2> QED BY <2>3 DEF no
<1>2. Good(D2, n2, C2, T2, FALSE, M(s, d, level, count, t, u), con)
  BY <1>1, GoodM
<1> QED BY <1>2, GoodNone

(* A static command.                                                       *)
LEMMA GoodAddStatic ==
    ASSUME NEW D, NEW n \in Nat, NEW C \in SUBSET (1 .. n), NEW T, NEW D2, NEW T2, NEW con,
           NEW s, NEW d, NEW level, NEW count, NEW t, NEW u, NEW m, NEW now \in Nat,
           NEW opens, opens,
           m = M(s, d, level, count, t, u), Holds(m, con, C), Good(D, n, C, T, FALSE, m, con),
           Later(D, n, C, T, FALSE, D2, n + 1, C \cup {n + 1}, T2, FALSE),
           ~(D[n] > 0), ~(D2[n + 1] > 0), T2[n + 1] = now, \A i \in 1 .. n : T[i] # Epoch
    PROVE  GoodCall(D2, n + 1, C \cup {n + 1}, T2, FALSE, AddStatic(m, n + 1, now, opens), con)
<1> DEFINE c == Append(s, n + 1)
           x == Stamp(t, now)
           C2 == C \cup {n + 1}
<1>1. /\ s \in Seq(Nat) /\ d \in Seq(Nat) /\ count \in Nat /\ t \in Nat /\ u \in Nat
      /\ con \in Seq(Block) /\ Once(s, d, con, C) /\ Len(con) \in Nat
  BY HoldsM, LenProperties
<1>2. MemoryOk(D, n, T, s, d, count, t, u) /\ BlocksOk(D, n, C, T, FALSE, con, ToSet(s) \cup ToSet(d))
  BY GoodM
<1>3. d = <<>> /\ ToSet(d) = {}
  BY <1>2, EmptyPart DEF MemoryOk
<1>4. Increasing(s) /\ ToSet(s) \subseteq C
  BY <1>1, OnceGives
<1>5. AddStatic(m, n + 1, now, opens) = Added((count + 1) % MaxStatic = 0 /\ opens, c, d, level, count, x, u)
  <2>1. n + 1 \in Nat
    OBVIOUS
  <2>2. m = M(s, d, level, count, t, u) /\ n \in Nat
    OBVIOUS
  <2> HIDE DEF c, x
  <2> QED BY ONLY <1>1, <2>1, <2>2, AddStaticIs DEF c, x
<1>6. c \in Seq(Nat) /\ x \in Nat /\ ToSet(c) = ToSet(s) \cup {n + 1}
  BY <1>1, AppendIs, AppendSet DEF Stamp
<1>7. \A p \in ToSet(c) : p \in ToSet(s) \cup ToSet(d) \/ (p \in Nat /\ p > n)
  <2>1. n + 1 \in Nat /\ n + 1 > n
    OBVIOUS
  <2> QED BY <1>6, <2>1
<1>8. /\ \A i \in 0 .. n : D2[i] = D[i]
      /\ \A i \in 1 .. n : T2[i] = T[i]
  BY DEF Later
<1>9. CASE (count + 1) % MaxStatic = 0
  <2> DEFINE e == [commands |-> c, second |-> x]
  <2>1. AddStatic(m, n + 1, now, opens) = Call(M(<<>>, d, level, 0, Epoch, u), <<e>>)
    BY <1>5, <1>9 DEF Added
  <2>2. BlockOk(D2, n + 1, C2, T2, FALSE, e)
    <3>1. e.commands = c /\ e.second = x
      OBVIOUS
    <3> HIDE DEF e
    <3> QED BY <1>1, <1>2, <1>4, <1>9, <3>1, FullIsOk
  <2>3. MemoryOk(D2, n + 1, T2, <<>>, <<>>, 0, Epoch, u)
    BY NothingIsOk
  <2> HIDE DEF c, x
  <2>4. GoodCall(D2, n + 1, C2, T2, FALSE, Call(M(<<>>, <<>>, level, 0, Epoch, u), <<e>>), con)
    BY <1>1, <1>2, <1>6, <1>7, <2>2, <2>3, GoodOne
  <2> QED BY <1>3, <2>1, <2>4
<1>10. CASE (count + 1) % MaxStatic # 0
  <2>1. AddStatic(m, n + 1, now, opens) = Call(M(c, d, level, count + 1, x, u), <<>>)
    BY <1>5, <1>10 DEF Added
  <2>2. MemoryOk(D2, n + 1, T2, c, d, count + 1, x, u)
    BY <1>1, <1>2, <1>8, <1>10, RoomIsOk
  <2>3. \A p \in ToSet(c) \cup ToSet(d) : p \in ToSet(s) \cup ToSet(d) \/ (p \in Nat /\ p > n)
    BY <1>3, <1>7
  <2> HIDE DEF c, x
  <2>4. GoodCall(D2, n + 1, C2, T2, FALSE, Call(M(c, d, level, count + 1, x, u), <<>>), con)
    BY <1>1, <1>2, <2>2, <2>3, GoodStays
  <2> QED BY <2>1, <2>4
<1> QED BY <1>9, <1>10

(* add_task while all files open.                                          *)
LEMMA GoodAddTask ==
    ASSUME NEW D, NEW n \in Nat, NEW C \in SUBSET (1 .. n), NEW T, NEW D2, NEW C2, NEW T2, NEW con,
           NEW s, NEW d, NEW level, NEW count, NEW t, NEW u, NEW m, NEW now \in Nat,
           NEW opens, opens[1], opens[2], NEW task,
           m = M(s, d, level, count, t, u), Holds(m, con, C), Good(D, n, C, T, FALSE, m, con),
           Later(D, n, C, T, FALSE, D2, n + 1, C2, T2, FALSE),
           level = D[n], D2[n + 1] = After(level, task),
           C2 = IF Brace(task, level) THEN C ELSE C \cup {n + 1},
           T2[n + 1] = now, \A i \in 1 .. n : T[i] # Epoch
    PROVE  GoodCall(D2, n + 1, C2, T2, FALSE, add_task(m, task, n + 1, now, opens), con)
<1>1. /\ s \in Seq(Nat) /\ d \in Seq(Nat) /\ level \in Nat /\ count \in Nat /\ t \in Nat /\ u \in Nat
      /\ con \in Seq(Block) /\ Once(s, d, con, C) /\ Len(con) \in Nat
  BY HoldsM, LenProperties
<1> DEFINE rest == ToSet(s) \cup ToSet(d)
<1>2. MemoryOk(D, n, T, s, d, count, t, u) /\ BlocksOk(D, n, C, T, FALSE, con, rest)
  BY GoodM
<1>3. /\ count = Len(s)
      /\ IF level > 0 THEN s = <<>> ELSE d = <<>>
      /\ IF s = <<>> THEN t = Epoch ELSE t = T[s[1]]
  BY <1>2, Zenon DEF MemoryOk
<1>4. /\ Increasing(s) /\ Increasing(d) /\ ToSet(s) \subseteq C /\ ToSet(d) \subseteq C
      /\ \A q \in C : q \in rest \/ \E b \in 1 .. Len(con) : q \in ToSet(con[b].commands)
  BY <1>1, OnceGives
<1>5. /\ \A i \in 0 .. n : D2[i] = D[i]
      /\ \A i \in 1 .. n : T2[i] = T[i]
  BY DEF Later
<1>6. n + 1 \in Nat /\ n + 1 > n /\ (n + 1) - 1 = n /\ n + 1 # 0
  OBVIOUS
<1>7. s = <<>> => ToSet(s) = {} /\ rest = ToSet(d) /\ count = 0
  BY <1>3, EmptyPart
<1>8. d = <<>> => ToSet(d) = {} /\ rest = ToSet(s)
  BY EmptyPart
<1> HIDE DEF rest
<1>9. CASE task = LeftBrace /\ level > 0
  <2>1. add_task(m, task, n + 1, now, opens) = OpenBracket(m, now, opens)
    BY <1>9, BracesDiffer DEF add_task
  <2>2. OpenBracket(m, now, opens) = Call(M(s, d, level + 1, count, t, u), <<>>)
    BY <1>1, <1>9, OpenInside
  <2>3. D2[n + 1] > 0
    BY <1>1, <1>9, BracesDiffer DEF After
  <2>4. MemoryOk(D2, n + 1, T2, s, d, count, t, u)
    BY <1>2, <1>5, <1>9, <2>3, InsideIsOk
  <2>5. \A p \in ToSet(s) \cup ToSet(d) : p \in rest \/ (p \in Nat /\ p > n)
    BY DEF rest
  <2>6. GoodCall(D2, n + 1, C2, T2, FALSE, Call(M(s, d, level + 1, count, t, u), <<>>), con)
    BY <1>1, <1>2, <1>6, <2>4, <2>5, GoodStays
  <2> QED BY <2>1, <2>2, <2>6
<1>10. CASE task = LeftBrace /\ level = 0
  <2>1. add_task(m, task, n + 1, now, opens) = OpenBracket(m, now, opens)
    BY <1>10, BracesDiffer DEF add_task
  <2>2. OpenBracket(m, now, opens) = Opened(s # <<>> /\ opens[1], s, d, count, t, now)
    <3>1. m = M(s, d, 0, count, t, u)
      BY <1>10
    <3> QED BY ONLY <3>1, OpenOutside
  <2>3. D2[n + 1] = 1 /\ C2 = C /\ d = <<>>
    BY <1>3, <1>10, BracesDiffer DEF After, Brace
  <2>4. MemoryOk(D2, n + 1, T2, <<>>, <<>>, 0, Epoch, now)
    <3>1. ~(D2[n] > 0)
      <4>1. n \in 0 .. n /\ D[n] = 0
        BY <1>10
      <4>2. D2[n] = D[n]
        BY ONLY <1>5, <4>1
      <4> QED BY <4>1, <4>2
    <3>2. ~(D2[(n + 1) - 1] > 0)
      BY <1>6, <3>1
    <3> HIDE DEF rest
    <3>3. T2[n + 1] = now
      OBVIOUS
    <3> QED BY ONLY <1>6, <3>2, <3>3, NothingIsOk
  <2>5. CASE s # <<>>
    <3> DEFINE e == [commands |-> s, second |-> t]
    <3>1. count # 0
      BY <1>1, <1>3, <2>5
    <3>2. OpenBracket(m, now, opens) = Call(M(<<>>, <<>>, 1, 0, Epoch, now), <<e>>)
      BY <2>2, <2>3, <2>5, <3>1 DEF Opened
    <3>3. BlockOk(D2, n + 1, C, T2, FALSE, e)
      <4>1. e.commands = s /\ e.second = t
        OBVIOUS
      <4>2. BlocksOk(D, n, C, T, FALSE, con, ToSet(s))
        BY <1>2, <1>8, <2>3
      <4>3. \A q \in C : q \in ToSet(s) \/ \E b \in 1 .. Len(con) : q \in ToSet(con[b].commands)
        <5>1. rest = ToSet(s)
          BY <1>8, <2>3
        <5> QED BY <1>4, <5>1, Zenon
      <4>4. D2[n + 1] > 0
        BY <2>3
      <4>5. Later(D, n, C, T, FALSE, D2, n + 1, C, T2, FALSE)
        BY <2>3
      <4> HIDE DEF e
      <4> QED BY <1>1, <1>2, <1>4, <1>6, <2>5, <4>1, <4>2, <4>3, <4>4, <4>5, StaticIsOk
    <3>4. \A p \in ToSet(s) : p \in rest \/ (p \in Nat /\ p > n)
      BY <1>8, <2>3
    <3>5. Later(D, n, C, T, FALSE, D2, n + 1, C, T2, FALSE)
      BY <2>3
    <3>6. GoodCall(D2, n + 1, C, T2, FALSE, Call(M(<<>>, <<>>, 1, 0, Epoch, now), <<e>>), con)
      BY <1>1, <1>2, <2>4, <3>3, <3>4, <3>5, GoodOne
    <3> QED BY <2>1, <2>3, <3>2, <3>6
  <2>6. CASE s = <<>>
    <3>1. OpenBracket(m, now, opens) = Call(M(<<>>, <<>>, 1, 0, Epoch, now), <<>>)
      BY <1>3, <1>7, <2>2, <2>3, <2>6 DEF Opened
    <3>2. \A p \in ToSet(<<>>) \cup ToSet(<<>>) : p \in rest \/ (p \in Nat /\ p > n)
      BY EmptyPart
    <3>3. GoodCall(D2, n + 1, C2, T2, FALSE, Call(M(<<>>, <<>>, 1, 0, Epoch, now), <<>>), con)
      BY <1>1, <1>2, <2>4, <3>2, GoodStays
    <3> QED BY <2>1, <3>1, <3>3
  <2> QED BY <2>5, <2>6
<1>11. CASE task = RightBrace /\ level > 1
  <2>1. add_task(m, task, n + 1, now, opens) = CloseBracket(m, n + 1, now, opens)
    BY <1>11, BracesDiffer DEF add_task
  <2>2. CloseBracket(m, n + 1, now, opens) = Call(M(s, d, level - 1, count, t, u), <<>>)
    BY <1>1, <1>6, <1>11, CloseInside
  <2>3. D2[n + 1] > 0
    BY <1>1, <1>11, BracesDiffer DEF After
  <2>4. MemoryOk(D2, n + 1, T2, s, d, count, t, u)
    <3>1. D[n] > 0
      BY <1>1, <1>11
    <3> QED BY <1>2, <1>5, <2>3, <3>1, InsideIsOk
  <2>5. \A p \in ToSet(s) \cup ToSet(d) : p \in rest \/ (p \in Nat /\ p > n)
    BY DEF rest
  <2>6. GoodCall(D2, n + 1, C2, T2, FALSE, Call(M(s, d, level - 1, count, t, u), <<>>), con)
    BY <1>1, <1>2, <1>6, <2>4, <2>5, GoodStays
  <2> QED BY <2>1, <2>2, <2>6
<1>12. CASE task = RightBrace /\ level = 1
  <2>1. add_task(m, task, n + 1, now, opens) = CloseBracket(m, n + 1, now, opens)
    BY <1>12, BracesDiffer DEF add_task
  <2>2. CloseBracket(m, n + 1, now, opens) =
             IF d # <<>> /\ opens[1]
             THEN Call(IF count # 0 THEN M(s, <<>>, 0, 0, Epoch, u) ELSE M(s, <<>>, 0, 0, t, Epoch),
                       <<[commands |-> d, second |-> IF count # 0 THEN t ELSE u]>>)
             ELSE Call(M(s, d, 0, count, t, u), <<>>)
    BY <1>12, CloseLast
  <2>3. D2[n + 1] = 0 /\ C2 = C /\ s = <<>> /\ count = 0 /\ t = Epoch
    BY <1>3, <1>7, <1>12, BracesDiffer DEF After, Brace
  <2>4. ASSUME NEW v PROVE MemoryOk(D2, n + 1, T2, <<>>, <<>>, 0, Epoch, v)
    BY <1>6, <2>3, NothingIsOk
  <2>5. CASE d # <<>>
    <3> DEFINE e == [commands |-> d, second |-> u]
    <3>2. CloseBracket(m, n + 1, now, opens) = Call(M(<<>>, <<>>, 0, 0, Epoch, Epoch), <<e>>)
      BY <2>2, <2>3, <2>5
    <3>3. BlockOk(D2, n + 1, C, T2, FALSE, e)
      <4>1. e.commands = d /\ e.second = u
        OBVIOUS
      <4>2. BlocksOk(D, n, C, T, FALSE, con, ToSet(d))
        BY <1>2, <1>7, <2>3
      <4>3. \A q \in C : q \in ToSet(d) \/ \E b \in 1 .. Len(con) : q \in ToSet(con[b].commands)
        <5>1. rest = ToSet(d)
          BY <1>7, <2>3
        <5> QED BY <1>4, <5>1, Zenon
      <4>4. ~(D2[n + 1] > 0)
        BY <2>3
      <4>5. Later(D, n, C, T, FALSE, D2, n + 1, C, T2, FALSE)
        BY <2>3
      <4> HIDE DEF e
      <4> QED BY <1>1, <1>2, <1>4, <1>6, <2>5, <4>1, <4>2, <4>3, <4>4, <4>5, DynamicIsOk
    <3>4. \A p \in ToSet(d) : p \in rest \/ (p \in Nat /\ p > n)
      BY <1>7, <2>3
    <3>5. Later(D, n, C, T, FALSE, D2, n + 1, C, T2, FALSE)
      BY <2>3
    <3>6. GoodCall(D2, n + 1, C, T2, FALSE, Call(M(<<>>, <<>>, 0, 0, Epoch, Epoch), <<e>>), con)
      BY <1>1, <1>2, <2>4, <3>3, <3>4, <3>5, GoodOne
    <3> QED BY <2>1, <2>3, <3>2, <3>6
  <2>6. CASE d = <<>>
    <3>1. CloseBracket(m, n + 1, now, opens) = Call(M(<<>>, <<>>, 0, 0, Epoch, u), <<>>)
      BY <2>2, <2>3, <2>6
    <3>2. \A p \in ToSet(<<>>) \cup ToSet(<<>>) : p \in rest \/ (p \in Nat /\ p > n)
      BY EmptyPart
    <3>3. GoodCall(D2, n + 1, C2, T2, FALSE, Call(M(<<>>, <<>>, 0, 0, Epoch, u), <<>>), con)
      BY <1>1, <1>2, <2>4, <3>2, GoodStays
    <3> QED BY <2>1, <3>1, <3>3
  <2> QED BY <2>5, <2>6
<1>13. CASE task = RightBrace /\ level = 0
  <2>1. add_task(m, task, n + 1, now, opens) = CloseBracket(m, n + 1, now, opens)
    BY <1>13, BracesDiffer DEF add_task
  <2>2. ~(D2[n + 1] > 0) /\ ~(D[n] > 0) /\ C2 = C \cup {n + 1} /\ d = <<>>
    BY <1>3, <1>13, BracesDiffer DEF After, Brace
  <2> DEFINE r == AddStatic(m, n + 1, now, opens[2])
  <2>3. GoodCall(D2, n + 1, C \cup {n + 1}, T2, FALSE, r, con)
    <3>1. Later(D, n, C, T, FALSE, D2, n + 1, C \cup {n + 1}, T2, FALSE)
      BY <2>2
    <3> QED BY <2>2, <3>1, GoodAddStatic
  <2>4. CloseBracket(m, n + 1, now, opens) = r
    <3>1. process_tasks(m, "dynamic_block_task", opens[1]) = Call(m, <<>>)
      <4>1. m["dynamic_block_task"] = <<>>
        BY <2>2, Members
      <4> QED BY <4>1 DEF process_tasks, Quiet, Call
    <3>2. r = Added((count + 1) % MaxStatic = 0 /\ opens[2], Append(s, n + 1), d, level, count, Stamp(t, now), u)
      <4>1. m = M(s, d, level, count, t, u) /\ n \in Nat
        OBVIOUS
      <4> QED BY ONLY <1>1, <1>6, <4>1, AddStaticIs
    <3>3. r = Call(r.manager, r.blocks) /\ r.blocks \in Seq(Block)
      <4>1. [commands |-> Append(s, n + 1), second |-> Stamp(t, now)] \in Block
        BY <1>1, <1>6, AppendIs DEF Block, Stamp
      <4> DEFINE e == [commands |-> Append(s, n + 1), second |-> Stamp(t, now)]
                 a == Append(s, n + 1)
                 x == Stamp(t, now)
      <4>2. <<e>> \in Seq(Block) /\ <<>> \in Seq(Block)
        BY <4>1
      <4> HIDE DEF r, a, x
      <4> QED BY <3>2, <4>2 DEF Added, Call, a, x
    <3> DEFINE m2 == r.manager
               b1 == <<>>
               b2 == r.blocks
    <3>4. CloseBracket(m, n + 1, now, opens) = Call(m2, b1 \o b2)
      <4>1. m = M(s, d, 0, count, t, u)
        BY <1>13
      <4>2. AddStatic(m, n + 1, now, opens[2]) = Call(m2, b2)
        BY <3>3
      <4>3. process_tasks(m, "dynamic_block_task", opens[1]) = Call(m, b1)
        BY <3>1
      <4> HIDE DEF r, m2, b2, b1
      <4> QED BY ONLY <4>1, <4>2, <4>3, CloseAlone
    <3>5. b1 \o b2 = b2
      <4> HIDE DEF r
      <4> QED BY <3>3, ConcatEmptySeq
    <3> HIDE DEF r
    <3> QED BY <3>3, <3>4, <3>5
  <2> HIDE DEF r
  <2> QED BY <2>1, <2>2, <2>3, <2>4
<1>14. CASE task # LeftBrace /\ task # RightBrace
  <2>1. add_task(m, task, n + 1, now, opens) = AddCommand(m, n + 1, now, opens)
    BY <1>14 DEF add_task
  <2>2. D2[n + 1] = level /\ C2 = C \cup {n + 1}
    BY <1>14 DEF After, Brace
  <2>3. CASE level > 0
    <3> DEFINE a == Append(d, n + 1)
    <3>1. AddCommand(m, n + 1, now, opens) = Call(M(s, a, level, count, t, u), <<>>)
      BY <1>1, <2>3, CommandInside
    <3>2. ToSet(a) = ToSet(d) \cup {n + 1}
      BY <1>1, <1>6, AppendSet
    <3> HIDE DEF a
    <3>3. MemoryOk(D2, n + 1, T2, s, a, count, t, u)
      BY <1>2, <1>5, <2>2, <2>3, <3>2, InsideIsOk
    <3>4. \A p \in ToSet(s) \cup ToSet(a) : p \in rest \/ (p \in Nat /\ p > n)
      BY <1>6, <3>2 DEF rest
    <3>5. GoodCall(D2, n + 1, C2, T2, FALSE, Call(M(s, a, level, count, t, u), <<>>), con)
      BY <1>1, <1>2, <1>6, <3>3, <3>4, GoodStays
    <3> QED BY <2>1, <3>1, <3>5
  <2>4. CASE level = 0
    <3> DEFINE r == AddStatic(m, n + 1, now, opens[1])
    <3>1. AddCommand(m, n + 1, now, opens) = r
      <4>1. m = M(s, d, 0, count, t, u)
        BY <2>4
      <4> QED BY ONLY <4>1, CommandOutside
    <3>2. Later(D, n, C, T, FALSE, D2, n + 1, C \cup {n + 1}, T2, FALSE)
      BY <2>2
    <3>3. ~(D2[n + 1] > 0) /\ ~(D[n] > 0)
      BY <2>2, <2>4
    <3>4. GoodCall(D2, n + 1, C \cup {n + 1}, T2, FALSE, r, con)
      BY <3>2, <3>3, GoodAddStatic
    <3> HIDE DEF r
    <3> QED BY <2>1, <2>2, <3>1, <3>4
  <2>5. level > 0 \/ level = 0
    BY <1>1
  <2> QED BY <2>3, <2>4, <2>5, Zenon
<1>15. level = 0 \/ level = 1 \/ level > 1
  BY <1>1
<1>16. level = 0 \/ level > 0
  BY <1>1
<1>17. CASE task = LeftBrace
  BY <1>9, <1>10, <1>16, <1>17, Zenon
<1>18. CASE task = RightBrace
  BY <1>11, <1>12, <1>13, <1>15, <1>18, Zenon
<1> QED BY <1>14, <1>17, <1>18, Zenon

(* The destructor while all files open: outside of braces nothing is left  *)
(* of the static block.                                                    *)
LEMMA GoodDestroy ==
    ASSUME NEW D, NEW n \in Nat, NEW C \in SUBSET (1 .. n), NEW T, NEW con,
           NEW s, NEW d, NEW level, NEW count, NEW t, NEW u, NEW m, NEW r, NEW opens, opens, NEW dead, dead,
           m = M(s, d, level, count, t, u), Holds(m, con, C), Good(D, n, C, T, FALSE, m, con),
           level = D[n],
           r = IF is_dynamic_block_active(m) THEN Quiet(m)
               ELSE process_tasks(m, "static_block_task", opens)
    PROVE  GoodCall(D, n, C, T, dead, r, con) /\ (~(D[n] > 0) => r.manager.static_block_task = <<>>)
<1>1. /\ s \in Seq(Nat) /\ d \in Seq(Nat) /\ level \in Nat /\ count \in Nat /\ t \in Nat /\ u \in Nat
      /\ con \in Seq(Block) /\ Once(s, d, con, C) /\ Len(con) \in Nat
  BY HoldsM, LenProperties
<1> DEFINE rest == ToSet(s) \cup ToSet(d)
<1>2. MemoryOk(D, n, T, s, d, count, t, u) /\ BlocksOk(D, n, C, T, FALSE, con, rest)
  BY GoodM
<1>3. /\ count = Len(s)
      /\ IF level > 0 THEN s = <<>> ELSE d = <<>>
  BY <1>2, Zenon DEF MemoryOk
<1>4. Increasing(s) /\ ToSet(s) \subseteq C
      /\ \A q \in C : q \in rest \/ \E b \in 1 .. Len(con) : q \in ToSet(con[b].commands)
  BY <1>1, OnceGives
<1>5. Later(D, n, C, T, FALSE, D, n, C, T, dead)
  BY DEF Later
<1>6. m.dynamic_block_nesting_level = level /\ m.static_block_task = s
  BY Members
<1>7. CASE s # <<>> /\ ~(level > 0)
  <2> DEFINE e == [commands |-> s, second |-> t]
  <2>1. ToSet(d) = {} /\ d = <<>> /\ rest = ToSet(s) /\ count # 0
    BY <1>1, <1>3, <1>7, EmptyPart
  <2> HIDE DEF rest
  <2>2. r = Call(M(<<>>, <<>>, level, 0, Epoch, u), <<e>>)
    <3>1. ~is_dynamic_block_active(m)
      BY <1>6, <1>7 DEF is_dynamic_block_active
    <3>2. process_tasks(m, "static_block_task", opens) =
             Written(s # <<>> /\ opens, m, s, M(<<>>, d, level, 0, Epoch, u),
                     M(<<>>, d, level, 0, t, Epoch), t, u, count)
      <4>1. m = M(s, d, level, count, t, u)
        OBVIOUS
      <4> QED BY ONLY <4>1, WriteStatic
    <3>3. r = Written(s # <<>> /\ opens, m, s, M(<<>>, d, level, 0, Epoch, u),
                     M(<<>>, d, level, 0, t, Epoch), t, u, count)
      BY <3>1, <3>2
    <3> QED BY <1>7, <2>1, <3>3 DEF Written, Call
  <2>3. BlockOk(D, n, C, T, dead, e)
    <3>1. e.commands = s /\ e.second = t
      OBVIOUS
    <3>2. BlocksOk(D, n, C, T, FALSE, con, ToSet(s))
      BY <1>2, <2>1
    <3>3. \A q \in C : q \in ToSet(s) \/ \E b \in 1 .. Len(con) : q \in ToSet(con[b].commands)
      BY <1>4, <2>1, Zenon
    <3> HIDE DEF e
    <3> QED BY <1>1, <1>2, <1>4, <1>5, <1>7, <3>1, <3>2, <3>3, StaticIsOk
  <2>4. MemoryOk(D, n, T, <<>>, <<>>, 0, Epoch, u)
    <3>1. ~(D[n] > 0)
      BY <1>7
    <3> QED BY <3>1, NothingIsOk
  <2>5. \A p \in ToSet(s) : p \in rest \/ (p \in Nat /\ p > n)
    BY <2>1
  <2>6. GoodCall(D, n, C, T, dead, Call(M(<<>>, <<>>, level, 0, Epoch, u), <<e>>), con)
    BY <1>1, <1>2, <1>5, <2>3, <2>4, <2>5, GoodOne
  <2>7. r.manager.static_block_task = <<>>
    <3> HIDE DEF e
    <3>1. r.manager = M(<<>>, <<>>, level, 0, Epoch, u)
      BY ONLY <2>2 DEF Call
    <3> QED BY ONLY <3>1 DEF M
  <2> QED BY <2>2, <2>6, <2>7
<1>8. CASE s = <<>> \/ level > 0
  <2>1. s = <<>>
    BY <1>3, <1>8
  <2>2. r = Call(m, <<>>)
    <3>1. m["static_block_task"] = <<>>
      BY <1>6, <2>1
    <3>2. process_tasks(m, "static_block_task", opens) = Call(m, <<>>)
      BY <3>1 DEF process_tasks, Quiet, Call
    <3> QED BY <3>2 DEF Quiet, Call
  <2>3. BlocksOk(D, n, C, T, dead, con, rest)
    <3> DEFINE no == FALSE
    <3>1. BlocksOk(D, n, C, T, no, con, rest) /\ Later(D, n, C, T, no, D, n, C, T, dead)
      BY <1>2, <1>5
    <3>2. \A p \in rest : p \in rest \/ (p \in Nat /\ p > n)
      OBVIOUS
    <3> HIDE DEF rest, no
    <3> QED BY <3>1, <3>2, BlocksStay
  <2>4. GoodCall(D, n, C, T, dead, Call(m, <<>>), con)
    <3>1. Good(D, n, C, T, dead, m, con)
      BY <1>2, <2>3, GoodM
    <3> QED BY <1>1, <3>1, GoodNone
  <2>5. r.manager.static_block_task = <<>>
    BY ONLY <1>6, <2>1, <2>2 DEF Call
  <2> QED BY <2>2, <2>4, <2>5
<1> QED BY <1>7, <1>8

-----------------------------------------------------------------------------
(***************************************************************************)
(*               Blocks, while all files open, as an invariant             *)
(***************************************************************************)
Destroyed == pc = "destroyed"

GoodState ==
    /\ Good(Depth(lines), Len(lines), CommandsOf(lines), times, Destroyed, manager, console)
    /\ Destroyed /\ ~(Depth(lines)[Len(lines)] > 0) => manager.static_block_task = <<>>

Ticks == \A i \in 1 .. Len(times) : times[i] # Epoch

BlocksInv == OnceInv /\ Ticks /\ (~failed => GoodState)

(* It holds at the start.                                                  *)
LEMMA BlocksInvInit == Init => BlocksInv
<1> SUFFICES ASSUME Init PROVE BlocksInv
  OBVIOUS
<1>1. OnceInv
  BY OnceInvInit
<1>2. lines = <<>> /\ times = <<>> /\ console = <<>> /\ Len(lines) = 0 /\ ~Destroyed
  BY DEF Init, Destroyed
<1>3. manager = M(<<>>, <<>>, 0, 0, Epoch, Epoch)
  BY DEF Init, M
<1>4. MemoryOk(Depth(lines), 0, times, <<>>, <<>>, 0, Epoch, Epoch)
  <2>1. ~(Depth(lines)[0] > 0)
    BY <1>2, DepthDef
  <2> QED BY <2>1, NothingIsOk
<1>5. BlocksOk(Depth(lines), 0, CommandsOf(lines), times, Destroyed, console, ToSet(<<>>) \cup ToSet(<<>>))
  <2>1. Len(console) = 0
    BY <1>2
  <2> QED BY <2>1 DEF BlocksOk
<1>6. Good(Depth(lines), 0, CommandsOf(lines), times, Destroyed, manager, console)
  BY <1>3, <1>4, <1>5, GoodM
<1> QED BY <1>1, <1>2, <1>6 DEF BlocksInv, GoodState, Ticks

(* The step that reads a line keeps it.                                    *)
LEMMA BlocksInvRead ==
    ASSUME BlocksInv, NEW task \in Line, NEW delay \in Delays, NEW opens \in [1 .. 2 -> FileOpens],
           ReadLine(task, delay, opens)
    PROVE  BlocksInv'
<1> DEFINE n == Len(lines)
           now == delay + IF times = <<>> THEN 1 ELSE Last(times)
           call == add_task(manager, task, n + 1, now, opens)
           level == Depth(lines)[n]
           C == CommandsOf(lines)
<1>1. /\ lines' = Append(lines, task) /\ times' = Append(times, now)
      /\ manager' = call.manager /\ console' = console \o call.blocks
      /\ failed' = (failed \/ FALSE \in Range(opens))
      /\ pc = "reading" /\ pc' = "testing"
  BY DEF ReadLine
<1>2. /\ lines \in Seq(Line) /\ times \in Seq(Nat) /\ Len(times) = n /\ n \in Nat
      /\ failed \in BOOLEAN
  BY LenProperties DEF BlocksInv, OnceInv, TypeOK
<1>3. now \in Nat /\ now # Epoch
  <2>1. delay \in Nat
    BY EnvironmentAssumption
  <2>2. times # <<>> => Last(times) \in Nat /\ Last(times) # Epoch
    <3> SUFFICES ASSUME times # <<>> PROVE Last(times) \in Nat /\ Last(times) # Epoch
      OBVIOUS
    <3>1. Len(times) \in 1 .. Len(times)
      BY <1>2
    <3> QED BY <1>2, <3>1 DEF BlocksInv, Ticks, Last
  <2> QED BY <2>1, <2>2 DEF Epoch
<1>4. OnceInv'
  BY OnceInvRead DEF BlocksInv
<1>5. /\ times' \in Seq(Nat) /\ Len(times') = n + 1
      /\ \A i \in 1 .. n : times'[i] = times[i]
      /\ times'[n + 1] = now
  BY <1>1, <1>2, <1>3, AppendProperties
<1>6. Ticks'
  <2>1. \A i \in 1 .. n + 1 : i \in 1 .. n \/ i = n + 1
    BY <1>2
  <2> HIDE DEF now
  <2>2. \A i \in 1 .. n : times[i] # Epoch
    BY <1>2 DEF BlocksInv, Ticks
  <2>3. \A i \in 1 .. n + 1 : times'[i] # Epoch
    BY <1>3, <1>5, <2>1, <2>2
  <2> QED BY <1>5, <2>3 DEF Ticks, Epoch
<1>7. ASSUME ~failed' PROVE GoodState'
  <2>1. ~failed /\ FALSE \notin Range(opens)
    BY <1>1, <1>2, <1>7
  <2>2. opens[1] /\ opens[2]
    <3>1. opens[1] \in BOOLEAN /\ opens[2] \in BOOLEAN
      BY EnvironmentAssumption
    <3>2. opens[1] \in Range(opens) /\ opens[2] \in Range(opens)
      BY DEF Range
    <3> QED BY <2>1, <3>1, <3>2, Zenon
  <2> DEFINE D == Depth(lines)
             D2 == Depth(lines')
             C2 == CommandsOf(lines')
  <2>3. Good(D, n, C, times, FALSE, manager, console)
    <3>1. Destroyed = FALSE
      BY <1>1 DEF Destroyed
    <3> QED BY <2>1, <3>1 DEF BlocksInv, GoodState
  <2>4. /\ Len(lines') = n + 1
        /\ \A i \in 0 .. n : D2[i] = D[i]
        /\ D2[n + 1] = After(level, task)
    BY <1>1, <1>2, NextDepth
  <2>5. C2 = IF Brace(task, level) THEN C ELSE C \cup {n + 1}
    BY <1>1, <1>2, NextCommands
  <2>6. Holds(manager, console, C) /\ C \in SUBSET (1 .. n)
    BY OnceInvHolds DEF BlocksInv
  <2>7. PICK s, d, count, t, u : manager = M(s, d, level, count, t, u)
    BY OnceInvHolds DEF BlocksInv
  <2>8. Later(D, n, C, times, FALSE, D2, n + 1, C2, times', FALSE)
    <3> HIDE DEF D, D2, C, C2, n, level
    <3>1. \A q \in C2 : q \in C \/ (q > n /\ q \in 1 .. n + 1)
      BY <1>2, <2>5
    <3>2. C \subseteq C2 /\ C \subseteq 1 .. n
      BY <2>5, <2>6
    <3>3. n + 1 \in Nat /\ n <= n + 1
      BY <1>2
    <3> QED BY <1>2, <1>5, <2>4, <3>1, <3>2, <3>3 DEF Later
  <2>9. \A i \in 1 .. n : times[i] # Epoch
    BY <1>2 DEF BlocksInv, Ticks
  <2>10. GoodCall(D2, n + 1, C2, times', FALSE, call, console)
    <3> DEFINE T2 == times'
    <3>1. level = D[n] /\ n \in Nat /\ now \in Nat
      BY <1>2, <1>3
    <3>2. D2[n + 1] = After(level, task) /\ T2[n + 1] = now
      BY <1>5, <2>4
    <3>3. Later(D, n, C, times, FALSE, D2, n + 1, C2, T2, FALSE)
      BY <2>8
    <3> HIDE DEF D, D2, C, C2, n, level, now, T2
    <3>4. GoodCall(D2, n + 1, C2, T2, FALSE, add_task(manager, task, n + 1, now, opens), console)
      BY ONLY <2>2, <2>3, <2>5, <2>6, <2>7, <2>9, <3>1, <3>2, <3>3, GoodAddTask
    <3> QED BY <3>4 DEF call, T2
  <2>11. Good(D2, n + 1, C2, times', FALSE, manager', console')
    <3> HIDE DEF call
    <3> QED BY <1>1, <2>10 DEF GoodCall
  <2>12. Destroyed' = FALSE
    BY <1>1 DEF Destroyed
  <2> QED BY <2>4, <2>11, <2>12 DEF GoodState
<1> QED BY <1>4, <1>6, <1>7 DEF BlocksInv

(* The destructor keeps it.                                                *)
LEMMA BlocksInvDestroy ==
    ASSUME BlocksInv, NEW opens \in FileOpens, Destroy(opens)
    PROVE  BlocksInv'
<1> DEFINE call == IF is_dynamic_block_active(manager) THEN Quiet(manager)
                   ELSE process_tasks(manager, "static_block_task", opens)
           n == Len(lines)
           D == Depth(lines)
           C == CommandsOf(lines)
<1>1. /\ lines' = lines /\ times' = times
      /\ manager' = call.manager /\ console' = console \o call.blocks
      /\ failed' = (failed \/ ~opens) /\ pc = "idle" /\ pc' = "destroyed"
  BY DEF Destroy
<1>2. OnceInv'
  BY OnceInvDestroy DEF BlocksInv
<1>3. Ticks'
  BY <1>1 DEF BlocksInv, Ticks, Epoch
<1>4. ASSUME ~failed' PROVE GoodState'
  <2>1. ~failed /\ opens
    <3>1. failed \in BOOLEAN /\ opens \in BOOLEAN
      BY EnvironmentAssumption DEF BlocksInv, OnceInv, TypeOK
    <3> QED BY <1>1, <1>4, <3>1, Zenon
  <2>2. Good(D, n, C, times, FALSE, manager, console)
    <3>1. Destroyed = FALSE
      BY <1>1 DEF Destroyed
    <3> QED BY <2>1, <3>1 DEF BlocksInv, GoodState
  <2>3. Holds(manager, console, C) /\ C \in SUBSET (1 .. n) /\ n \in Nat
    BY OnceInvHolds DEF BlocksInv
  <2>4. PICK s, d, level, count, t, u : manager = M(s, d, level, count, t, u) /\ level = D[n]
    BY OnceInvHolds DEF BlocksInv
  <2> DEFINE yes == TRUE
  <2>5. yes /\ Destroyed' = yes
    BY <1>1 DEF Destroyed
  <2>6. GoodCall(D, n, C, times, yes, call, console)
        /\ (~(D[n] > 0) => call.manager.static_block_task = <<>>)
    <3> DEFINE m == manager
    <3>1. call = IF is_dynamic_block_active(m) THEN Quiet(m)
                 ELSE process_tasks(m, "static_block_task", opens)
      OBVIOUS
    <3> HIDE DEF call, yes, n, D, C
    <3> QED BY ONLY <2>1, <2>2, <2>3, <2>4, <2>5, <3>1, GoodDestroy
  <2> HIDE DEF call, yes, n, D, C
  <2>7. Good(D, n, C, times, yes, manager', console') /\ (~(D[n] > 0) => manager'.static_block_task = <<>>)
    BY <1>1, <2>6 DEF GoodCall
  <2> QED BY <1>1, <2>5, <2>7 DEF GoodState, n, D, C
<1> QED BY <1>2, <1>3, <1>4 DEF BlocksInv

(* All other steps leave alone what it speaks of.                          *)
LEMMA BlocksInvOther ==
    ASSUME BlocksInv, Run \/ TestStopFlag \/ EndOfInput \/ Signal \/ UNCHANGED vars
    PROVE  BlocksInv'
<1>1. /\ lines' = lines /\ times' = times /\ manager' = manager /\ console' = console
      /\ failed' = failed /\ (pc' = "destroyed" <=> pc = "destroyed")
  <2>1. CASE Run
    BY <2>1 DEF Run
  <2>2. CASE TestStopFlag
    BY <2>2 DEF TestStopFlag
  <2>3. CASE EndOfInput
    BY <2>3 DEF EndOfInput
  <2>4. CASE Signal
    <3>1. pc # "destroyed" /\ pc' # "destroyed"
      BY <2>4 DEF Signal
    <3> QED BY <2>4, <3>1 DEF Signal
  <2>5. CASE UNCHANGED vars
    BY <2>5 DEF vars
  <2> QED BY <2>1, <2>2, <2>3, <2>4, <2>5
<1>2. OnceInv'
  BY OnceInvOther DEF BlocksInv
<1>3. Ticks'
  BY <1>1 DEF BlocksInv, Ticks, Epoch
<1>4. Destroyed' = Destroyed
  BY <1>1 DEF Destroyed
<1>5. (~failed => GoodState)'
  BY <1>1, <1>4 DEF BlocksInv, GoodState
<1> QED BY <1>2, <1>3, <1>5 DEF BlocksInv

(* The three together.                                                     *)
LEMMA BlocksInvNext == BlocksInv /\ [Next]_vars => BlocksInv'
<1> SUFFICES ASSUME BlocksInv, [Next]_vars PROVE BlocksInv'
  OBVIOUS
<1>1. ASSUME NEW task \in Line, NEW delay \in Delays, NEW opens \in [1 .. 2 -> FileOpens],
             ReadLine(task, delay, opens)
      PROVE  BlocksInv'
  BY <1>1, BlocksInvRead
<1>2. ASSUME NEW opens \in FileOpens, Destroy(opens) PROVE BlocksInv'
  BY <1>2, BlocksInvDestroy
<1>3. CASE Run \/ TestStopFlag \/ EndOfInput \/ Signal \/ UNCHANGED vars
  BY <1>3, BlocksInvOther
<1> QED BY <1>1, <1>2, <1>3 DEF Next

-----------------------------------------------------------------------------
(* What GoodState says of the members.                                     *)
LEMMA GoodStateSays ==
    ASSUME BlocksInv, ~failed
    PROVE  /\ MemoryOk(Depth(lines), Len(lines), times, manager.static_block_task,
                       manager.dynamic_block_task, manager.task_count,
                       manager.static_block_timestamp, manager.dynamic_block_timestamp)
           /\ BlocksOk(Depth(lines), Len(lines), CommandsOf(lines), times, Destroyed, console,
                       ToSet(manager.static_block_task) \cup ToSet(manager.dynamic_block_task))
           /\ Destroyed /\ ~(Depth(lines)[Len(lines)] > 0) => manager.static_block_task = <<>>
BY DEF BlocksInv, GoodState, Good

(* The count of static commands, the length of their block and the kind of *)
(* block that is open agree while all files open.                          *)
THEOREM CountsDoAgree == Spec => []CountsAgree
<1>1. BlocksInv => CountsAgree
  <2> SUFFICES ASSUME BlocksInv, ~failed
               PROVE  /\ manager.task_count = Len(manager.static_block_task)
                      /\ manager.task_count < MaxStatic
                      /\ IF is_dynamic_block_active(manager) THEN manager.static_block_task = <<>>
                                                             ELSE manager.dynamic_block_task = <<>>
    BY DEF CountsAgree
  <2>1. /\ manager.task_count = Len(manager.static_block_task)
        /\ manager.task_count < MaxStatic
        /\ IF Depth(lines)[Len(lines)] > 0 THEN manager.static_block_task = <<>>
                                           ELSE manager.dynamic_block_task = <<>>
    BY GoodStateSays, Zenon DEF MemoryOk
  <2>2. is_dynamic_block_active(manager) <=> Depth(lines)[Len(lines)] > 0
    BY DEF BlocksInv, OnceInv, LevelIsDepth, is_dynamic_block_active
  <2> QED BY <2>1, <2>2
<1> QED BY <1>1, BlocksInvInit, BlocksInvNext, PTL DEF Spec

(* A block has no fewer places than commands.                              *)
LEMMA ToSetSize ==
    ASSUME NEW s \in Seq(Nat)
    PROVE  IsFiniteSet(ToSet(s)) /\ Cardinality(ToSet(s)) <= Len(s)
<1>1. Len(s) \in Nat /\ DOMAIN s = 1 .. Len(s) /\ ToSet(s) = {s[i] : i \in 1 .. Len(s)}
  BY LenProperties DEF ToSet
<1>2. s \in Surjection(1 .. Len(s), ToSet(s))
  <2>1. s \in [1 .. Len(s) -> ToSet(s)]
    BY <1>1
  <2> QED BY <1>1, <2>1 DEF Surjection
<1>3. IsFiniteSet(1 .. Len(s)) /\ Cardinality(1 .. Len(s)) = Len(s)
  <2>1. \A n \in Nat : IF 1 > n THEN 0 = n ELSE n - 1 + 1 = n
    OBVIOUS
  <2>2. ASSUME NEW n \in Nat
        PROVE  IsFiniteSet(1 .. n) /\ Cardinality(1 .. n) = n
    <3>1. 1 \in Int /\ n \in Int
      OBVIOUS
    <3>2. IsFiniteSet(1 .. n) /\ Cardinality(1 .. n) = IF 1 > n THEN 0 ELSE n - 1 + 1
      BY ONLY <3>1, FS_Interval, Zenon
    <3> QED BY ONLY <3>2, <2>1, n \in Nat
  <2> QED BY ONLY <1>1, <2>2
<1> QED BY <1>2, <1>3, FS_Surjection

(* The definitions of BulkParser in terms of the ones above.               *)
LEMMA Readings ==
    ASSUME NEW b
    PROVE  /\ \A p : InBraces(p) <=> Depth(lines)[p] > 0
           /\ \A p, q : Together(p, q) <=> Tog(Depth(lines), p, q)
           /\ First(b) = console[b].commands[1] /\ Commands(b) = console[b].commands
           /\ IsOver(b) <=> Over(Depth(lines), Len(lines), CommandsOf(lines), Destroyed, console[b])
           /\ \A k : Opens(b, k) <=> /\ Depth(lines)[First(b)] > 0 /\ ~(Depth(lines)[k - 1] > 0)
                                      /\ Tog(Depth(lines), k, First(b))
<1>1. \A p : InBraces(p) <=> Depth(lines)[p] > 0
  BY DEF InBraces
<1>2. \A p, q : Together(p, q) <=> Tog(Depth(lines), p, q)
  BY <1>1, Zenon DEF Together, Tog
<1>3. First(b) = console[b].commands[1] /\ Commands(b) = console[b].commands
  BY DEF First, Commands
<1>4. IsOver(b) <=> Over(Depth(lines), Len(lines), CommandsOf(lines), Destroyed, console[b])
  BY <1>1, <1>2, <1>3, Zenon DEF IsOver, Over, Destroyed
<1>5. ASSUME NEW k
      PROVE  Opens(b, k) <=> /\ Depth(lines)[First(b)] > 0 /\ ~(Depth(lines)[k - 1] > 0)
                             /\ Tog(Depth(lines), k, First(b))
  BY <1>1, <1>2, Zenon DEF Opens
<1> QED BY <1>1, <1>2, <1>3, <1>4, <1>5, Zenon

(* No other line than k opens the braces around a block.                   *)
LEMMA OpenedOnce ==
    ASSUME NEW D, NEW f \in Nat, NEW k \in 1 .. f, NEW l \in 1 .. f, D[f] > 0,
           ~(D[k - 1] > 0), Tog(D, k, f), ~(D[l - 1] > 0), Tog(D, l, f)
    PROVE  k = l
<1>1. ASSUME NEW i \in 1 .. f, NEW j \in 1 .. f, i < j, Tog(D, i, f), ~(D[j - 1] > 0)
      PROVE  FALSE
  <2>1. j - 1 \in i .. f /\ f \in i .. f
    BY <1>1
  <2>2. D[j - 1] > 0 <=> D[f] > 0
    BY <1>1, <2>1 DEF Tog
  <2> QED BY <1>1, <2>2
<1>2. ~(k < l) /\ ~(l < k)
  BY <1>1
<1> QED BY <1>2

(* While all files open, exactly the finished blocks are on the console,   *)
(* in order, whole, and each in the file of the second of its first        *)
(* command, if its opening brace, should it have one, came in that second. *)
THEOREM BlocksWrittenAreRight == Spec => []BlocksAreRight
<1>1. BlocksInv => BlocksAreRight
  <2> DEFINE n == Len(lines)
             D == Depth(lines)
             C == CommandsOf(lines)
             s == manager.static_block_task
             d == manager.dynamic_block_task
             blocks == 1 .. Len(console)
             rest == C \ Printed
  <2> SUFFICES ASSUME BlocksInv, ~failed
               PROVE  /\ \A a, b \in blocks : a < b => Before(Commands(a), Commands(b))
                      /\ \A b \in blocks :
                            /\ Commands(b) # <<>> /\ Increasing(Commands(b))
                            /\ \A q \in ToSet(Commands(b)) : q \in C /\ Together(First(b), q)
                            /\ ~InBraces(First(b)) => Len(Commands(b)) <= MaxStatic
                            /\ IsFull(b) \/ IsOver(b)
                            /\ NameIsSettled(b) => console[b].second = times[First(b)]
                      /\ \A p \in rest :
                            /\ \A q \in Printed : q < p
                            /\ Together(p, n)
                            /\ ~InBraces(p) => pc # "destroyed" /\ Cardinality(rest) < MaxStatic
    BY Zenon DEF BlocksAreRight
  <2>1. /\ MemoryOk(D, n, times, s, d, manager.task_count,
                    manager.static_block_timestamp, manager.dynamic_block_timestamp)
        /\ BlocksOk(D, n, C, times, Destroyed, console, ToSet(s) \cup ToSet(d))
        /\ Destroyed /\ ~(D[n] > 0) => s = <<>>
    BY GoodStateSays
  <2>2. /\ s \in Seq(Nat) /\ d \in Seq(Nat) /\ console \in Seq(Block) /\ Len(console) \in Nat /\ n \in Nat
        /\ Once(s, d, console, C)
    <3>1. Holds(manager, console, C) /\ n \in Nat
      BY OnceInvHolds DEF BlocksInv
    <3> QED BY <3>1, LenProperties DEF Holds, Manager
  <2>3. Printed = {q \in C : \E b \in blocks : q \in ToSet(Commands(b))}
    <3>1. \A b \in blocks : \A q \in ToSet(Commands(b)) : q \in C
      <4>1. \A b \in blocks : BlockOk(D, n, C, times, Destroyed, console[b])
        BY <2>1, Zenon DEF BlocksOk
      <4> HIDE DEF n, D, C, blocks
      <4> QED BY <4>1, Zenon DEF BlockOk, Commands
    <3> HIDE DEF C
    <3> QED BY <3>1 DEF Printed
  <2>4. \A p \in rest : p \in ToSet(s) \cup ToSet(d)
    <3>1. \A q \in C : \/ q \in ToSet(s) \cup ToSet(d)
                       \/ \E b \in blocks : q \in ToSet(console[b].commands)
      BY <2>2, OnceGives
    <3> HIDE DEF C, s, d, blocks
    <3> QED BY <2>3, <3>1 DEF Commands
  <2>5. ASSUME NEW a \in blocks, NEW b \in blocks, a < b PROVE Before(Commands(a), Commands(b))
    <3>1. \A x \in ToSet(console[a].commands) : \A y \in ToSet(console[b].commands) : x < y
      BY <2>1, <2>5 DEF BlocksOk
    <3>2. console[a] \in Block /\ console[b] \in Block
      BY <2>2
    <3>3. /\ \A j \in 1 .. Len(Commands(a)) : Commands(a)[j] \in ToSet(Commands(a))
          /\ \A j \in 1 .. Len(Commands(b)) : Commands(b)[j] \in ToSet(Commands(b))
      <4>1. Commands(a) \in Seq(Nat) /\ Commands(b) \in Seq(Nat)
        BY <3>2 DEF Commands, Block
      <4> QED BY <4>1 DEF ToSet
    <3> QED BY <3>1, <3>3 DEF Before, Commands
  <2>6. ASSUME NEW b \in blocks
        PROVE  /\ Commands(b) # <<>> /\ Increasing(Commands(b))
               /\ \A q \in ToSet(Commands(b)) : q \in C /\ Together(First(b), q)
               /\ ~InBraces(First(b)) => Len(Commands(b)) <= MaxStatic
               /\ IsFull(b) \/ IsOver(b)
               /\ NameIsSettled(b) => console[b].second = times[First(b)]
    <3>1. BlockOk(D, n, C, times, Destroyed, console[b])
      BY <2>1 DEF BlocksOk
    <3>2. Increasing(Commands(b))
      <4>1. b \in -1 .. Len(console) /\ b # 0 /\ b # -1
        BY <2>2
      <4>2. Increasing(Part(s, d, console)[b])
        BY <2>2, <4>1 DEF Once, Fair
      <4> QED BY <4>1, <4>2 DEF Part, Commands
    <3>3. IsFull(b) <=> ~(D[First(b)] > 0) /\ Len(Commands(b)) = MaxStatic
      BY Readings, Zenon DEF IsFull
    <3> DEFINE f == First(b)
               c == Commands(b)
    <3>4. /\ c # <<>>
          /\ \A q \in ToSet(c) : q \in C /\ q \in 1 .. n /\ Tog(D, f, q)
          /\ ~(D[f] > 0) => Len(c) <= MaxStatic
          /\ (~(D[f] > 0) /\ Len(c) = MaxStatic) \/ Over(D, n, C, Destroyed, console[b])
          /\ \E k \in 1 .. f : Begins(D, times, console[b], k)
      BY <3>1, Zenon DEF BlockOk, First, Commands
    <3>5. \A p : InBraces(p) <=> D[p] > 0
      BY DEF InBraces
    <3>6. \A p, q : Together(p, q) <=> Tog(D, p, q)
      BY Readings, Zenon
    <3>7. IsOver(b) <=> Over(D, n, C, Destroyed, console[b])
      BY Readings, Zenon
    <3>8. \A k : Opens(b, k) <=> D[f] > 0 /\ ~(D[k - 1] > 0) /\ Tog(D, k, f)
      BY Readings, Zenon
    <3>9. NameIsSettled(b) => console[b].second = times[f]
      <4> SUFFICES ASSUME NameIsSettled(b) PROVE console[b].second = times[f]
        OBVIOUS
      <4>1. f \in Nat
        <5>1. f \in ToSet(c)
          BY <3>1, Zenon DEF BlockOk, First, Commands
        <5>2. f \in 1 .. n /\ n \in Nat
          BY <2>2, <3>4, <5>1
        <5> HIDE DEF f, n
        <5> QED BY <5>2
      <4>2. PICK k \in 1 .. f : Begins(D, times, console[b], k)
        BY <3>4
      <4>3. console[b].commands[1] = f
        BY DEF First, Commands
      <4> HIDE DEF f, c, D, C, n
      <4>4. /\ IF D[f] > 0 THEN ~(D[k - 1] > 0) /\ Tog(D, k, f) ELSE k = f
            /\ console[b].second = times[k]
        BY <4>2, <4>3, Zenon DEF Begins
      <4>5. CASE ~(D[f] > 0)
        BY <4>4, <4>5, Zenon
      <4>6. CASE D[f] > 0
        <5>1. PICK l \in 1 .. f : Opens(b, l) /\ times[l] = times[f]
          BY <3>5, <4>6, Zenon DEF NameIsSettled, f
        <5>2. ~(D[l - 1] > 0) /\ Tog(D, l, f)
          BY <3>8, <5>1
        <5>3. k = l
          BY <4>1, <4>4, <4>6, <5>2, OpenedOnce
        <5> QED BY <4>4, <5>1, <5>3
      <4> QED BY <4>5, <4>6
    <3> HIDE DEF f, c, D, C, n
    <3> QED BY <3>2, <3>3, <3>4, <3>5, <3>6, <3>7, <3>9, Zenon DEF f, c
  <2>7. ASSUME NEW p \in rest
        PROVE  /\ \A q \in Printed : q < p
               /\ Together(p, n)
               /\ ~InBraces(p) => pc # "destroyed" /\ Cardinality(rest) < MaxStatic
    <3>1. p \in ToSet(s) \cup ToSet(d)
      BY <2>4
    <3>2. \A q \in Printed : q < p
      <4>1. \A b \in blocks : \A q \in ToSet(console[b].commands) : q < p
        BY <2>1, <3>1 DEF BlocksOk
      <4> HIDE DEF C
      <4> QED BY <2>3, <4>1 DEF Commands
    <3>3. p \in 1 .. n /\ Tog(D, p, n)
      BY <2>1, <3>1 DEF MemoryOk
    <3>4. Together(p, n)
      BY <3>3, Readings, Zenon
    <3>5. ASSUME ~InBraces(p) PROVE pc # "destroyed" /\ Cardinality(rest) < MaxStatic
      <4>1. ~(D[n] > 0)
        <5>1. n \in p .. n /\ ~(D[p] > 0)
          BY <3>3, <3>5 DEF InBraces
        <5> QED BY <3>3, <5>1 DEF Tog
      <4>2. d = <<>> /\ Len(s) < MaxStatic
        BY <2>1, <4>1, Zenon DEF MemoryOk
      <4>3. rest \in SUBSET ToSet(s)
        BY <2>4, <4>2, EmptyPart
      <4>4. Cardinality(rest) < MaxStatic
        <5>1. IsFiniteSet(ToSet(s)) /\ Cardinality(ToSet(s)) <= Len(s)
          BY <2>2, ToSetSize
        <5>2. IsFiniteSet(rest) /\ Cardinality(rest) <= Cardinality(ToSet(s))
          BY <4>3, <5>1, FS_Subset
        <5>3. Cardinality(rest) \in Nat /\ Cardinality(ToSet(s)) \in Nat /\ Len(s) \in Nat
          BY <2>2, <5>1, <5>2, FS_CardinalityType, LenProperties
        <5> QED BY <4>2, <5>1, <5>2, <5>3, MaxStaticAssumption
      <4>5. pc # "destroyed"
        <5>1. s # <<>>
          BY <3>1, <4>2, EmptyPart
        <5> QED BY <2>1, <4>1, <5>1 DEF Destroyed
      <4> QED BY <4>4, <4>5
    <3> QED BY <3>2, <3>4, <3>5
  <2> QED BY <2>5, <2>6, <2>7
<1> QED BY <1>1, BlocksInvInit, BlocksInvNext, PTL DEF Spec

(* If no two lines are read in one second and all files open, no block     *)
(* takes the file of an earlier one.                                       *)
THEOREM FilesAreKept == Spec => []PacedBlocksKeepTheirFiles
<1>1. BlocksInv => PacedBlocksKeepTheirFiles
  <2> DEFINE n == Len(lines)
             D == Depth(lines)
             C == CommandsOf(lines)
             s == manager.static_block_task
             d == manager.dynamic_block_task
  <2> SUFFICES ASSUME BlocksInv, ~failed, IsInjective(times)
               PROVE  \A i, j \in DOMAIN console : console[i].second = console[j].second => i = j
    BY DEF PacedBlocksKeepTheirFiles
  <2>1. BlocksOk(D, n, C, times, Destroyed, console, ToSet(s) \cup ToSet(d))
    BY GoodStateSays
  <2>2. /\ console \in Seq(Block) /\ DOMAIN console = 1 .. Len(console) /\ Len(console) \in Nat
        /\ n \in Nat /\ DOMAIN times = 1 .. n
    BY LenProperties DEF BlocksInv, OnceInv, TypeOK
  <2>3. ASSUME NEW i \in 1 .. Len(console), NEW j \in 1 .. Len(console), i < j,
               console[i].second = console[j].second
        PROVE  FALSE
    <3> DEFINE e == console[i]
               g == console[j]
               f == e.commands[1]
               h == g.commands[1]
    <3>1. BlockOk(D, n, C, times, Destroyed, e) /\ BlockOk(D, n, C, times, Destroyed, g)
      BY <2>1 DEF BlocksOk
    <3>2. \A x \in ToSet(e.commands) : \A y \in ToSet(g.commands) : x < y
      BY <2>1, <2>3 DEF BlocksOk
    <3>3. /\ f \in ToSet(e.commands) /\ f \in 1 .. n
          /\ h \in ToSet(g.commands) /\ h \in 1 .. n /\ h \in C
      BY <3>1, Zenon DEF BlockOk
    <3>4. f < h /\ h \notin ToSet(e.commands)
      <4>1. f < h
        BY <3>2, <3>3
      <4>2. ~(h < h)
        BY <3>3
      <4> QED BY <3>2, <3>3, <4>1, <4>2
    <3>5. PICK k \in 1 .. f : Begins(D, times, e, k)
      BY <3>1, Zenon DEF BlockOk
    <3>6. PICK l \in 1 .. h : Begins(D, times, g, l)
      BY <3>1, Zenon DEF BlockOk
    <3>7. /\ IF D[f] > 0 THEN ~(D[k - 1] > 0) /\ Tog(D, k, f) ELSE k = f
          /\ IF D[h] > 0 THEN ~(D[l - 1] > 0) /\ Tog(D, l, h) ELSE l = h
          /\ e.second = times[k] /\ g.second = times[l]
      BY <3>5, <3>6, Zenon DEF Begins
    <3>8. (~(D[f] > 0) /\ Len(e.commands) = MaxStatic) \/ Over(D, n, C, Destroyed, e)
      BY <3>1, Zenon DEF BlockOk
    <3>9. Over(D, n, C, Destroyed, e) => \A q \in C : f <= q /\ Tog(D, f, q) => q \in ToSet(e.commands)
      BY Zenon DEF Over
    <3>10. e.second = g.second
      BY <2>3
    <3> HIDE DEF D, C, n, e, g, f, h
    <3>11. k = l
      <4>1. k \in 1 .. n /\ l \in 1 .. n
        BY <2>2, <3>3
      <4> QED BY <2>2, <3>7, <3>10, <4>1 DEF IsInjective
    <3>12. D[h] > 0
      BY <3>3, <3>4, <3>7, <3>11
    <3>13. f \in l .. h /\ h \in l .. h
      BY <3>3, <3>4, <3>11
    <3>14. D[f] > 0 /\ Tog(D, f, h)
      <4>1. \A q \in l .. h : D[q] > 0
        BY <3>7, <3>12, <3>13 DEF Tog
      <4>2. \A q \in f .. h : q \in l .. h
        BY <3>3, <3>11
      <4>3. \A q \in f .. h : D[q] > 0
        BY <4>1, <4>2
      <4> QED BY <3>13, <4>1, <4>3 DEF Tog
    <3> QED BY <3>3, <3>4, <3>8, <3>9, <3>14
  <2> QED BY <2>2, <2>3
<1> QED BY <1>1, BlocksInvInit, BlocksInvNext, PTL DEF Spec
=============================================================================
