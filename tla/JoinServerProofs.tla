-------------------------- MODULE JoinServerProofs --------------------------
(***************************************************************************)
(* Theorems about JoinServer, for any clients, scripts and capacity of the *)
(* sockets: its types, that no part of a reply is lost, and that replies   *)
(* follow from the commands handled before.                                *)
(***************************************************************************)
EXTENDS JoinServer, BracesProofs

-----------------------------------------------------------------------------
(***************************************************************************)
(*                          The writing side                               *)
(***************************************************************************)

(* A writing side, field by field.                                         *)
K(wire, ops, posted, try_speculative, congested) ==
    [wire |-> wire, ops |-> ops, posted |-> posted, try_speculative |-> try_speculative,
     congested |-> congested]

(* Each one is of this form.                                               *)
LEMMA ConnIs ==
    ASSUME NEW k \in Conn
    PROVE  k = K(k.wire, k.ops, k.posted, k.try_speculative, k.congested)
BY DEF Conn, K

(* What is still to be sent of a message.                                  *)
LEMMA RemainingIs ==
    ASSUME NEW m \in Write
    PROVE  /\ m.from = 1 => Remaining(m) = <<<<m.text, 1>>, <<m.text, 2>>>>
           /\ m.from = 2 => Remaining(m) = <<<<m.text, 2>>>>
<1> DEFINE p == Parts(m.text)
<1>1. /\ Len(p) = 2 /\ p[1] = <<m.text, 1>> /\ p[2] = <<m.text, 2>>
  BY DEF Parts
<1>2. SubSeq(p, 1, 2) = [i \in 1 .. 2 |-> p[i]]
  BY DEF Parts
<1>3. SubSeq(p, 2, 2) = [i \in 1 .. 1 |-> p[i + 1]]
  BY DEF Parts
<1>4. ASSUME m.from = 1 PROVE Remaining(m) = <<<<m.text, 1>>, <<m.text, 2>>>>
  <2>1. Remaining(m) = SubSeq(p, 1, 2)
    BY <1>4 DEF Remaining
  <2> HIDE DEF p
  <2>2. [i \in 1 .. 2 |-> p[i]] = <<p[1], p[2]>>
    OBVIOUS
  <2> QED BY <2>1, <2>2, <1>1, <1>2, Zenon
<1>5. ASSUME m.from = 2 PROVE Remaining(m) = <<<<m.text, 2>>>>
  <2>1. Remaining(m) = SubSeq(p, 2, 2)
    BY <1>5 DEF Remaining
  <2> HIDE DEF p
  <2>2. [i \in 1 .. 1 |-> p[i + 1]] = <<p[1 + 1]>>
    OBVIOUS
  <2>3. p[1 + 1] = p[2]
    OBVIOUS
  <2> QED BY <2>1, <2>2, <2>3, <1>1, <1>3, Zenon
<1> QED BY <1>4, <1>5

(* It has a part or two, of which the first is the next one to send.       *)
LEMMA RemainingParts ==
    ASSUME NEW m \in Write
    PROVE  /\ Remaining(m) \in Seq(Part) /\ Len(Remaining(m)) = 3 - m.from
           /\ Head(Remaining(m)) \in Part
<1>1. m.text \in Text /\ m.from \in 1 .. 2
  BY DEF Write
<1>2. <<m.text, 1>> \in Part /\ <<m.text, 2>> \in Part
  BY <1>1 DEF Part
<1> DEFINE a == <<m.text, 1>>
           b == <<m.text, 2>>
<1> HIDE DEF a, b
<1>3. \/ m.from = 1 /\ Remaining(m) = <<a, b>>
      \/ m.from = 2 /\ Remaining(m) = <<b>>
  BY <1>1, RemainingIs DEF a, b
<1>4. a \in Part /\ b \in Part
  BY <1>2 DEF a, b
<1>5. /\ <<a, b>> \in Seq(Part) /\ Len(<<a, b>>) = 2 /\ Head(<<a, b>>) = a
      /\ <<b>> \in Seq(Part) /\ Len(<<b>>) = 1 /\ Head(<<b>>) = b
  BY <1>4
<1>6. CASE m.from = 1 /\ Remaining(m) = <<a, b>>
  <2>1. Remaining(m) \in Seq(Part) /\ Len(Remaining(m)) = 2 /\ Head(Remaining(m)) = a
    BY <1>5, <1>6, Zenon
  <2> QED BY <2>1, <1>4, <1>6
<1>7. CASE m.from = 2 /\ Remaining(m) = <<b>>
  <2>1. Remaining(m) \in Seq(Part) /\ Len(Remaining(m)) = 1 /\ Head(Remaining(m)) = b
    BY <1>5, <1>7, Zenon
  <2> QED BY <2>1, <1>4, <1>7
<1> QED BY <1>3, <1>6, <1>7

(* The three cases of a write: it waits, it fits, or it is sent in part.   *)
LEMMA StartWriteWaits ==
    ASSUME NEW k \in Conn, NEW m \in Write,
           k.ops # <<>> \/ ~k.try_speculative \/ Capacity - Len(k.wire) = 0
    PROVE  StartWrite(k, m) = K(k.wire, Append(k.ops, m), k.posted, k.try_speculative, TRUE)
<1>1. StartWrite(k, m) = [k EXCEPT !.ops = Append(@, m), !.congested = TRUE]
  <2>1. Len(Remaining(m)) = 3 - m.from /\ m.from \in 1 .. 2
    BY RemainingParts DEF Write
  <2>2. ~(/\ k.ops = <<>> /\ k.try_speculative
          /\ Capacity - Len(k.wire) >= Len(Remaining(m)))
    BY <2>1
  <2> QED BY <2>2, Zenon DEF StartWrite
<1> QED BY <1>1, ConnIs DEF K, Conn

(* It fits.                                                                *)
LEMMA StartWriteFits ==
    ASSUME NEW k \in Conn, NEW m \in Write,
           k.ops = <<>>, k.try_speculative, Capacity - Len(k.wire) # 0,
           Capacity - Len(k.wire) >= Len(Remaining(m))
    PROVE  StartWrite(k, m) =
             K(k.wire \o Remaining(m), k.ops, k.posted, k.try_speculative, k.congested)
<1>1. StartWrite(k, m) = [k EXCEPT !.wire = @ \o Remaining(m)]
  BY Zenon DEF StartWrite
<1> QED BY <1>1, ConnIs DEF K, Conn

(* It is sent in part, and the rest is posted.                             *)
LEMMA StartWriteCut ==
    ASSUME NEW k \in Conn, NEW m \in Write,
           k.ops = <<>>, k.try_speculative, Capacity - Len(k.wire) # 0,
           ~(Capacity - Len(k.wire) >= Len(Remaining(m)))
    PROVE  StartWrite(k, m) =
             K(Append(k.wire, Head(Remaining(m))), k.ops, Append(k.posted, [m EXCEPT !.from = 2]),
               FALSE, TRUE)
<1>1. StartWrite(k, m) = [k EXCEPT !.wire = Append(@, Head(Remaining(m))),
                                   !.posted = Append(@, [m EXCEPT !.from = 2]),
                                   !.try_speculative = FALSE, !.congested = TRUE]
  BY Zenon DEF StartWrite
<1> QED BY <1>1, ConnIs DEF K, Conn

(* What a field-by-field writing side has in its fields.                   *)
LEMMA KFields ==
    ASSUME NEW wire, NEW ops, NEW posted, NEW try_speculative, NEW congested
    PROVE  /\ K(wire, ops, posted, try_speculative, congested).wire = wire
           /\ K(wire, ops, posted, try_speculative, congested).ops = ops
           /\ K(wire, ops, posted, try_speculative, congested).posted = posted
           /\ K(wire, ops, posted, try_speculative, congested).try_speculative = try_speculative
           /\ K(wire, ops, posted, try_speculative, congested).congested = congested
BY DEF K

(* With fields of their types it is a writing side.                        *)
LEMMA KType ==
    ASSUME NEW wire \in Seq(Part), NEW ops \in Seq(Write), NEW posted \in Seq(Write),
           NEW try_speculative \in BOOLEAN, NEW congested \in BOOLEAN
    PROVE  K(wire, ops, posted, try_speculative, congested) \in Conn
BY DEF K, Conn

(* What TypeOK says of a writing side.                                     *)
ConnOK(k) ==
    /\ k \in Conn
    /\ Len(k.wire) <= Capacity
    /\ \A i \in 1 .. Len(k.posted) : k.posted[i].from = 2
    /\ k.posted # <<>> \/ k.ops # <<>> \/ ~k.try_speculative => k.congested

(* The fields have their types.                                            *)
LEMMA ConnFields ==
    ASSUME NEW k \in Conn
    PROVE  /\ k.wire \in Seq(Part) /\ k.ops \in Seq(Write) /\ k.posted \in Seq(Write)
           /\ k.try_speculative \in BOOLEAN /\ k.congested \in BOOLEAN
BY DEF Conn

-----------------------------------------------------------------------------
(* How many parts wait: one or two for each write.                         *)
LEMMA PartsNone == PartsWaiting(<<>>) = 0
<1>1. {i \in DOMAIN <<>> : <<>>[i].from = 2} = {}
  OBVIOUS
<1>2. Cardinality({}) = 0
  BY FS_EmptySet
<1> QED BY <1>1, <1>2 DEF PartsWaiting

(* The writes of which one part is left.                                   *)
Halves(ms) == {i \in DOMAIN ms : ms[i].from = 2}

(* They are finitely many.                                                 *)
LEMMA HalvesFinite ==
    ASSUME NEW ms \in Seq(Write)
    PROVE  IsFiniteSet(Halves(ms)) /\ Cardinality(Halves(ms)) \in Nat
<1>1. DOMAIN ms = 1 .. Len(ms) /\ Len(ms) \in Nat
  OBVIOUS
<1>2. IsFiniteSet(1 .. Len(ms))
  BY <1>1, FS_Interval
<1>3. Halves(ms) \in SUBSET (1 .. Len(ms))
  BY <1>1 DEF Halves
<1> QED BY <1>2, <1>3, FS_Subset, FS_CardinalityType

(* The number of parts by them.                                            *)
LEMMA PartsInt ==
    ASSUME NEW ms \in Seq(Write)
    PROVE  PartsWaiting(ms) = 2 * Len(ms) - Cardinality(Halves(ms)) /\ PartsWaiting(ms) \in Int
<1>1. PartsWaiting(ms) = 2 * Len(ms) - Cardinality(Halves(ms))
  BY Zenon DEF PartsWaiting, Halves
<1>2. Len(ms) \in Nat /\ Cardinality(Halves(ms)) \in Nat
  BY HalvesFinite
<1> QED BY <1>1, <1>2

(* One write more.                                                         *)
LEMMA PartsAppend ==
    ASSUME NEW ms \in Seq(Write), NEW m \in Write
    PROVE  PartsWaiting(Append(ms, m)) = PartsWaiting(ms) + (3 - m.from)
<1> DEFINE n == Len(ms)
           more == Append(ms, m)
<1>1. /\ more \in Seq(Write) /\ Len(more) = n + 1 /\ n \in Nat /\ m.from \in {1, 2}
      /\ DOMAIN ms = 1 .. n /\ DOMAIN more = 1 .. n + 1
      /\ \A i \in 1 .. n : more[i] = ms[i]
      /\ more[n + 1] = m
  <2>1. m.from \in 1 .. 2
    BY DEF Write
  <2> QED BY <2>1, AppendProperties
<1>4. /\ PartsWaiting(more) = 2 * Len(more) - Cardinality(Halves(more))
      /\ PartsWaiting(ms) = 2 * n - Cardinality(Halves(ms))
      /\ Cardinality(Halves(ms)) \in Nat
  BY <1>1, PartsInt, HalvesFinite
<1> HIDE DEF more, n
<1>2. CASE m.from = 2
  <2>1. Halves(more) = Halves(ms) \cup {n + 1} /\ n + 1 \notin Halves(ms)
    BY <1>1, <1>2 DEF Halves
  <2>2. Cardinality(Halves(more)) = Cardinality(Halves(ms)) + 1
    BY <2>1, HalvesFinite, FS_AddElement
  <2>3. 3 - m.from = 1
    BY <1>2
  <2>4. PartsWaiting(more) = PartsWaiting(ms) + 1
    BY ONLY <1>1, <1>4, <2>2
  <2> QED BY <2>3, <2>4 DEF more
<1>3. CASE m.from = 1
  <2>1. Halves(more) = Halves(ms)
    BY <1>1, <1>3 DEF Halves
  <2>3. 3 - m.from = 2
    BY <1>3
  <2>4. PartsWaiting(more) = PartsWaiting(ms) + 2
    BY ONLY <1>1, <1>4, <2>1
  <2> QED BY <2>3, <2>4 DEF more
<1> QED BY <1>1, <1>2, <1>3

(* One write less, at the beginning.                                       *)
LEMMA PartsTail ==
    ASSUME NEW ms \in Seq(Write), ms # <<>>
    PROVE  /\ Tail(ms) \in Seq(Write) /\ Head(ms) \in Write
           /\ PartsWaiting(ms) = PartsWaiting(Tail(ms)) + (3 - Head(ms).from)
<1> DEFINE n == Len(ms)
           rest == Tail(ms)
<1>1. /\ rest \in Seq(Write) /\ n \in Nat \ {0} /\ Len(rest) = n - 1
      /\ DOMAIN ms = 1 .. n /\ DOMAIN rest = 1 .. n - 1
      /\ \A i \in 1 .. n - 1 : rest[i] = ms[i + 1]
      /\ Head(ms) = ms[1] /\ ms[1] \in Write
  OBVIOUS
<1>2. ms[1].from \in {1, 2}
  BY <1>1 DEF Write
<1>6. /\ PartsWaiting(rest) = 2 * Len(rest) - Cardinality(Halves(rest))
      /\ PartsWaiting(ms) = 2 * n - Cardinality(Halves(ms))
      /\ Cardinality(Halves(ms)) \in Nat /\ Cardinality(Halves(rest)) \in Nat
  BY <1>1, PartsInt, HalvesFinite
<1> HIDE DEF rest, n
<1> DEFINE later == Halves(ms) \ {1}
           f == [i \in Halves(rest) |-> i + 1]
<1>3. Cardinality(later) = Cardinality(Halves(rest))
  <2>1. f \in Bijection(Halves(rest), later)
    <3>1. \A i \in Halves(rest) : i \in Nat /\ i + 1 \in later
      BY <1>1 DEF Halves
    <3>2. \A j \in later : j - 1 \in Halves(rest) /\ (j - 1) + 1 = j
      BY <1>1 DEF Halves
    <3>3. f \in [Halves(rest) -> later]
      BY <3>1
    <3>4. \A i, j \in Halves(rest) : f[i] = f[j] => i = j
      BY <3>1
    <3>5. \A j \in later : \E i \in Halves(rest) : f[i] = j
      BY <3>2
    <3> HIDE DEF f, later
    <3> QED BY <3>3, <3>4, <3>5 DEF Bijection, Injection, Surjection, IsInjective
  <2> QED BY <1>1, <2>1, HalvesFinite, FS_Bijection DEF ExistsBijection
<1>4. CASE ms[1].from = 2
  <2>1. 1 \in Halves(ms)
    BY <1>1, <1>4 DEF Halves
  <2>2. Cardinality(Halves(ms)) = Cardinality(Halves(rest)) + 1
    <3>1. IsFiniteSet(Halves(ms))
      BY HalvesFinite
    <3>2. Cardinality(later) = Cardinality(Halves(ms)) - 1
      BY <3>1, <2>1, FS_RemoveElement
    <3> HIDE DEF later
    <3> QED BY <1>3, <1>6, <3>2
  <2>3. PartsWaiting(ms) = PartsWaiting(rest) + 1
    BY ONLY <1>1, <1>6, <2>2
  <2> QED BY <1>1, <1>4, <2>3 DEF rest
<1>5. CASE ms[1].from = 1
  <2>1. 1 \notin Halves(ms)
    BY <1>5 DEF Halves
  <2>2. later = Halves(ms)
    BY <2>1
  <2>3. Cardinality(Halves(ms)) = Cardinality(Halves(rest))
    BY <1>3, <2>2
  <2>4. PartsWaiting(ms) = PartsWaiting(rest) + 2
    BY ONLY <1>1, <1>6, <2>3
  <2> QED BY <1>1, <1>5, <2>4 DEF rest
<1> QED BY <1>1, <1>2, <1>4, <1>5 DEF rest

(* Other texts, as many parts.                                             *)
LEMMA PartsSame ==
    ASSUME NEW ms \in Seq(Write), NEW other \in Seq(Write), Len(other) = Len(ms),
           \A i \in 1 .. Len(ms) : other[i].from = ms[i].from
    PROVE  PartsWaiting(other) = PartsWaiting(ms)
<1>1. DOMAIN ms = 1 .. Len(ms) /\ DOMAIN other = 1 .. Len(ms)
  OBVIOUS
<1>2. Halves(other) = Halves(ms)
  BY <1>1 DEF Halves
<1> QED BY <1>2, PartsInt

-----------------------------------------------------------------------------
(* The parts a writing side holds, on their way or waiting.                *)
Pending(k) == Len(k.wire) + PartsWaiting(k.ops) + PartsWaiting(k.posted)

(* Of a writing side given by its fields.                                  *)
LEMMA KPending ==
    ASSUME NEW wire, NEW ops, NEW posted, NEW try_speculative, NEW congested
    PROVE  Pending(K(wire, ops, posted, try_speculative, congested))
             = Len(wire) + PartsWaiting(ops) + PartsWaiting(posted)
<1> DEFINE k == K(wire, ops, posted, try_speculative, congested)
<1>1. k.wire = wire /\ k.ops = ops /\ k.posted = posted
  BY KFields
<1> HIDE DEF k
<1>2. Pending(k) = Len(wire) + PartsWaiting(ops) + PartsWaiting(posted)
  BY <1>1, Zenon DEF Pending
<1> QED BY <1>2, Zenon DEF k

(* When a writing side given by its fields is as TypeOK says.              *)
LEMMA KOK ==
    ASSUME NEW wire \in Seq(Part), NEW ops \in Seq(Write), NEW posted \in Seq(Write),
           NEW try_speculative \in BOOLEAN, NEW congested \in BOOLEAN,
           Len(wire) <= Capacity, \A i \in 1 .. Len(posted) : posted[i].from = 2,
           posted # <<>> \/ ops # <<>> \/ ~try_speculative => congested
    PROVE  ConnOK(K(wire, ops, posted, try_speculative, congested))
<1> DEFINE k == K(wire, ops, posted, try_speculative, congested)
<1>1. /\ k.wire = wire /\ k.ops = ops /\ k.posted = posted
      /\ k.try_speculative = try_speculative /\ k.congested = congested
  BY KFields
<1>2. k \in Conn
  BY KType
<1> HIDE DEF k
<1>3. ConnOK(k)
  BY <1>1, <1>2, Zenon DEF ConnOK
<1> QED BY <1>3, Zenon DEF k

(* What a write that has to wait, fits, or is sent in part does.           *)
LEMMA WriteWaits ==
    ASSUME NEW k, ConnOK(k), NEW m \in Write,
           k.ops # <<>> \/ ~k.try_speculative \/ Capacity - Len(k.wire) = 0
    PROVE  /\ ConnOK(StartWrite(k, m)) /\ StartWrite(k, m).congested
           /\ Pending(StartWrite(k, m)) = Pending(k) + (3 - m.from)
<1> DEFINE yes == TRUE
           ops == Append(k.ops, m)
           r == K(k.wire, ops, k.posted, k.try_speculative, yes)
<1>1. k \in Conn /\ k.wire \in Seq(Part) /\ k.ops \in Seq(Write) /\ k.posted \in Seq(Write)
  BY ConnFields DEF ConnOK
<1>2. k.try_speculative \in BOOLEAN /\ yes \in BOOLEAN /\ yes
  BY <1>1, ConnFields
<1>3. ops \in Seq(Write)
  BY <1>1
<1>4. Len(k.wire) <= Capacity /\ \A i \in 1 .. Len(k.posted) : k.posted[i].from = 2
  BY DEF ConnOK
<1>5. StartWrite(k, m) = r
  BY <1>1, StartWriteWaits
<1>6. PartsWaiting(ops) = PartsWaiting(k.ops) + (3 - m.from)
  BY <1>1, PartsAppend
<1> HIDE DEF yes, ops
<1>7. ConnOK(r)
  BY <1>1, <1>2, <1>3, <1>4, KOK
<1>8. r.congested
  <2>1. r.congested = yes
    BY KFields
  <2> QED BY <2>1, <1>2
<1>9. Pending(r) = Pending(k) + (3 - m.from)
  <2>1. Pending(r) = Len(k.wire) + PartsWaiting(ops) + PartsWaiting(k.posted)
    BY ONLY KPending
  <2>2. /\ Len(k.wire) \in Int /\ PartsWaiting(k.ops) \in Int /\ PartsWaiting(k.posted) \in Int
        /\ m.from \in Int
    <3>1. m.from \in Int
      BY DEF Write
    <3> QED BY <1>1, <3>1, PartsInt
  <2>3. Pending(k) = Len(k.wire) + PartsWaiting(k.ops) + PartsWaiting(k.posted)
    BY DEF Pending
  <2> QED BY ONLY <1>6, <2>1, <2>2, <2>3
<1> HIDE DEF r
<1> QED BY <1>5, <1>7, <1>8, <1>9, Zenon

(* A write that fits puts what remains of it on the wire.                  *)
LEMMA WriteFits ==
    ASSUME NEW k, ConnOK(k), NEW m \in Write,
           k.ops = <<>>, k.try_speculative, Capacity - Len(k.wire) # 0,
           Capacity - Len(k.wire) >= Len(Remaining(m))
    PROVE  /\ ConnOK(StartWrite(k, m)) /\ StartWrite(k, m).congested = k.congested
           /\ Pending(StartWrite(k, m)) = Pending(k) + (3 - m.from)
           /\ StartWrite(k, m).wire = k.wire \o Remaining(m)
<1> DEFINE wire == k.wire \o Remaining(m)
           r == K(wire, k.ops, k.posted, k.try_speculative, k.congested)
<1>1. /\ k \in Conn /\ k.wire \in Seq(Part) /\ k.ops \in Seq(Write) /\ k.posted \in Seq(Write)
      /\ k.try_speculative \in BOOLEAN /\ k.congested \in BOOLEAN
  BY ConnFields DEF ConnOK
<1>2. /\ wire \in Seq(Part) /\ Len(wire) = Len(k.wire) + (3 - m.from)
      /\ m.from \in Int /\ Len(k.wire) \in Int
  BY <1>1, RemainingParts DEF Write
<1>3. Len(wire) <= Capacity
  <2>1. Len(Remaining(m)) = 3 - m.from
    BY RemainingParts
  <2> QED BY <1>2, <2>1, CapacityAssumption
<1>4. /\ \A i \in 1 .. Len(k.posted) : k.posted[i].from = 2
      /\ k.posted # <<>> \/ k.ops # <<>> \/ ~k.try_speculative => k.congested
  BY DEF ConnOK
<1>5. StartWrite(k, m) = r
  BY <1>1, StartWriteFits
<1> HIDE DEF wire
<1>6. ConnOK(r)
  BY <1>1, <1>2, <1>3, <1>4, KOK
<1>7. r.congested = k.congested /\ r.wire = wire
  BY ONLY KFields
<1>8. Pending(r) = Pending(k) + (3 - m.from)
  <2>1. Pending(r) = Len(wire) + PartsWaiting(k.ops) + PartsWaiting(k.posted)
    BY ONLY KPending
  <2>2. PartsWaiting(k.ops) \in Int /\ PartsWaiting(k.posted) \in Int
    BY <1>1, PartsInt
  <2>3. Pending(k) = Len(k.wire) + PartsWaiting(k.ops) + PartsWaiting(k.posted)
    BY DEF Pending
  <2> DEFINE before == Len(k.wire)
             after == Len(wire)
             p == PartsWaiting(k.ops)
             q == PartsWaiting(k.posted)
             x == Pending(k)
             y == Pending(r)
             d == 3 - m.from
  <2>4. /\ before \in Int /\ p \in Int /\ q \in Int /\ d \in Int
        /\ after = before + d /\ y = after + p + q /\ x = before + p + q
    BY ONLY <1>2, <2>1, <2>2, <2>3
  <2> HIDE DEF before, after, p, q, x, y, d
  <2>5. y = x + d
    BY ONLY <2>4
  <2> QED BY <2>5 DEF x, y, d
<1> HIDE DEF r
<1> QED BY <1>5, <1>6, <1>7, <1>8, Zenon DEF wire

(* A write sent in part leaves one part waiting.                           *)
LEMMA WriteCut ==
    ASSUME NEW k, ConnOK(k), NEW m \in Write,
           k.ops = <<>>, k.try_speculative, Capacity - Len(k.wire) # 0,
           ~(Capacity - Len(k.wire) >= Len(Remaining(m)))
    PROVE  /\ ConnOK(StartWrite(k, m)) /\ StartWrite(k, m).congested
           /\ Pending(StartWrite(k, m)) = Pending(k) + (3 - m.from)
<1> DEFINE yes == TRUE
           no == FALSE
           rest == [m EXCEPT !.from = 2]
           wire == Append(k.wire, Head(Remaining(m)))
           posted == Append(k.posted, rest)
           r == K(wire, k.ops, posted, no, yes)
<1>1. k \in Conn /\ k.wire \in Seq(Part) /\ k.ops \in Seq(Write) /\ k.posted \in Seq(Write)
  BY ConnFields DEF ConnOK
<1>2. no \in BOOLEAN /\ ~no /\ yes \in BOOLEAN /\ yes
  OBVIOUS
<1>3. /\ Len(k.wire) \in Nat /\ Len(k.wire) <= Capacity /\ Capacity \in Nat
      /\ m.from \in {1, 2} /\ Len(Remaining(m)) = 3 - m.from
  <2>1. Len(k.wire) <= Capacity
    BY DEF ConnOK
  <2>2. m.from \in 1 .. 2
    BY DEF Write
  <2> QED BY <1>1, <2>1, <2>2, RemainingParts, CapacityAssumption
<1>4. m.from = 1 /\ Len(k.wire) + 1 <= Capacity
  BY <1>3
<1>5. wire \in Seq(Part) /\ Len(wire) = Len(k.wire) + 1
  BY <1>1, RemainingParts
<1>6. rest \in Write /\ rest.from = 2
  BY DEF Write
<1>7. StartWrite(k, m) = r
  BY <1>1, StartWriteCut
<1> HIDE DEF yes, no, rest, wire
<1>8. posted \in Seq(Write) /\ \A i \in 1 .. Len(posted) : posted[i].from = 2
  <2>1. \A i \in 1 .. Len(k.posted) : k.posted[i].from = 2
    BY DEF ConnOK
  <2>2. /\ posted \in Seq(Write) /\ Len(posted) = Len(k.posted) + 1 /\ Len(k.posted) \in Nat
        /\ \A i \in 1 .. Len(k.posted) : posted[i] = k.posted[i]
        /\ posted[Len(k.posted) + 1] = rest
    BY <1>1, <1>6, AppendProperties
  <2> HIDE DEF posted
  <2> QED BY <1>6, <2>1, <2>2
<1>9. PartsWaiting(posted) = PartsWaiting(k.posted) + (3 - rest.from)
  BY <1>1, <1>6, PartsAppend
<1> HIDE DEF posted
<1>10. Len(wire) <= Capacity
  BY <1>4, <1>5
<1>11. ConnOK(r)
  BY <1>1, <1>2, <1>5, <1>8, <1>10, KOK
<1>12. r.congested
  <2>1. r.congested = yes
    BY KFields
  <2> QED BY <2>1, <1>2
<1>13. Pending(r) = Pending(k) + (3 - m.from)
  <2>1. Pending(r) = Len(wire) + PartsWaiting(k.ops) + PartsWaiting(posted)
    BY ONLY KPending
  <2>2. PartsWaiting(k.ops) \in Int /\ PartsWaiting(k.posted) \in Int
    BY <1>1, PartsInt
  <2>3. Pending(k) = Len(k.wire) + PartsWaiting(k.ops) + PartsWaiting(k.posted)
    BY DEF Pending
  <2>4. PartsWaiting(posted) = PartsWaiting(k.posted) + 1
    BY <1>6, <1>9
  <2>5. 3 - m.from = 2
    BY <1>4
  <2>6. Len(k.wire) \in Int
    BY <1>3
  <2>7. Pending(r) = Pending(k) + 2
    BY ONLY <1>5, <2>1, <2>2, <2>3, <2>4, <2>6
  <2> QED BY <2>5, <2>7
<1> HIDE DEF r
<1> QED BY <1>7, <1>11, <1>12, <1>13, Zenon

(* A write keeps the types and adds its parts; if the connection is not    *)
(* congested after it, they are on the wire behind the others.             *)
LEMMA StartWriteOK ==
    ASSUME NEW k, ConnOK(k), NEW m \in Write
    PROVE  /\ ConnOK(StartWrite(k, m))
           /\ Pending(StartWrite(k, m)) = Pending(k) + (3 - m.from)
           /\ StartWrite(k, m).congested
                \/ (~k.congested /\ StartWrite(k, m).wire = k.wire \o Remaining(m))

<1>1. CASE k.ops # <<>> \/ ~k.try_speculative \/ Capacity - Len(k.wire) = 0
  BY <1>1, WriteWaits
<1>2. CASE /\ k.ops = <<>> /\ k.try_speculative /\ Capacity - Len(k.wire) # 0
           /\ Capacity - Len(k.wire) >= Len(Remaining(m))
  BY <1>2, WriteFits
<1>3. CASE /\ k.ops = <<>> /\ k.try_speculative /\ Capacity - Len(k.wire) # 0
           /\ ~(Capacity - Len(k.wire) >= Len(Remaining(m)))
  BY <1>3, WriteCut
<1> QED BY <1>1, <1>2, <1>3

-----------------------------------------------------------------------------
(* The first n of several writes, one after the other.                     *)
GivesWrites(d, k, ms, n) ==
    d = [i \in 0 .. n |-> IF i = 0 THEN k ELSE StartWrite(d[i - 1], ms[i])]

(* There is such a function for every number, by induction.                *)
LEMMA SomethingGivesWrites ==
    ASSUME NEW k, NEW ms
    PROVE  \A n \in Nat : \E d : GivesWrites(d, k, ms, n)
<1> DEFINE Bad == {n \in Nat : ~ \E d : GivesWrites(d, k, ms, n)}
<1>1. ASSUME Bad # {} PROVE FALSE
  <2>1. PICK n \in Bad : \A m \in Bad : n <= m
    BY <1>1, LeastNat
  <2>2. CASE n = 0
    <3>1. GivesWrites([i \in 0 .. 0 |-> k], k, ms, 0)
      BY DEF GivesWrites
    <3> QED BY <2>2, <3>1
  <2>3. CASE n > 0
    <3>1. PICK e : GivesWrites(e, k, ms, n - 1)
      <4>1. n - 1 \in Nat /\ n - 1 \notin Bad
        BY <2>1, <2>3
      <4> QED BY <4>1
    <3> DEFINE d == [i \in 0 .. n |-> IF i = n THEN StartWrite(e[n - 1], ms[n]) ELSE e[i]]
    <3>2. GivesWrites(d, k, ms, n)
      <4>1. d = [i \in 0 .. n |-> IF i = 0 THEN k ELSE StartWrite(d[i - 1], ms[i])]
        <5>1. ASSUME NEW i \in 0 .. n
              PROVE  d[i] = IF i = 0 THEN k ELSE StartWrite(d[i - 1], ms[i])
          <6>1. CASE i = n
            <7>1. d[i - 1] = e[n - 1]
              BY <2>3, <6>1
            <7> QED BY <2>3, <6>1, <7>1
          <6>2. CASE i < n
            <7>1. i \in 0 .. n - 1 /\ d[i] = e[i]
              BY <2>3, <6>2
            <7>2. i # 0 => d[i - 1] = e[i - 1]
              BY <2>3, <6>2
            <7>3. e[i] = IF i = 0 THEN k ELSE StartWrite(e[i - 1], ms[i])
              BY <3>1, <7>1 DEF GivesWrites
            <7> QED BY <7>1, <7>2, <7>3
          <6> QED BY <6>1, <6>2
        <5> HIDE DEF d
        <5>2. d = [i \in 0 .. n |-> d[i]]
          BY DEF d
        <5> QED BY <5>1, <5>2
      <4> QED BY <4>1 DEF GivesWrites
    <3> QED BY <3>2
  <2> QED BY <2>1, <2>2, <2>3
<1> QED BY <1>1

(* Writes is that function.                                                *)
LEMMA WritesDef ==
    ASSUME NEW k, NEW ms, Len(ms) \in Nat
    PROVE  /\ Writes(k, ms)[0] = k
           /\ \A i \in 1 .. Len(ms) : Writes(k, ms)[i] = StartWrite(Writes(k, ms)[i - 1], ms[i])
<1> DEFINE Body(d) == [i \in 0 .. Len(ms) |-> IF i = 0 THEN k ELSE StartWrite(d[i - 1], ms[i])]
<1>1. \E d : d = Body(d)
  <2>1. \E d : GivesWrites(d, k, ms, Len(ms))
    BY SomethingGivesWrites
  <2> QED BY <2>1, Zenon DEF GivesWrites
<1>2. Writes(k, ms) = CHOOSE d : d = Body(d)
  BY DEF Writes
<1>3. Writes(k, ms) = Body(Writes(k, ms))
  <2> HIDE DEF Body
  <2> QED BY <1>1, <1>2
<1>4. ASSUME NEW d, d = Body(d)
      PROVE  d[0] = k /\ \A i \in 1 .. Len(ms) : d[i] = StartWrite(d[i - 1], ms[i])
  <2>1. \A i \in 0 .. Len(ms) : Body(d)[i] = IF i = 0 THEN k ELSE StartWrite(d[i - 1], ms[i])
    OBVIOUS
  <2> HIDE DEF Body
  <2> QED BY <1>4, <2>1
<1> HIDE DEF Body
<1> QED BY <1>3, <1>4

(* Numbering the parts of messages: part j belongs to message (j + 1) / 2. *)
LEMMA Halving ==
    \A i \in Nat :
        /\ \A j \in 1 .. 2 * i : (j + 1) \div 2 \in 1 .. i /\ 2 - (j % 2) \in 1 .. 2
        /\ (2 * i + 1 + 1) \div 2 = i + 1 /\ 2 - ((2 * i + 1) % 2) = 1
        /\ (2 * i + 2 + 1) \div 2 = i + 1 /\ 2 - ((2 * i + 2) % 2) = 2
OBVIOUS

(* The parts of the first n of several texts.                              *)
PartsOf(texts, n) == [j \in 1 .. 2 * n |-> <<texts[(j + 1) \div 2], 2 - (j % 2)>>]

(* They are a sequence, two for each text.                                 *)
LEMMA PartsOfIs ==
    ASSUME NEW texts, NEW n \in Nat, \A i \in 1 .. n : texts[i] \in Text
    PROVE  PartsOf(texts, n) \in Seq(Part) /\ Len(PartsOf(texts, n)) = 2 * n
<1>1. \A j \in 1 .. 2 * n : <<texts[(j + 1) \div 2], 2 - (j % 2)>> \in Part
  BY Halving DEF Part
<1>2. PartsOf(texts, n) \in [1 .. 2 * n -> Part]
  BY <1>1 DEF PartsOf
<1>3. 2 * n \in Nat
  OBVIOUS
<1> QED BY <1>2, <1>3

(* Another text.                                                           *)
LEMMA PartsOfMore ==
    ASSUME NEW texts, NEW n \in Nat, \A i \in 1 .. n + 1 : texts[i] \in Text
    PROVE  PartsOf(texts, n + 1)
             = PartsOf(texts, n) \o <<<<texts[n + 1], 1>>, <<texts[n + 1], 2>>>>
<1> DEFINE a == <<texts[n + 1], 1>>
           b == <<texts[n + 1], 2>>
           P == PartsOf(texts, n)
           Q == PartsOf(texts, n + 1)
<1>1. /\ P \in Seq(Part) /\ Len(P) = 2 * n /\ Q \in Seq(Part) /\ Len(Q) = 2 * (n + 1)
      /\ a \in Part /\ b \in Part
  BY PartsOfIs DEF Part
<1>2. \A j \in 1 .. 2 * n : Q[j] = P[j]
  <2>1. \A j \in 1 .. 2 * n : j \in 1 .. 2 * (n + 1)
    OBVIOUS
  <2> QED BY <2>1 DEF PartsOf
<1>3. Q[2 * n + 1] = a /\ Q[2 * n + 2] = b
  <2>1. 2 * n + 1 \in 1 .. 2 * (n + 1) /\ 2 * n + 2 \in 1 .. 2 * (n + 1)
    OBVIOUS
  <2>2. /\ Q[2 * n + 1] = <<texts[(2 * n + 1 + 1) \div 2], 2 - ((2 * n + 1) % 2)>>
        /\ Q[2 * n + 2] = <<texts[(2 * n + 2 + 1) \div 2], 2 - ((2 * n + 2) % 2)>>
    BY <2>1 DEF PartsOf
  <2> QED BY <2>2, Halving, Zenon
<1> HIDE DEF a, b, P, Q
<1>4. P \o <<a, b>> \in Seq(Part) /\ Len(P \o <<a, b>>) = 2 * n + 2
  BY <1>1
<1>5. \A j \in 1 .. 2 * n : (P \o <<a, b>>)[j] = P[j]
  BY <1>1
<1>6. (P \o <<a, b>>)[2 * n + 1] = a /\ (P \o <<a, b>>)[2 * n + 2] = b
  BY <1>1
<1>7. \A j \in 1 .. 2 * n + 2 : Q[j] = (P \o <<a, b>>)[j]
  BY <1>1, <1>2, <1>3, <1>5, <1>6
<1>8. Q = P \o <<a, b>>
  BY <1>1, <1>4, <1>7, SeqEqual
<1> QED BY <1>8 DEF a, b, P, Q

-----------------------------------------------------------------------------
(* The first n of several writes.                                          *)
LEMMA FirstWrites ==
    ASSUME NEW ms \in Seq(Write), NEW n \in 1 .. Len(ms)
    PROVE  /\ SubSeq(ms, 1, n - 1) \in Seq(Write) /\ ms[n] \in Write
           /\ SubSeq(ms, 1, n) = Append(SubSeq(ms, 1, n - 1), ms[n])
<1> DEFINE before == SubSeq(ms, 1, n - 1)
           upto == SubSeq(ms, 1, n)
<1>1. Len(ms) \in Nat /\ n \in Nat /\ \A i \in 1 .. Len(ms) : ms[i] \in Write
  OBVIOUS
<1>2. /\ before \in Seq(Write) /\ Len(before) = n - 1 /\ \A i \in 1 .. n - 1 : before[i] = ms[i]
      /\ upto \in Seq(Write) /\ Len(upto) = n /\ \A i \in 1 .. n : upto[i] = ms[i]
  BY <1>1
<1> HIDE DEF before, upto
<1>3. /\ Append(before, ms[n]) \in Seq(Write) /\ Len(Append(before, ms[n])) = n
      /\ \A i \in 1 .. n - 1 : Append(before, ms[n])[i] = before[i]
      /\ Append(before, ms[n])[n] = ms[n]
  BY <1>1, <1>2, AppendProperties
<1>4. \A i \in 1 .. n : upto[i] = Append(before, ms[n])[i]
  BY <1>1, <1>2, <1>3
<1>5. upto = Append(before, ms[n])
  BY <1>1, <1>2, <1>3, <1>4, SeqEqual
<1> QED BY <1>1, <1>2, <1>5 DEF before, upto

(* Several writes keep the types and add their parts.                      *)
LEMMA WriteAllOK ==
    ASSUME NEW k, ConnOK(k), NEW ms \in Seq(Write)
    PROVE  /\ ConnOK(WriteAll(k, ms))
           /\ Pending(WriteAll(k, ms)) = Pending(k) + PartsWaiting(ms)
           /\ k.congested => WriteAll(k, ms).congested
<1> DEFINE w == Writes(k, ms)
           Fine(i) == /\ ConnOK(w[i]) /\ Pending(w[i]) = Pending(k) + PartsWaiting(SubSeq(ms, 1, i))
                      /\ k.congested => w[i].congested
           Bad == {i \in Nat : i \in 0 .. Len(ms) /\ ~Fine(i)}
<1>1. Len(ms) \in Nat
  OBVIOUS
<1>2. /\ w[0] = k /\ \A i \in 1 .. Len(ms) : w[i] = StartWrite(w[i - 1], ms[i])
  BY <1>1, WritesDef
<1> HIDE DEF w
<1>3. Pending(k) \in Int
  <2>1. k.wire \in Seq(Part) /\ k.ops \in Seq(Write) /\ k.posted \in Seq(Write)
    BY ConnFields DEF ConnOK
  <2>2. Len(k.wire) \in Int /\ PartsWaiting(k.ops) \in Int /\ PartsWaiting(k.posted) \in Int
    BY <2>1, PartsInt
  <2> QED BY <2>2 DEF Pending
<1>4. Fine(0)
  <2>1. SubSeq(ms, 1, 0) = <<>>
    OBVIOUS
  <2>2. PartsWaiting(SubSeq(ms, 1, 0)) = 0
    BY <2>1, PartsNone
  <2>3. Pending(w[0]) = Pending(k) + PartsWaiting(SubSeq(ms, 1, 0))
    BY <1>2, <1>3, <2>2
  <2> QED BY <1>2, <2>3
<1>5. ASSUME NEW i \in 1 .. Len(ms), Fine(i - 1) PROVE Fine(i)
  <2> DEFINE before == SubSeq(ms, 1, i - 1)
             m == ms[i]
             x == w[i - 1]
  <2>1. before \in Seq(Write) /\ m \in Write /\ SubSeq(ms, 1, i) = Append(before, m)
    BY FirstWrites
  <2>2. ConnOK(x) /\ Pending(x) = Pending(k) + PartsWaiting(before) /\ (k.congested => x.congested)
    BY <1>5
  <2>3. w[i] = StartWrite(x, m)
    BY <1>2
  <2> HIDE DEF before, m, x, Fine
  <2>4. /\ ConnOK(StartWrite(x, m)) /\ Pending(StartWrite(x, m)) = Pending(x) + (3 - m.from)
        /\ x.congested => StartWrite(x, m).congested
    BY <2>1, <2>2, StartWriteOK
  <2>5. PartsWaiting(Append(before, m)) = PartsWaiting(before) + (3 - m.from)
    BY <2>1, PartsAppend
  <2>6. PartsWaiting(before) \in Int /\ m.from \in Int
    <3>1. m.from \in Int
      BY <2>1 DEF Write
    <3> QED BY <2>1, <3>1, PartsInt
  <2>7. Pending(StartWrite(x, m)) = Pending(k) + PartsWaiting(Append(before, m))
    BY ONLY <1>3, <2>2, <2>4, <2>5, <2>6
  <2> QED BY <2>1, <2>2, <2>3, <2>4, <2>7 DEF Fine
<1>6. ASSUME Bad # {} PROVE FALSE
  <2>1. PICK i \in Bad : \A j \in Bad : i <= j
    BY <1>6, LeastNat
  <2>2. i # 0
    BY <1>4, <2>1
  <2>3. i \in 1 .. Len(ms) /\ i - 1 \in Nat /\ i - 1 \in 0 .. Len(ms) /\ i - 1 \notin Bad
    BY <1>1, <2>1, <2>2
  <2> HIDE DEF Fine
  <2> QED BY <1>5, <2>1, <2>3
<1>7. Fine(Len(ms))
  <2> HIDE DEF Fine
  <2> QED BY <1>1, <1>6
<1>8. SubSeq(ms, 1, Len(ms)) = ms
  OBVIOUS
<1> QED BY <1>7, <1>8 DEF WriteAll, w

(* Wires are put together in any order.                                    *)
LEMMA PartsAssociate ==
    ASSUME NEW s \in Seq(Part), NEW t \in Seq(Part), NEW u \in Seq(Part)
    PROVE  (s \o t) \o u = s \o (t \o u)
<1> DEFINE S == Part
<1> HIDE DEF S
<1>1. s \in Seq(S) /\ t \in Seq(S) /\ u \in Seq(S)
  BY DEF S
<1> QED BY <1>1, ConcatAssociative

(* Several whole messages: as long as none has to wait, their parts are on *)
(* the wire, in order.                                                     *)
LEMMA WriteAllSent ==
    ASSUME NEW k, ConnOK(k), NEW ms \in Seq(Write), NEW texts,
           \A i \in 1 .. Len(ms) : ms[i] = Message(texts[i]) /\ texts[i] \in Text,
           ~WriteAll(k, ms).congested
    PROVE  WriteAll(k, ms).wire = k.wire \o PartsOf(texts, Len(ms))
<1> DEFINE w == Writes(k, ms)
           Fine(i) == /\ ConnOK(w[i])
                      /\ w[i].congested \/ (~k.congested /\ w[i].wire = k.wire \o PartsOf(texts, i))
           Bad == {i \in Nat : i \in 0 .. Len(ms) /\ ~Fine(i)}
<1>1. Len(ms) \in Nat
  OBVIOUS
<1>2. /\ w[0] = k /\ \A i \in 1 .. Len(ms) : w[i] = StartWrite(w[i - 1], ms[i])
  BY <1>1, WritesDef
<1>3. k.wire \in Seq(Part)
  BY ConnFields DEF ConnOK
<1> HIDE DEF w
<1>4. Fine(0)
  <2>1. PartsOf(texts, 0) = <<>>
    BY DEF PartsOf
  <2>2. k.wire \o <<>> = k.wire
    BY <1>3
  <2> QED BY <1>2, <2>1, <2>2
<1>5. ASSUME NEW i \in 1 .. Len(ms), Fine(i - 1) PROVE Fine(i)
  <2> DEFINE m == ms[i]
             x == w[i - 1]
             P == PartsOf(texts, i - 1)
             R == <<<<texts[i], 1>>, <<texts[i], 2>>>>
  <2>1. m \in Write /\ m.from = 1 /\ m.text = texts[i] /\ i - 1 \in Nat
    <3>1. m = Message(texts[i]) /\ m \in Write
      OBVIOUS
    <3>2. Message(texts[i]).from = 1 /\ Message(texts[i]).text = texts[i]
      BY DEF Message
    <3> HIDE DEF m
    <3> QED BY <1>1, <3>1, <3>2
  <2>2. ConnOK(x) /\ (x.congested \/ (~k.congested /\ x.wire = k.wire \o P))
    BY <1>5
  <2>3. w[i] = StartWrite(x, m)
    BY <1>2
  <2>4. P \in Seq(Part)
    <3>1. \A j \in 1 .. i - 1 : texts[j] \in Text
      OBVIOUS
    <3> QED BY <2>1, <3>1, PartsOfIs
  <2>5. PartsOf(texts, i) = P \o R
    <3>1. \A j \in 1 .. (i - 1) + 1 : texts[j] \in Text
      OBVIOUS
    <3>2. (i - 1) + 1 = i
      OBVIOUS
    <3> QED BY <2>1, <3>1, <3>2, PartsOfMore
  <2>6. Remaining(m) = R /\ Remaining(m) \in Seq(Part)
    BY <2>1, RemainingIs, RemainingParts
  <2> HIDE DEF m, x, P, R, Fine
  <2>7. /\ ConnOK(StartWrite(x, m))
        /\ StartWrite(x, m).congested
             \/ (~x.congested /\ StartWrite(x, m).wire = x.wire \o Remaining(m))
    BY <2>1, <2>2, StartWriteOK
  <2>8. (k.wire \o P) \o R = k.wire \o (P \o R)
    <3>1. R \in Seq(Part)
      BY <2>6
    <3> QED BY ONLY <1>3, <2>4, <3>1, PartsAssociate
  <2>9. CASE StartWrite(x, m).congested
    BY <2>3, <2>7, <2>9 DEF Fine
  <2>10. CASE ~StartWrite(x, m).congested
    <3>1. ~k.congested /\ StartWrite(x, m).wire = k.wire \o PartsOf(texts, i)
      BY <2>2, <2>5, <2>6, <2>7, <2>8, <2>10
    <3> QED BY <2>3, <2>7, <3>1 DEF Fine
  <2> QED BY <2>9, <2>10
<1>6. ASSUME Bad # {} PROVE FALSE
  <2>1. PICK i \in Bad : \A j \in Bad : i <= j
    BY <1>6, LeastNat
  <2>2. i # 0
    BY <1>4, <2>1
  <2>3. i \in 1 .. Len(ms) /\ i - 1 \in Nat /\ i - 1 \in 0 .. Len(ms) /\ i - 1 \notin Bad
    BY <1>1, <2>1, <2>2
  <2> HIDE DEF Fine
  <2> QED BY <1>5, <2>1, <2>3
<1>7. Fine(Len(ms))
  <2> HIDE DEF Fine
  <2> QED BY <1>1, <1>6
<1> QED BY <1>7 DEF WriteAll, w

-----------------------------------------------------------------------------
(***************************************************************************)
(*                       The tables and the replies                        *)
(***************************************************************************)

(* What TypeOK says of the tables, and that they are finite.               *)
TablesOK(tb) ==
    /\ DOMAIN tb = Tables
    /\ \A t \in Tables : \A id \in DOMAIN tb[t] : id \in Int /\ tb[t][id] \in Names
    /\ \A t \in Tables : IsFiniteSet(DOMAIN tb[t])

(* A record is a number and a name.                                        *)
LEMMA DecodedType ==
    ASSUME NEW command \in Commands, command.cmd = "INSERT"
    PROVE  Decoded(command).id \in Int /\ Decoded(command).name \in Names
<1> DEFINE noName == ""
<1>1. command.name \in Names /\ noName \in Names
  BY Zenon DEF Names
<1>2. CASE command.decodes
  <2>1. command.id \in Int
    BY <1>2, ScriptsAssumption
  <2> QED BY <1>1, <1>2, <2>1 DEF Decoded
<1>3. CASE ~command.decodes
  <2>1. Decoded(command) = [id |-> 0, name |-> noName]
    BY <1>3, Zenon DEF Decoded
  <2> HIDE DEF noName
  <2>2. Decoded(command).id = 0 /\ Decoded(command).name = noName
    BY <2>1
  <2> QED BY <1>1, <2>2
<1> QED BY <1>2, <1>3

(* What insert does to a table that does not have the id, and else.        *)
LEMMA InsertNew ==
    ASSUME NEW t \in Tables, NEW id, NEW name, id \notin Ids(t)
    PROVE  /\ insert(t, id, name).done
           /\ insert(t, id, name).table = [table EXCEPT ![t] = WithRecord(@, id, name)]
BY DEF insert

(* An id that is there, or a table that is not.                            *)
LEMMA InsertOld ==
    ASSUME NEW t, NEW id, NEW name, t \in Tables => id \in Ids(t)
    PROVE  ~insert(t, id, name).done /\ insert(t, id, name).table = table
BY DEF insert

(* The reply and the tables of each kind of command.                       *)
LEMMA InsertCommand ==
    ASSUME NEW command, command.cmd = "INSERT"
    PROVE  LET record == Decoded(command)
               result == insert(command.table, record.id, record.name)
           IN  process_command(command) =
                 [table |-> result.table,
                  reply |-> <<IF result.done THEN OK ELSE <<"ERR duplicate", record.id>>>>]
BY DEF process_command

(* TRUNCATE.                                                               *)
LEMMA TruncateCommand ==
    ASSUME NEW command, command.cmd = "TRUNCATE"
    PROVE  process_command(command) = [table |-> truncate(command.table), reply |-> <<OK>>]
BY DEF process_command

(* The joins.                                                              *)
LEMMA JoinCommands ==
    ASSUME NEW command
    PROVE  /\ command.cmd = "INTERSECTION" =>
                process_command(command) = [table |-> table, reply |-> Append(intersection, OK)]
           /\ command.cmd = "SYMMETRIC_DIFFERENCE" =>
                process_command(command)
                  = [table |-> table, reply |-> Append(symmetric_difference, OK)]
BY DEF process_command

(* All else.                                                               *)
LEMMA UnknownCommand ==
    ASSUME NEW command,
           command.cmd \notin {"INSERT", "TRUNCATE", "INTERSECTION", "SYMMETRIC_DIFFERENCE"}
    PROVE  process_command(command) = [table |-> table, reply |-> <<Unknown>>]
BY DEF process_command

-----------------------------------------------------------------------------
(* The ids below one of a set, and how many they are.                      *)
Below(ids, x) == {y \in ids : y < x}
Rank(ids, x) == Cardinality(Below(ids, x))

(* Ranks are different numbers below the size of the set.                  *)
LEMMA RankIs ==
    ASSUME NEW ids, ids \subseteq Int, IsFiniteSet(ids)
    PROVE  /\ Cardinality(ids) \in Nat
           /\ \A x \in ids : Rank(ids, x) \in 0 .. Cardinality(ids) - 1
           /\ \A x, y \in ids : x < y => Rank(ids, x) < Rank(ids, y)
<1> DEFINE n == Cardinality(ids)
<1>1. n \in Nat
  BY FS_CardinalityType
<1>2. ASSUME NEW x \in ids
      PROVE  /\ IsFiniteSet(Below(ids, x)) /\ Rank(ids, x) \in Nat
             /\ Rank(ids, x) <= n - 1 /\ x \notin Below(ids, x)
  <2>1. x \notin Below(ids, x)
    BY DEF Below
  <2>2. Below(ids, x) \in SUBSET (ids \ {x})
    BY <2>1 DEF Below
  <2>3. IsFiniteSet(ids \ {x}) /\ Cardinality(ids \ {x}) = n - 1
    BY FS_RemoveElement
  <2>4. IsFiniteSet(Below(ids, x)) /\ Cardinality(Below(ids, x)) <= n - 1
    BY <2>2, <2>3, FS_Subset
  <2>5. Cardinality(Below(ids, x)) \in Nat
    BY <2>4, FS_CardinalityType
  <2> QED BY <2>1, <2>4, <2>5 DEF Rank
<1>3. ASSUME NEW x \in ids, NEW y \in ids, x < y PROVE Rank(ids, x) < Rank(ids, y)
  <2> DEFINE S == Below(ids, x) \cup {x}
  <2>1. Cardinality(S) = Rank(ids, x) + 1
    <3>1. IsFiniteSet(Below(ids, x)) /\ x \notin Below(ids, x)
      BY <1>2
    <3> QED BY <3>1, FS_AddElement DEF Rank
  <2>2. S \in SUBSET Below(ids, y)
    <3>1. ASSUME NEW z \in Below(ids, x) PROVE z \in ids /\ z < y
      <4>1. z \in ids /\ z < x
        BY DEF Below
      <4>2. z \in Int /\ x \in Int /\ y \in Int
        BY <4>1
      <4> QED BY <4>1, <4>2, <1>3
    <3>2. x \in ids /\ x < y
      BY <1>3
    <3> QED BY <3>1, <3>2 DEF Below
  <2>3. Cardinality(S) <= Rank(ids, y)
    BY <1>2, <2>2, FS_Subset DEF Rank
  <2>4. Rank(ids, x) \in Nat /\ Rank(ids, y) \in Nat
    BY <1>2
  <2> HIDE DEF S
  <2> QED BY <2>1, <2>3, <2>4
<1> QED BY <1>1, <1>2, <1>3

(* So each number below the size is the rank of an id.                     *)
LEMMA RankTaken ==
    ASSUME NEW ids, ids \subseteq Int, IsFiniteSet(ids), NEW i \in 1 .. Cardinality(ids)
    PROVE  \E x \in ids : Rank(ids, x) = i - 1
<1> DEFINE n == Cardinality(ids)
           f == [x \in ids |-> Rank(ids, x)]
<1>1. n \in Nat
  BY RankIs
<1>2. IsFiniteSet(0 .. n - 1) /\ Cardinality(0 .. n - 1) = n
  <2>1. 0 \in Int /\ n - 1 \in Int
    BY <1>1
  <2>2. IsFiniteSet(0 .. n - 1)
        /\ Cardinality(0 .. n - 1) = IF 0 > n - 1 THEN 0 ELSE n - 1 - 0 + 1
    BY <2>1, FS_Interval, Zenon
  <2>3. (IF 0 > n - 1 THEN 0 ELSE n - 1 - 0 + 1) = n
    BY <1>1
  <2> HIDE DEF n
  <2> QED BY ONLY <2>2, <2>3
<1>3. f \in [ids -> 0 .. n - 1]
  BY RankIs
<1>4. \A x, y \in ids : f[x] = f[y] => x = y
  <2> SUFFICES ASSUME NEW x \in ids, NEW y \in ids, x # y PROVE f[x] # f[y]
    OBVIOUS
  <2>1. x \in Int /\ y \in Int
    OBVIOUS
  <2>2. x < y \/ y < x
    BY <2>1
  <2>3. /\ Rank(ids, x) \in Int /\ Rank(ids, y) \in Int
        /\ x < y => Rank(ids, x) < Rank(ids, y)
        /\ y < x => Rank(ids, y) < Rank(ids, x)
    <3>1. Rank(ids, x) \in 0 .. n - 1 /\ Rank(ids, y) \in 0 .. n - 1
      BY RankIs
    <3>2. /\ x < y => Rank(ids, x) < Rank(ids, y)
          /\ y < x => Rank(ids, y) < Rank(ids, x)
      BY RankIs
    <3> QED BY <3>1, <3>2
  <2>4. f[x] = Rank(ids, x) /\ f[y] = Rank(ids, y)
    OBVIOUS
  <2> HIDE DEF f
  <2> QED BY <2>2, <2>3, <2>4
<1> HIDE DEF f
<1>5. f \in Injection(ids, 0 .. n - 1)
  BY <1>3, <1>4 DEF Injection, IsInjective
<1>6. f \in Surjection(ids, 0 .. n - 1)
  BY <1>2, <1>5, FS_Injection
<1>7. i - 1 \in 0 .. n - 1
  BY <1>1
<1>8. PICK x \in ids : f[x] = i - 1
  BY <1>6, <1>7 DEF Surjection
<1> QED BY <1>8 DEF f

(* Ascending lists the ids of a finite set in ascending order.             *)
LEMMA AscendingIs ==
    ASSUME NEW ids, ids \subseteq Int, IsFiniteSet(ids)
    PROVE  /\ Cardinality(ids) \in Nat
           /\ Ascending(ids) \in [1 .. Cardinality(ids) -> ids]
           /\ \A i, j \in 1 .. Cardinality(ids) : i < j => Ascending(ids)[i] < Ascending(ids)[j]
<1> DEFINE n == Cardinality(ids)
           A == Ascending(ids)
<1>1. n \in Nat
  BY RankIs
<1>2. ASSUME NEW i \in 1 .. n PROVE A[i] \in ids /\ Rank(ids, A[i]) = i - 1
  <2>1. A[i] = CHOOSE x \in ids : Rank(ids, x) = i - 1
    BY Zenon DEF Ascending, Rank, Below
  <2>2. \E x \in ids : Rank(ids, x) = i - 1
    BY RankTaken
  <2> HIDE DEF A
  <2> QED BY <2>1, <2>2
<1>3. A \in [1 .. n -> ids]
  <2>1. A = [i \in 1 .. n |-> A[i]]
    <3> DEFINE P(i) == CHOOSE x \in ids : Cardinality({y \in ids : y < x}) = i - 1
    <3>1. A = [i \in 1 .. n |-> P(i)]
      BY Zenon DEF Ascending
    <3> HIDE DEF A, P
    <3> QED BY <3>1
  <2> HIDE DEF A
  <2> QED BY <1>2, <2>1
<1> HIDE DEF A
<1>4. ASSUME NEW i \in 1 .. n, NEW j \in 1 .. n, i < j PROVE A[i] < A[j]
  <2>1. A[i] \in ids /\ A[j] \in ids /\ Rank(ids, A[i]) = i - 1 /\ Rank(ids, A[j]) = j - 1
    BY <1>2
  <2>2. i - 1 < j - 1 /\ i \in Int /\ j \in Int
    BY <1>1, <1>4
  <2>3. A[i] \in Int /\ A[j] \in Int
    BY <2>1
  <2>4. A[i] # A[j]
    BY <2>1, <2>2
  <2>5. ~(A[j] < A[i])
    <3>1. A[j] < A[i] => Rank(ids, A[j]) < Rank(ids, A[i])
      BY <2>1, RankIs
    <3> QED BY <2>1, <2>2, <3>1
  <2> QED BY <2>3, <2>4, <2>5
<1> QED BY <1>1, <1>3, <1>4 DEF A

-----------------------------------------------------------------------------
(* The texts of replies.                                                   *)
LEMMA TextIs ==
    /\ OK \in Text /\ Unknown \in Text /\ Unspecified \in Text
    /\ \A id \in Int : <<"ERR duplicate", id>> \in Text
    /\ \A id \in Int, a, b \in Names : <<"row", id, a, b>> \in Text
<1>1. OK \in Text /\ Unknown \in Text /\ Unspecified \in Text
  BY Zenon DEF Text
<1>2. ASSUME NEW id \in Int PROVE <<"ERR duplicate", id>> \in Text
  <2>1. <<"ERR duplicate", id>> \in {"ERR duplicate"} \X Int
    OBVIOUS
  <2> QED BY <2>1, Zenon DEF Text
<1>3. ASSUME NEW id \in Int, NEW a \in Names, NEW b \in Names
      PROVE  <<"row", id, a, b>> \in Text
  <2>1. <<"row", id, a, b>> \in {"row"} \X Int \X Names \X Names
    OBVIOUS
  <2> QED BY <2>1, Zenon DEF Text
<1> QED BY <1>1, <1>2, <1>3

(* One text is a sequence of texts.                                        *)
LEMMA OneText == ASSUME NEW x \in Text PROVE <<x>> \in Seq(Text)
OBVIOUS

(* The rows of some ids, in ascending order.                               *)
RowsOf(S) == [i \in DOMAIN Ascending(S) |-> Row(Ascending(S)[i])]

(* Rows are texts.                                                         *)
LEMMA RowsOfIs ==
    ASSUME TablesOK(table), NEW S, S \subseteq Int, IsFiniteSet(S)
    PROVE  RowsOf(S) \in Seq(Text)
<1>1. \A t \in Tables : \A id : NameIn(t, id) \in Names
  <2> DEFINE noName == ""
  <2>1. noName \in Names
    BY Zenon DEF Names
  <2> SUFFICES ASSUME NEW t \in Tables, NEW id PROVE NameIn(t, id) \in Names
    OBVIOUS
  <2>2. CASE id \in Ids(t)
    <3>1. table[t][id] \in Names
      BY <2>2 DEF TablesOK, Ids
    <3> QED BY <2>2, <3>1, Zenon DEF NameIn
  <2>3. CASE id \notin Ids(t)
    <3>1. NameIn(t, id) = noName
      BY <2>3, Zenon DEF NameIn
    <3> QED BY <2>1, <3>1, Zenon
  <2> QED BY <2>2, <2>3
<1>2. "A" \in Tables /\ "B" \in Tables
  BY DEF Tables
<1>3. \A id \in Int : Row(id) \in Text
  BY <1>1, <1>2, TextIs, Zenon DEF Row
<1> DEFINE n == Cardinality(S)
           A == Ascending(S)
<1>4. n \in Nat /\ A \in [1 .. n -> S]
  BY AscendingIs
<1> HIDE DEF n, A
<1>5. [i \in DOMAIN A |-> Row(A[i])] \in [1 .. n -> Text]
  BY <1>3, <1>4
<1>6. [i \in DOMAIN A |-> Row(A[i])] \in Seq(Text)
  BY <1>4, <1>5
<1> QED BY <1>6, Zenon DEF RowsOf, A

(* The joins list rows of finitely many ids.                               *)
LEMMA JoinsAre ==
    ASSUME TablesOK(table)
    PROVE  /\ IsFiniteSet(Ids("A") \cap Ids("B")) /\ Ids("A") \cap Ids("B") \subseteq Int
           /\ IsFiniteSet((Ids("A") \cup Ids("B")) \ (Ids("A") \cap Ids("B")))
           /\ (Ids("A") \cup Ids("B")) \ (Ids("A") \cap Ids("B")) \subseteq Int
           /\ intersection = RowsOf(Ids("A") \cap Ids("B"))
           /\ symmetric_difference
                = RowsOf((Ids("A") \cup Ids("B")) \ (Ids("A") \cap Ids("B")))
<1>1. "A" \in Tables /\ "B" \in Tables
  BY DEF Tables
<1>2. /\ IsFiniteSet(Ids("A")) /\ Ids("A") \subseteq Int
      /\ IsFiniteSet(Ids("B")) /\ Ids("B") \subseteq Int
  BY <1>1 DEF TablesOK, Ids
<1>3. IsFiniteSet(Ids("A") \cap Ids("B"))
  BY <1>2, FS_Intersection
<1>4. IsFiniteSet(Ids("A") \cup Ids("B"))
  BY <1>2, FS_Union
<1>5. IsFiniteSet((Ids("A") \cup Ids("B")) \ (Ids("A") \cap Ids("B")))
  BY <1>4, FS_Difference
<1>6. /\ intersection = RowsOf(Ids("A") \cap Ids("B"))
      /\ symmetric_difference = RowsOf((Ids("A") \cup Ids("B")) \ (Ids("A") \cap Ids("B")))
  BY Zenon DEF intersection, symmetric_difference, RowsOf
<1> QED BY <1>2, <1>3, <1>5, <1>6

(* A table with a record more is as TypeOK says.                           *)
LEMMA InsertKeeps ==
    ASSUME TablesOK(table), NEW t \in Tables, NEW id \in Int, NEW name \in Names
    PROVE  TablesOK([table EXCEPT ![t] = WithRecord(@, id, name)])
<1> DEFINE new == WithRecord(table[t], id, name)
           after == [table EXCEPT ![t] = new]
<1>1. /\ DOMAIN after = Tables /\ after[t] = new
      /\ \A u \in Tables : u # t => after[u] = table[u]
  BY DEF TablesOK
<1>2. /\ DOMAIN new = DOMAIN table[t] \cup {id} /\ new[id] = name
      /\ \A x \in DOMAIN table[t] : x # id => new[x] = table[t][x]
  <2> DEFINE old == table[t]
  <2> HIDE DEF old
  <2>1. /\ DOMAIN WithRecord(old, id, name) = DOMAIN old \cup {id}
        /\ WithRecord(old, id, name)[id] = name
        /\ \A x \in DOMAIN old : x # id => WithRecord(old, id, name)[x] = old[x]
    BY DEF WithRecord
  <2> QED BY <2>1, Zenon DEF old
<1> HIDE DEF after, new
<1>3. IsFiniteSet(DOMAIN new)
  <2>1. IsFiniteSet(DOMAIN table[t])
    BY DEF TablesOK
  <2> QED BY <1>2, <2>1, FS_AddElement
<1>4. \A x \in DOMAIN new : x \in Int /\ new[x] \in Names
  BY <1>2 DEF TablesOK
<1>5. TablesOK(after)
  BY <1>1, <1>3, <1>4, Zenon DEF TablesOK
<1> QED BY <1>5 DEF after, new

(* An emptied table is as TypeOK says.                                     *)
LEMMA TruncateKeeps ==
    ASSUME TablesOK(table), NEW t
    PROVE  TablesOK(truncate(t))
<1>1. CASE t \in Tables
  <2> DEFINE none == <<>>
             after == [table EXCEPT ![t] = none]
  <2>1. DOMAIN none = {} /\ IsFiniteSet({})
    BY FS_EmptySet
  <2> HIDE DEF none
  <2>2. /\ DOMAIN after = Tables /\ after[t] = none
        /\ \A u \in Tables : u # t => after[u] = table[u]
    BY <1>1 DEF TablesOK
  <2> HIDE DEF after
  <2>3. TablesOK(after)
    BY <2>1, <2>2, Zenon DEF TablesOK
  <2> QED BY <1>1, <2>3, Zenon DEF truncate, after, none
<1>2. CASE t \notin Tables
  BY <1>2 DEF truncate
<1> QED BY <1>1, <1>2

(* Commands keep the types of the tables, and their replies are texts.     *)
LEMMA CommandTypes ==
    ASSUME TablesOK(table), NEW command \in Commands
    PROVE  /\ TablesOK(process_command(command).table)
           /\ process_command(command).reply \in Seq(Text)
<1> DEFINE result == process_command(command)
<1>1. CASE command.cmd = "INSERT"
  <2> DEFINE record == Decoded(command)
             done == insert(command.table, record.id, record.name).done
             tables == insert(command.table, record.id, record.name).table
             text == IF done THEN OK ELSE <<"ERR duplicate", record.id>>
  <2>1. record.id \in Int /\ record.name \in Names
    BY <1>1, DecodedType
  <2>2. result = [table |-> tables, reply |-> <<text>>]
    BY <1>1, InsertCommand
  <2> HIDE DEF record
  <2>3. TablesOK(tables)
    <3>1. CASE command.table \in Tables /\ record.id \notin Ids(command.table)
      <4> DEFINE t == command.table
      <4>1. tables = [table EXCEPT ![t] = WithRecord(@, record.id, record.name)]
        BY <3>1, InsertNew
      <4>2. t \in Tables
        BY <3>1
      <4> HIDE DEF t, tables
      <4> QED BY <2>1, <4>1, <4>2, InsertKeeps
    <3>2. CASE command.table \in Tables => record.id \in Ids(command.table)
      BY <3>2, InsertOld
    <3> QED BY <3>1, <3>2
  <2>4. text \in Text
    BY <2>1, TextIs, Zenon
  <2> HIDE DEF tables, text
  <2>5. result.table = tables /\ result.reply = <<text>>
    BY <2>2
  <2>6. <<text>> \in Seq(Text)
    BY <2>4
  <2> QED BY <2>3, <2>5, <2>6, Zenon
<1>2. CASE command.cmd = "TRUNCATE"
  <2>1. result = [table |-> truncate(command.table), reply |-> <<OK>>]
    BY <1>2, TruncateCommand
  <2>2. result.table = truncate(command.table) /\ result.reply = <<OK>>
    BY <2>1
  <2>3. <<OK>> \in Seq(Text)
    <3>1. OK \in Text
      BY TextIs, Zenon
    <3> QED BY <3>1, OneText
  <2> QED BY <2>2, <2>3, TruncateKeeps, Zenon
<1>3. CASE command.cmd = "INTERSECTION"
  <2>1. result = [table |-> table, reply |-> Append(intersection, OK)]
    BY <1>3, JoinCommands
  <2>2. result.table = table /\ result.reply = Append(intersection, OK)
    BY <2>1
  <2>3. Append(intersection, OK) \in Seq(Text)
    BY JoinsAre, RowsOfIs, TextIs, AppendProperties
  <2> QED BY <2>2, <2>3, Zenon
<1>4. CASE command.cmd = "SYMMETRIC_DIFFERENCE"
  <2>1. result = [table |-> table, reply |-> Append(symmetric_difference, OK)]
    BY <1>4, JoinCommands
  <2>2. result.table = table /\ result.reply = Append(symmetric_difference, OK)
    BY <2>1
  <2>3. Append(symmetric_difference, OK) \in Seq(Text)
    BY JoinsAre, RowsOfIs, TextIs, AppendProperties
  <2> QED BY <2>2, <2>3, Zenon
<1>5. CASE command.cmd \notin {"INSERT", "TRUNCATE", "INTERSECTION", "SYMMETRIC_DIFFERENCE"}
  <2>1. result = [table |-> table, reply |-> <<Unknown>>]
    BY <1>5, UnknownCommand
  <2>2. result.table = table /\ result.reply = <<Unknown>>
    BY <2>1
  <2>3. <<Unknown>> \in Seq(Text)
    <3>1. Unknown \in Text
      BY TextIs, Zenon
    <3> QED BY <3>1, OneText
  <2> QED BY <2>2, <2>3, Zenon
<1> QED BY <1>1, <1>2, <1>3, <1>4, <1>5

-----------------------------------------------------------------------------
(***************************************************************************)
(*                    What handlers do to a connection                     *)
(***************************************************************************)

(* Sent late, a message has as many parts.                                 *)
LEMMA LateIs ==
    ASSUME NEW m \in Write
    PROVE  Late(m) \in Write /\ Late(m).from = m.from
<1>1. CASE m.text \in Literals
  BY <1>1 DEF Late
<1>2. CASE m.text \notin Literals
  <2>1. Late(m) = [m EXCEPT !.text = Unspecified]
    BY <1>2 DEF Late
  <2>2. Unspecified \in Text
    BY TextIs, Zenon
  <2> QED BY <2>1, <2>2 DEF Write
<1> QED BY <1>1, <1>2

(* A message is a write of two parts.                                      *)
LEMMA MessageIs ==
    ASSUME NEW text \in Text
    PROVE  Message(text) \in Write /\ Message(text).from = 1
BY DEF Message, Write

(* The idle connection.                                                    *)
LEMMA IdleIs ==
    /\ ConnOK(IdleConn) /\ ~IdleConn.congested /\ Pending(IdleConn) = 0
    /\ IdleConn.wire = <<>> /\ IdleConn.ops = <<>> /\ IdleConn.posted = <<>>
    /\ IdleConn.try_speculative
<1>1. /\ IdleConn.wire = <<>> /\ IdleConn.ops = <<>> /\ IdleConn.posted = <<>>
      /\ IdleConn.try_speculative /\ ~IdleConn.congested
  BY DEF IdleConn
<1>2. IdleConn \in Conn
  BY DEF IdleConn, Conn
<1>3. Len(IdleConn.wire) = 0 /\ Len(IdleConn.posted) = 0
  BY <1>1
<1>4. ConnOK(IdleConn)
  BY <1>1, <1>2, <1>3, CapacityAssumption DEF ConnOK
<1>5. Pending(IdleConn) = 0
  <2>1. PartsWaiting(IdleConn.ops) = 0 /\ PartsWaiting(IdleConn.posted) = 0
    BY <1>1, PartsNone
  <2> QED BY <1>3, <2>1 DEF Pending
<1> QED BY <1>1, <1>4, <1>5

(* A writing side with other posted writes.                                *)
LEMMA WithPosted ==
    ASSUME NEW k \in Conn, NEW other
    PROVE  [k EXCEPT !.posted = other] =
             K(k.wire, k.ops, other, k.try_speculative, k.congested)
<1> DEFINE r == [k EXCEPT !.posted = other]
<1>1. r = [k EXCEPT !.posted = other]
  OBVIOUS
<1> HIDE DEF r
<1>2. r = K(k.wire, k.ops, other, k.try_speculative, k.congested)
  BY <1>1, ConnIs DEF K, Conn
<1> QED BY <1>1, <1>2, Zenon

(* A writing side with other waiting writes, which are tried at once.      *)
LEMMA WithOps ==
    ASSUME NEW k \in Conn, NEW other, NEW yes
    PROVE  [k EXCEPT !.ops = other, !.try_speculative = yes] =
             K(k.wire, other, k.posted, yes, k.congested)
<1> DEFINE r == [k EXCEPT !.ops = other, !.try_speculative = yes]
<1>1. r = [k EXCEPT !.ops = other, !.try_speculative = yes]
  OBVIOUS
<1> HIDE DEF r
<1>2. r = K(k.wire, other, k.posted, yes, k.congested)
  BY <1>1, ConnIs DEF K, Conn
<1> QED BY <1>1, <1>2, Zenon

(* A posted write is taken up.                                             *)
LEMMA TakePosted ==
    ASSUME NEW k, ConnOK(k), k.posted # <<>>
    PROVE  LET taken == [k EXCEPT !.posted = Tail(@)]
               m == Late(Head(k.posted))
           IN  /\ ConnOK(taken) /\ taken.congested /\ k.congested
               /\ m \in Write /\ Pending(k) = Pending(taken) + (3 - m.from)
<1> DEFINE rest == Tail(k.posted)
           r == K(k.wire, k.ops, rest, k.try_speculative, k.congested)
           h == Head(k.posted)
<1>1. /\ k \in Conn /\ k.wire \in Seq(Part) /\ k.ops \in Seq(Write) /\ k.posted \in Seq(Write)
      /\ k.try_speculative \in BOOLEAN /\ k.congested \in BOOLEAN
  BY ConnFields DEF ConnOK
<1>2. k.congested
  BY DEF ConnOK
<1>3. [k EXCEPT !.posted = Tail(@)] = r
  BY <1>1, WithPosted, Zenon
<1>4. /\ rest \in Seq(Write) /\ h \in Write
      /\ PartsWaiting(k.posted) = PartsWaiting(rest) + (3 - h.from)
  BY <1>1, PartsTail
<1>5. \A i \in 1 .. Len(rest) : rest[i].from = 2
  <2>1. \A i \in 1 .. Len(k.posted) : k.posted[i].from = 2
    BY DEF ConnOK
  <2>2. \A i \in 1 .. Len(rest) : i + 1 \in 1 .. Len(k.posted) /\ rest[i] = k.posted[i + 1]
    BY <1>1
  <2> HIDE DEF rest
  <2> QED BY <2>1, <2>2
<1> HIDE DEF rest, h
<1>6. Len(k.wire) <= Capacity
  BY DEF ConnOK
<1>7. ConnOK(r)
  BY <1>1, <1>2, <1>4, <1>5, <1>6, KOK
<1>8. r.congested = k.congested
  BY KFields
<1>9. Late(h) \in Write /\ Late(h).from = h.from
  BY <1>4, LateIs
<1>10. Pending(k) = Pending(r) + (3 - h.from)
  <2>1. Pending(r) = Len(k.wire) + PartsWaiting(k.ops) + PartsWaiting(rest)
    BY ONLY KPending
  <2>2. Pending(k) = Len(k.wire) + PartsWaiting(k.ops) + PartsWaiting(k.posted)
    BY DEF Pending
  <2>3. Len(k.wire) \in Int /\ PartsWaiting(k.ops) \in Int /\ PartsWaiting(rest) \in Int
    BY <1>1, <1>4, PartsInt
  <2>4. h.from \in Int
    BY <1>4 DEF Write
  <2> QED BY ONLY <1>4, <2>1, <2>2, <2>3, <2>4
<1> HIDE DEF r
<1> QED BY <1>2, <1>3, <1>7, <1>8, <1>9, <1>10 DEF h

(* The waiting writes are taken up.                                        *)
LEMMA TakeOps ==
    ASSUME NEW k, ConnOK(k), k.ops # <<>> \/ ~k.try_speculative
    PROVE  LET taken == [k EXCEPT !.ops = <<>>, !.try_speculative = TRUE]
               ms == [i \in DOMAIN k.ops |-> Late(k.ops[i])]
           IN  /\ ConnOK(taken) /\ taken.congested /\ k.congested
               /\ ms \in Seq(Write) /\ Pending(k) = Pending(taken) + PartsWaiting(ms)
<1> DEFINE yes == TRUE
           none == <<>>
           r == K(k.wire, none, k.posted, yes, k.congested)
           ms == [i \in DOMAIN k.ops |-> Late(k.ops[i])]
<1>1. /\ k \in Conn /\ k.wire \in Seq(Part) /\ k.ops \in Seq(Write) /\ k.posted \in Seq(Write)
      /\ k.try_speculative \in BOOLEAN /\ k.congested \in BOOLEAN
  BY ConnFields DEF ConnOK
<1>2. k.congested
  BY DEF ConnOK
<1>3. [k EXCEPT !.ops = <<>>, !.try_speculative = TRUE] = r
  BY <1>1, WithOps, Zenon
<1>4. yes \in BOOLEAN /\ yes /\ none \in Seq(Write) /\ none = <<>>
  OBVIOUS
<1>5. ms \in Seq(Write) /\ Len(ms) = Len(k.ops) /\ PartsWaiting(ms) = PartsWaiting(k.ops)
  <2> DEFINE ops == k.ops
             n == Len(ops)
  <2>1. ops \in Seq(Write) /\ DOMAIN ops = 1 .. n /\ n \in Nat /\ \A i \in 1 .. n : ops[i] \in Write
    BY <1>1
  <2> HIDE DEF ops, n
  <2>2. \A i \in 1 .. n : Late(ops[i]) \in Write /\ Late(ops[i]).from = ops[i].from
    BY <2>1, LateIs
  <2> DEFINE late == [i \in DOMAIN ops |-> Late(ops[i])]
  <2>3. /\ late \in [1 .. n -> Write] /\ \A i \in 1 .. n : late[i].from = ops[i].from
    BY <2>1, <2>2
  <2> HIDE DEF late
  <2>4. late \in Seq(Write) /\ Len(late) = n
    BY <2>1, <2>3
  <2>5. PartsWaiting(late) = PartsWaiting(ops)
    BY <2>1, <2>3, <2>4, PartsSame DEF n
  <2> QED BY <2>4, <2>5, Zenon DEF late, ops, n
<1>6. Len(k.wire) <= Capacity /\ \A i \in 1 .. Len(k.posted) : k.posted[i].from = 2
  BY DEF ConnOK
<1> HIDE DEF yes, none, ms
<1>7. ConnOK(r)
  BY <1>1, <1>2, <1>4, <1>6, KOK
<1>8. r.congested = k.congested
  BY KFields
<1>9. Pending(k) = Pending(r) + PartsWaiting(ms)
  <2>1. Pending(r) = Len(k.wire) + PartsWaiting(none) + PartsWaiting(k.posted)
    BY ONLY KPending
  <2>2. Pending(k) = Len(k.wire) + PartsWaiting(k.ops) + PartsWaiting(k.posted)
    BY DEF Pending
  <2>3. /\ Len(k.wire) \in Int /\ PartsWaiting(k.ops) \in Int /\ PartsWaiting(k.posted) \in Int
    BY <1>1, PartsInt
  <2>4. PartsWaiting(none) = 0
    BY <1>4, PartsNone
  <2> QED BY ONLY <1>5, <2>1, <2>2, <2>3, <2>4
<1> HIDE DEF r
<1> QED BY <1>2, <1>3, <1>5, <1>7, <1>8, <1>9 DEF ms

(* What is on the wire is received.                                        *)
LEMMA TakeWire ==
    ASSUME NEW k, ConnOK(k)
    PROVE  LET taken == [k EXCEPT !.wire = <<>>]
           IN  /\ ConnOK(taken) /\ taken.congested = k.congested /\ taken.wire = <<>>
               /\ k.wire \in Seq(Part) /\ Pending(k) = Pending(taken) + Len(k.wire)
<1> DEFINE none == <<>>
           r == K(none, k.ops, k.posted, k.try_speculative, k.congested)
<1>1. /\ k \in Conn /\ k.wire \in Seq(Part) /\ k.ops \in Seq(Write) /\ k.posted \in Seq(Write)
      /\ k.try_speculative \in BOOLEAN /\ k.congested \in BOOLEAN
  BY ConnFields DEF ConnOK
<1>2. [k EXCEPT !.wire = <<>>] = r
  BY <1>1 DEF Conn, K
<1>3. none \in Seq(Part) /\ none = <<>> /\ Len(none) = 0
  OBVIOUS
<1>4. /\ \A i \in 1 .. Len(k.posted) : k.posted[i].from = 2
      /\ k.posted # <<>> \/ k.ops # <<>> \/ ~k.try_speculative => k.congested
  BY DEF ConnOK
<1> HIDE DEF none
<1>5. Len(none) <= Capacity
  BY <1>3, CapacityAssumption
<1>6. ConnOK(r)
  BY <1>1, <1>3, <1>4, <1>5, KOK
<1>7. r.congested = k.congested /\ r.wire = none
  BY ONLY KFields
<1>8. Pending(k) = Pending(r) + Len(k.wire)
  <2>1. Pending(r) = Len(none) + PartsWaiting(k.ops) + PartsWaiting(k.posted)
    BY ONLY KPending
  <2>2. Pending(k) = Len(k.wire) + PartsWaiting(k.ops) + PartsWaiting(k.posted)
    BY DEF Pending
  <2>3. /\ Len(k.wire) \in Int /\ PartsWaiting(k.ops) \in Int /\ PartsWaiting(k.posted) \in Int
    BY <1>1, PartsInt
  <2> QED BY ONLY <1>3, <2>1, <2>2, <2>3
<1> HIDE DEF r
<1> QED BY <1>1, <1>2, <1>3, <1>6, <1>7, <1>8

-----------------------------------------------------------------------------
(***************************************************************************)
(*                             One client                                  *)
(***************************************************************************)

(* Halves and remainders beyond an even number.                            *)
LEMMA Shifting ==
    \A m, n, j \in Nat :
        j > 2 * m /\ j <= 2 * m + 2 * n =>
            /\ j - 2 * m \in 1 .. 2 * n
            /\ (j + 1) \div 2 = m + ((j - 2 * m + 1) \div 2)
            /\ j % 2 = (j - 2 * m) % 2
OBVIOUS

(* When a sequence is two others, one after the other.                     *)
LEMMA ConcatIs ==
    ASSUME NEW S, NEW s \in Seq(S), NEW t \in Seq(S), NEW r \in Seq(S),
           Len(r) = Len(s) + Len(t),
           \A j \in 1 .. Len(s) : r[j] = s[j],
           \A j \in Len(s) + 1 .. Len(s) + Len(t) : r[j] = t[j - Len(s)]
    PROVE  r = s \o t
<1> DEFINE st == s \o t
<1>1. st \in Seq(S) /\ Len(st) = Len(s) + Len(t)
  OBVIOUS
<1>2. \A j \in 1 .. Len(r) : r[j] = st[j]
  OBVIOUS
<1> HIDE DEF st
<1>3. r = st
  BY <1>1, <1>2
<1> QED BY <1>3 DEF st

(* The parts of two sequences of texts one after the other.                *)
LEMMA PartsOfBoth ==
    ASSUME NEW s \in Seq(Text), NEW t \in Seq(Text)
    PROVE  PartsOf(s \o t, Len(s \o t)) = PartsOf(s, Len(s)) \o PartsOf(t, Len(t))
<1> DEFINE m == Len(s)
           n == Len(t)
           st == s \o t
           P == PartsOf(s, m)
           Q == PartsOf(t, n)
           R == PartsOf(st, m + n)
<1>1. /\ m \in Nat /\ n \in Nat /\ st \in Seq(Text) /\ Len(st) = m + n
      /\ \A i \in 1 .. m : st[i] = s[i] /\ s[i] \in Text
      /\ \A i \in 1 .. n : st[m + i] = t[i] /\ t[i] \in Text
  OBVIOUS
<1>2. \A i \in 1 .. m + n : st[i] \in Text
  BY <1>1
<1> HIDE DEF m, n, st
<1>3. /\ P \in Seq(Part) /\ Len(P) = 2 * m /\ Q \in Seq(Part) /\ Len(Q) = 2 * n
      /\ R \in Seq(Part) /\ Len(R) = 2 * (m + n)
  BY <1>1, <1>2, PartsOfIs
<1>4. \A j \in 1 .. 2 * m : R[j] = P[j]
  <2> SUFFICES ASSUME NEW j \in 1 .. 2 * m PROVE R[j] = P[j]
    OBVIOUS
  <2>1. (j + 1) \div 2 \in 1 .. m
    BY <1>1, Halving
  <2>2. j \in 1 .. 2 * (m + n)
    BY <1>1
  <2>3. R[j] = <<st[(j + 1) \div 2], 2 - (j % 2)>>
    BY <2>2 DEF PartsOf
  <2>4. P[j] = <<s[(j + 1) \div 2], 2 - (j % 2)>>
    BY DEF PartsOf
  <2>5. st[(j + 1) \div 2] = s[(j + 1) \div 2]
    BY <1>1, <2>1
  <2> QED BY ONLY <2>3, <2>4, <2>5
<1>5. \A j \in 2 * m + 1 .. 2 * m + 2 * n : R[j] = Q[j - 2 * m]
  <2> SUFFICES ASSUME NEW j \in 2 * m + 1 .. 2 * m + 2 * n PROVE R[j] = Q[j - 2 * m]
    OBVIOUS
  <2> DEFINE i == j - 2 * m
             h == (i + 1) \div 2
             g == (j + 1) \div 2
  <2>1. j \in Nat /\ j > 2 * m /\ j <= 2 * m + 2 * n
    BY <1>1
  <2>2. i \in 1 .. 2 * n /\ g = m + h /\ j % 2 = i % 2
    BY <1>1, <2>1, Shifting
  <2>3. h \in 1 .. n
    BY <1>1, <2>2, Halving
  <2>4. j \in 1 .. 2 * (m + n)
    BY <1>1
  <2>5. R[j] = <<st[g], 2 - (j % 2)>>
    BY <2>4 DEF PartsOf
  <2>6. Q[i] = <<t[h], 2 - (i % 2)>>
    BY <2>2 DEF PartsOf
  <2> HIDE DEF g, h
  <2>7. st[g] = t[h]
    BY <1>1, <2>2, <2>3
  <2> QED BY ONLY <2>2, <2>5, <2>6, <2>7
<1> HIDE DEF P, Q, R
<1>6. R = P \o Q
  <2> DEFINE S == Part
  <2> HIDE DEF S
  <2>1. P \in Seq(S) /\ Q \in Seq(S) /\ R \in Seq(S)
    BY <1>3 DEF S
  <2>2. Len(R) = Len(P) + Len(Q)
    BY ONLY <1>1, <1>3
  <2>3. \A j \in 1 .. Len(P) : R[j] = P[j]
    BY ONLY <1>3, <1>4
  <2>4. \A j \in Len(P) + 1 .. Len(P) + Len(Q) : R[j] = Q[j - Len(P)]
    BY ONLY <1>3, <1>5
  <2> QED BY ONLY <2>1, <2>2, <2>3, <2>4, ConcatIs
<1> QED BY <1>1, <1>6 DEF P, Q, R, m, n, st

(* The messages of a reply, all of which have two parts.                   *)
Messages(reply) == [i \in DOMAIN reply |-> Message(reply[i])]

(* They are writes, one for each text.                                     *)
LEMMA MessagesAre ==
    ASSUME NEW reply \in Seq(Text)
    PROVE  /\ Messages(reply) \in Seq(Write) /\ Len(Messages(reply)) = Len(reply)
           /\ \A i \in 1 .. Len(reply) : /\ Messages(reply)[i] = Message(reply[i])
                                         /\ reply[i] \in Text
           /\ PartsWaiting(Messages(reply)) = 2 * Len(reply)
<1> DEFINE n == Len(reply)
           ms == Messages(reply)
<1>1. n \in Nat /\ DOMAIN reply = 1 .. n /\ \A i \in 1 .. n : reply[i] \in Text
  OBVIOUS
<1> HIDE DEF n
<1>2. \A i \in 1 .. n : ms[i] = Message(reply[i])
  BY <1>1 DEF Messages
<1>3. \A i \in 1 .. n : Message(reply[i]) \in Write /\ Message(reply[i]).from = 1
  BY <1>1, MessageIs
<1>4. ms \in [1 .. n -> Write]
  BY <1>1, <1>3 DEF Messages
<1> HIDE DEF ms
<1>5. ms \in Seq(Write) /\ Len(ms) = n /\ DOMAIN ms = 1 .. n
  BY <1>1, <1>4
<1>6. Halves(ms) = {}
  BY <1>2, <1>3, <1>5 DEF Halves
<1>7. PartsWaiting(ms) = 2 * n
  <2>1. PartsWaiting(ms) = 2 * Len(ms) - Cardinality(Halves(ms))
    BY <1>5, PartsInt
  <2>2. Cardinality({}) = 0
    BY FS_EmptySet
  <2> QED BY <1>1, <1>5, <1>6, <2>1, <2>2
<1> QED BY <1>1, <1>2, <1>5, <1>7 DEF ms, n

(* What holds of a client's session s, writing side k, parts received and  *)
(* texts owed: no part of a text is lost, and while no write had to wait   *)
(* the parts received and on the wire are those of the texts, in order.    *)
ClientOK(s, k, received, texts) ==
    /\ ConnOK(k) /\ received \in Seq(Part) /\ texts \in Seq(Text)
    /\ s \in {"none", "broken"} => k = IdleConn
    /\ s # "broken" => Len(received) + Pending(k) = 2 * Len(texts)
    /\ s # "broken" /\ ~k.congested => received \o k.wire = PartsOf(texts, Len(texts))

(* What is pending is a number.                                            *)
LEMMA PendingIs ==
    ASSUME NEW k, ConnOK(k)
    PROVE  /\ Pending(k) \in Int /\ k \in Conn /\ k.wire \in Seq(Part) /\ k.ops \in Seq(Write)
           /\ k.posted \in Seq(Write)
<1>1. /\ k \in Conn /\ k.wire \in Seq(Part) /\ k.ops \in Seq(Write) /\ k.posted \in Seq(Write)
  BY ConnFields DEF ConnOK
<1>2. Len(k.wire) \in Int /\ PartsWaiting(k.ops) \in Int /\ PartsWaiting(k.posted) \in Int
  BY <1>1, PartsInt
<1> QED BY <1>1, <1>2 DEF Pending

(* A new client is owed nothing.                                           *)
LEMMA NewClient == ClientOK("none", IdleConn, <<>>, <<>>)
<1>1. PartsOf(<<>>, 0) = <<>>
  <2> DEFINE none == <<>>
  <2>1. PartsOf(none, 0) \in Seq(Part) /\ Len(PartsOf(none, 0)) = 0
    BY PartsOfIs
  <2> QED BY <2>1
<1>2. <<>> \o <<>> = <<>> /\ Len(<<>>) = 0
  OBVIOUS
<1>3. <<>> \in Seq(Part) /\ <<>> \in Seq(Text)
  OBVIOUS
<1>4. Len(<<>>) + Pending(IdleConn) = 2 * Len(<<>>)
  BY <1>2, IdleIs
<1>5. <<>> \o IdleConn.wire = PartsOf(<<>>, Len(<<>>))
  BY <1>1, <1>2, IdleIs
<1> QED BY <1>3, <1>4, <1>5, IdleIs DEF ClientOK

(* A session that is accepted or has read all lines keeps what is owed; of *)
(* one that breaks nothing is asked.                                       *)
LEMMA SessionChanges ==
    ASSUME NEW s, NEW k, NEW received, NEW texts, ClientOK(s, k, received, texts)
    PROVE  /\ s # "broken" => /\ ClientOK("reading", k, received, texts)
                              /\ ClientOK("ended", k, received, texts)
           /\ ClientOK("broken", IdleConn, received, texts)
<1>1. s # "broken" => /\ ClientOK("reading", k, received, texts)
                      /\ ClientOK("ended", k, received, texts)
  BY DEF ClientOK
<1>2. ClientOK("broken", IdleConn, received, texts)
  BY IdleIs DEF ClientOK
<1> QED BY <1>1, <1>2

(* A session with something to write is neither new nor broken.            *)
LEMMA BusyClient ==
    ASSUME NEW s, NEW k, NEW received, NEW texts, ClientOK(s, k, received, texts),
           k.posted # <<>> \/ k.ops # <<>> \/ ~k.try_speculative
    PROVE  /\ s \notin {"none", "broken"} /\ k.congested /\ ConnOK(k)
           /\ Len(received) + Pending(k) = 2 * Len(texts)
           /\ received \in Seq(Part) /\ texts \in Seq(Text)
<1>1. k # IdleConn
  BY IdleIs
<1> QED BY <1>1 DEF ClientOK, ConnOK

(* The handlers of writes keep what is owed.                               *)
LEMMA ContinueKeeps ==
    ASSUME NEW s, NEW k, NEW received, NEW texts, ClientOK(s, k, received, texts),
           k.posted # <<>>
    PROVE  ClientOK(s, Continued(k), received, texts)
<1> DEFINE taken == [k EXCEPT !.posted = Tail(@)]
           m == Late(Head(k.posted))
           after == StartWrite(taken, m)
<1>1. /\ s \notin {"none", "broken"} /\ k.congested /\ ConnOK(k)
      /\ Len(received) + Pending(k) = 2 * Len(texts)
      /\ received \in Seq(Part) /\ texts \in Seq(Text)
  BY BusyClient
<1>2. /\ ConnOK(taken) /\ taken.congested
      /\ m \in Write /\ Pending(k) = Pending(taken) + (3 - m.from)
  BY <1>1, TakePosted
<1> HIDE DEF taken, m
<1>3. /\ ConnOK(after) /\ Pending(after) = Pending(taken) + (3 - m.from)
      /\ after.congested \/ (~taken.congested /\ after.wire = taken.wire \o Remaining(m))
  BY <1>2, StartWriteOK
<1> HIDE DEF after
<1>4. after.congested
  BY <1>2, <1>3
<1>5. Pending(after) = Pending(k)
  BY <1>2, <1>3
<1>6. ClientOK(s, after, received, texts)
  BY <1>1, <1>3, <1>4, <1>5 DEF ClientOK
<1> QED BY <1>6 DEF after, taken, m, Continued

(* So does the reactor.                                                    *)
LEMMA WritableKeeps ==
    ASSUME NEW s, NEW k, NEW received, NEW texts, ClientOK(s, k, received, texts),
           k.ops # <<>> \/ ~k.try_speculative
    PROVE  ClientOK(s, Performed(k), received, texts)
<1> DEFINE taken == [k EXCEPT !.ops = <<>>, !.try_speculative = TRUE]
           ms == [i \in DOMAIN k.ops |-> Late(k.ops[i])]
           after == WriteAll(taken, ms)
<1>1. /\ s \notin {"none", "broken"} /\ k.congested /\ ConnOK(k)
      /\ Len(received) + Pending(k) = 2 * Len(texts)
      /\ received \in Seq(Part) /\ texts \in Seq(Text)
  BY BusyClient
<1>2. /\ ConnOK(taken) /\ taken.congested
      /\ ms \in Seq(Write) /\ Pending(k) = Pending(taken) + PartsWaiting(ms)
  BY <1>1, TakeOps
<1> HIDE DEF taken, ms
<1>3. /\ ConnOK(after) /\ Pending(after) = Pending(taken) + PartsWaiting(ms)
      /\ taken.congested => after.congested
  BY <1>2, WriteAllOK
<1> HIDE DEF after
<1>4. after.congested
  BY <1>2, <1>3
<1>5. Pending(after) = Pending(k)
  BY <1>2, <1>3
<1>6. ClientOK(s, after, received, texts)
  BY <1>1, <1>3, <1>4, <1>5 DEF ClientOK
<1> QED BY <1>6 DEF after, taken, ms, Performed

(* What the client receives is no longer pending.                          *)
LEMMA ReceiveKeeps ==
    ASSUME NEW s, NEW k, NEW received, NEW texts, ClientOK(s, k, received, texts),
           k.wire # <<>>
    PROVE  ClientOK(s, [k EXCEPT !.wire = <<>>], received \o k.wire, texts)
<1> DEFINE taken == [k EXCEPT !.wire = <<>>]
           more == received \o k.wire
<1>1. k # IdleConn
  BY IdleIs
<1>2. /\ ConnOK(k) /\ received \in Seq(Part) /\ texts \in Seq(Text)
      /\ s \notin {"none", "broken"}
      /\ Len(received) + Pending(k) = 2 * Len(texts)
      /\ ~k.congested => received \o k.wire = PartsOf(texts, Len(texts))
  BY <1>1 DEF ClientOK
<1>3. /\ ConnOK(taken) /\ taken.congested = k.congested /\ taken.wire = <<>>
      /\ k.wire \in Seq(Part) /\ Pending(k) = Pending(taken) + Len(k.wire)
  BY <1>2, TakeWire
<1>4. more \in Seq(Part) /\ Len(more) = Len(received) + Len(k.wire) /\ more \o <<>> = more
  BY <1>2, <1>3
<1>5. Pending(taken) \in Int /\ Len(k.wire) \in Int /\ Len(received) \in Int /\ Len(texts) \in Int
  BY <1>2, <1>3, PendingIs
<1> HIDE DEF taken
<1>6. ~taken.congested => more \o taken.wire = PartsOf(texts, Len(texts))
  BY <1>2, <1>3, <1>4, Zenon DEF more
<1> HIDE DEF more
<1>7. Len(more) + Pending(taken) = 2 * Len(texts)
  BY ONLY <1>2, <1>3, <1>4, <1>5
<1>8. ClientOK(s, taken, more, texts)
  BY <1>2, <1>3, <1>4, <1>6, <1>7 DEF ClientOK
<1> QED BY <1>8 DEF taken, more

(* A line handled: its reply is owed, and its messages are pending.        *)
LEMMA ReplyKeeps ==
    ASSUME NEW s, NEW k, NEW received, NEW texts, ClientOK(s, k, received, texts),
           s \notin {"none", "broken"}, NEW reply \in Seq(Text)
    PROVE  ClientOK(s, WriteAll(k, [i \in DOMAIN reply |-> Message(reply[i])]),
                    received, texts \o reply)
<1> DEFINE ms == Messages(reply)
           n == Len(reply)
           after == WriteAll(k, ms)
           more == texts \o reply
<1>1. /\ ConnOK(k) /\ received \in Seq(Part) /\ texts \in Seq(Text)
      /\ Len(received) + Pending(k) = 2 * Len(texts)
      /\ ~k.congested => received \o k.wire = PartsOf(texts, Len(texts))
  BY DEF ClientOK
<1>2. /\ ms \in Seq(Write) /\ Len(ms) = n /\ PartsWaiting(ms) = 2 * n
      /\ \A i \in 1 .. Len(ms) : ms[i] = Message(reply[i]) /\ reply[i] \in Text
  BY MessagesAre
<1>3. more \in Seq(Text) /\ Len(more) = Len(texts) + n /\ n \in Int /\ Len(texts) \in Int
  BY <1>1
<1> HIDE DEF ms
<1>4. /\ ConnOK(after) /\ Pending(after) = Pending(k) + PartsWaiting(ms)
      /\ k.congested => after.congested
  BY <1>1, <1>2, WriteAllOK
<1>5. ~after.congested => after.wire = k.wire \o PartsOf(reply, n)
  BY <1>1, <1>2, WriteAllSent
<1>6. Pending(k) \in Int /\ Len(received) \in Int /\ k.wire \in Seq(Part)
  BY <1>1, PendingIs
<1>7. PartsOf(reply, n) \in Seq(Part)
  BY PartsOfIs
<1>8. PartsOf(more, Len(more)) = PartsOf(texts, Len(texts)) \o PartsOf(reply, n)
  BY <1>1, PartsOfBoth
<1> HIDE DEF after, more, n
<1>9. ~after.congested => received \o after.wire = PartsOf(more, Len(more))
  <2>1. received \o (k.wire \o PartsOf(reply, n)) = (received \o k.wire) \o PartsOf(reply, n)
    BY <1>1, <1>6, <1>7, PartsAssociate
  <2> QED BY <1>1, <1>4, <1>5, <1>8, <2>1, Zenon
<1>10. Len(received) + Pending(after) = 2 * Len(more)
  BY ONLY <1>1, <1>2, <1>3, <1>4, <1>6
<1>11. ClientOK(s, after, received, more)
  BY <1>1, <1>3, <1>4, <1>9, <1>10 DEF ClientOK
<1> QED BY <1>11, Zenon DEF after, more, ms, Messages

-----------------------------------------------------------------------------
(***************************************************************************)
(*                        The inductive invariant                          *)
(***************************************************************************)
Sessions == {"none", "reading", "ended", "broken"}
Entry == [command : Commands, reply : Seq(Text)]

Inv ==
    /\ TablesOK(table)
    /\ running \in BOOLEAN
    /\ session \in [Clients -> Sessions]
    /\ inbox \in [Clients -> Seq(Commands)]
    /\ conn \in [Clients -> Conn]
    /\ got \in [Clients -> Seq(Part)]
    /\ log \in Seq(Entry)
    /\ owed \in [Clients -> Seq(Text)]
    /\ \A c \in Clients : ClientOK(session[c], conn[c], got[c], owed[c])

(* It holds at the start.                                                  *)
LEMMA InvInit == Init => Inv
<1> SUFFICES ASSUME Init PROVE Inv
  OBVIOUS
<1>1. TablesOK(table)
  <2>1. /\ DOMAIN table = Tables /\ \A t \in Tables : DOMAIN table[t] = {}
    BY DEF Init
  <2>2. IsFiniteSet({})
    BY FS_EmptySet
  <2> QED BY <2>1, <2>2 DEF TablesOK
<1>2. running \in BOOLEAN /\ session \in [Clients -> Sessions]
  BY DEF Init, Sessions
<1>3. inbox \in [Clients -> Seq(Commands)]
  BY ScriptsAssumption DEF Init
<1>4. conn \in [Clients -> Conn]
  <2>1. IdleConn \in Conn
    BY IdleIs DEF ConnOK
  <2> QED BY <2>1 DEF Init
<1>5. got \in [Clients -> Seq(Part)] /\ log \in Seq(Entry) /\ owed \in [Clients -> Seq(Text)]
  BY DEF Init
<1>6. \A c \in Clients : ClientOK(session[c], conn[c], got[c], owed[c])
  <2> SUFFICES ASSUME NEW c \in Clients
               PROVE  ClientOK(session[c], conn[c], got[c], owed[c])
    OBVIOUS
  <2>1. session[c] = "none" /\ conn[c] = IdleConn /\ got[c] = <<>> /\ owed[c] = <<>>
    BY DEF Init
  <2> QED BY <2>1, NewClient
<1> QED BY <1>1, <1>2, <1>3, <1>4, <1>5, <1>6 DEF Inv

(* Only the client c changes: its session, writing side, parts and texts.  *)
LEMMA OneClient ==
    ASSUME Inv, NEW c \in Clients,
           session' = [session EXCEPT ![c] = session'[c]],
           conn' = [conn EXCEPT ![c] = conn'[c]],
           got' = [got EXCEPT ![c] = got'[c]],
           owed' = [owed EXCEPT ![c] = owed'[c]],
           session'[c] \in Sessions,
           ClientOK(session'[c], conn'[c], got'[c], owed'[c])
    PROVE  /\ session' \in [Clients -> Sessions] /\ conn' \in [Clients -> Conn]
           /\ got' \in [Clients -> Seq(Part)] /\ owed' \in [Clients -> Seq(Text)]
           /\ \A d \in Clients : ClientOK(session'[d], conn'[d], got'[d], owed'[d])
<1>1. /\ session \in [Clients -> Sessions] /\ conn \in [Clients -> Conn]
      /\ got \in [Clients -> Seq(Part)] /\ owed \in [Clients -> Seq(Text)]
      /\ \A d \in Clients : ClientOK(session[d], conn[d], got[d], owed[d])
  BY DEF Inv
<1>2. conn'[c] \in Conn /\ got'[c] \in Seq(Part) /\ owed'[c] \in Seq(Text)
  BY DEF ClientOK, ConnOK
<1>3. /\ session' \in [Clients -> Sessions] /\ conn' \in [Clients -> Conn]
      /\ got' \in [Clients -> Seq(Part)] /\ owed' \in [Clients -> Seq(Text)]
  BY <1>1, <1>2
<1>4. ASSUME NEW d \in Clients
      PROVE  ClientOK(session'[d], conn'[d], got'[d], owed'[d])
  <2>1. CASE d = c
    BY <2>1
  <2>2. CASE d # c
    <3>1. /\ session'[d] = session[d] /\ conn'[d] = conn[d] /\ got'[d] = got[d]
          /\ owed'[d] = owed[d]
      BY <1>1, <2>2
    <3> QED BY <1>1, <3>1
  <2> QED BY <2>1, <2>2
<1> QED BY <1>3, <1>4

(* What Inv says of a client.                                              *)
LEMMA InvClient ==
    ASSUME Inv, NEW c \in Clients
    PROVE  /\ ClientOK(session[c], conn[c], got[c], owed[c])
           /\ session[c] \in Sessions
           /\ session = [session EXCEPT ![c] = session[c]]
           /\ conn = [conn EXCEPT ![c] = conn[c]]
           /\ got = [got EXCEPT ![c] = got[c]]
           /\ owed = [owed EXCEPT ![c] = owed[c]]
           /\ DOMAIN session = Clients /\ DOMAIN conn = Clients
           /\ DOMAIN got = Clients /\ DOMAIN owed = Clients
BY DEF Inv

(* Each action preserves it.                                               *)
LEMMA AcceptKeeps == ASSUME Inv, NEW c \in Clients, Accept(c) PROVE Inv'
<1>1. /\ session[c] = "none" /\ session' = [session EXCEPT ![c] = "reading"]
      /\ UNCHANGED <<table, running, inbox, conn, got, log, owed>>
  BY DEF Accept
<1>2. session'[c] = "reading" /\ "reading" \in Sessions
  BY <1>1, InvClient DEF Sessions
<1>3. ClientOK(session'[c], conn'[c], got'[c], owed'[c])
  <2>1. ClientOK(session[c], conn[c], got[c], owed[c]) /\ session[c] # "broken"
    BY <1>1, InvClient
  <2>2. ClientOK("reading", conn[c], got[c], owed[c])
    BY <2>1, SessionChanges
  <2> QED BY <1>1, <1>2, <2>2
<1>4. /\ session' \in [Clients -> Sessions] /\ conn' \in [Clients -> Conn]
      /\ got' \in [Clients -> Seq(Part)] /\ owed' \in [Clients -> Seq(Text)]
      /\ \A d \in Clients : ClientOK(session'[d], conn'[d], got'[d], owed'[d])
  BY <1>1, <1>2, <1>3, InvClient, OneClient
<1>5. TablesOK(table)' /\ (running \in BOOLEAN)' /\ (inbox \in [Clients -> Seq(Commands)])'
      /\ (log \in Seq(Entry))'
  BY <1>1 DEF Inv, TablesOK
<1> QED BY <1>4, <1>5 DEF Inv

(* End of file.                                                            *)
LEMMA HandleEofKeeps == ASSUME Inv, NEW c \in Clients, HandleEof(c) PROVE Inv'
<1>1. /\ session[c] = "reading" /\ session' = [session EXCEPT ![c] = "ended"]
      /\ UNCHANGED <<table, running, inbox, conn, got, log, owed>>
  BY DEF HandleEof
<1>2. session'[c] = "ended" /\ "ended" \in Sessions
  BY <1>1, InvClient DEF Sessions
<1>3. ClientOK(session'[c], conn'[c], got'[c], owed'[c])
  <2>1. ClientOK(session[c], conn[c], got[c], owed[c]) /\ session[c] # "broken"
    BY <1>1, InvClient
  <2>2. ClientOK("ended", conn[c], got[c], owed[c])
    BY <2>1, SessionChanges
  <2> QED BY <1>1, <1>2, <2>2
<1>4. /\ session' \in [Clients -> Sessions] /\ conn' \in [Clients -> Conn]
      /\ got' \in [Clients -> Seq(Part)] /\ owed' \in [Clients -> Seq(Text)]
      /\ \A d \in Clients : ClientOK(session'[d], conn'[d], got'[d], owed'[d])
  BY <1>1, <1>2, <1>3, InvClient, OneClient
<1>5. TablesOK(table)' /\ (running \in BOOLEAN)' /\ (inbox \in [Clients -> Seq(Commands)])'
      /\ (log \in Seq(Entry))'
  BY <1>1 DEF Inv, TablesOK
<1> QED BY <1>4, <1>5 DEF Inv

(* A connection that breaks.                                               *)
LEMMA HandleErrorKeeps == ASSUME Inv, NEW c \in Clients, HandleError(c) PROVE Inv'
<1>1. /\ session' = [session EXCEPT ![c] = "broken"]
      /\ inbox' = [inbox EXCEPT ![c] = <<>>]
      /\ conn' = [conn EXCEPT ![c] = IdleConn]
      /\ UNCHANGED <<table, running, got, log, owed>>
  BY DEF HandleError
<1>2. session'[c] = "broken" /\ conn'[c] = IdleConn /\ "broken" \in Sessions
  BY <1>1, InvClient DEF Sessions
<1>3. ClientOK(session'[c], conn'[c], got'[c], owed'[c])
  <2>1. ClientOK("broken", IdleConn, got[c], owed[c])
    BY InvClient, SessionChanges
  <2> QED BY <1>1, <1>2, <2>1
<1>4. /\ session' \in [Clients -> Sessions] /\ conn' \in [Clients -> Conn]
      /\ got' \in [Clients -> Seq(Part)] /\ owed' \in [Clients -> Seq(Text)]
      /\ \A d \in Clients : ClientOK(session'[d], conn'[d], got'[d], owed'[d])
  BY <1>1, <1>2, <1>3, InvClient, OneClient
<1>5. TablesOK(table)' /\ (running \in BOOLEAN)' /\ (log \in Seq(Entry))'
  BY <1>1 DEF Inv, TablesOK
<1>6. inbox' \in [Clients -> Seq(Commands)]
  <2>1. <<>> \in Seq(Commands) /\ inbox \in [Clients -> Seq(Commands)]
    BY DEF Inv
  <2> QED BY <1>1, <2>1
<1> QED BY <1>4, <1>5, <1>6 DEF Inv

(* A posted write is started again.                                        *)
LEMMA ContinueWriteKeeps == ASSUME Inv, NEW c \in Clients, ContinueWrite(c) PROVE Inv'
<1> DEFINE after == Continued(conn[c])
<1>1. /\ conn[c].posted # <<>> /\ conn' = [conn EXCEPT ![c] = after]
      /\ UNCHANGED <<serverVars, running, inbox, got>>
  BY DEF ContinueWrite
<1>2. ClientOK(session[c], after, got[c], owed[c])
  BY <1>1, InvClient, ContinueKeeps
<1> HIDE DEF after
<1>3. UNCHANGED <<table, running, session, inbox, got, log, owed>>
  BY <1>1 DEF serverVars
<1>4. conn'[c] = after
  BY <1>1, InvClient
<1>5. /\ session' \in [Clients -> Sessions] /\ conn' \in [Clients -> Conn]
      /\ got' \in [Clients -> Seq(Part)] /\ owed' \in [Clients -> Seq(Text)]
      /\ \A d \in Clients : ClientOK(session'[d], conn'[d], got'[d], owed'[d])
  BY <1>1, <1>2, <1>3, <1>4, InvClient, OneClient
<1>6. TablesOK(table)' /\ (running \in BOOLEAN)' /\ (inbox \in [Clients -> Seq(Commands)])'
      /\ (log \in Seq(Entry))'
  BY <1>3 DEF Inv, TablesOK
<1> QED BY <1>5, <1>6 DEF Inv

(* The reactor performs what waits.                                        *)
LEMMA WritableActionKeeps == ASSUME Inv, NEW c \in Clients, Writable(c) PROVE Inv'
<1> DEFINE after == Performed(conn[c])
<1>1. /\ conn[c].ops # <<>> \/ ~conn[c].try_speculative
      /\ conn' = [conn EXCEPT ![c] = after]
      /\ UNCHANGED <<serverVars, running, inbox, got>>
  BY DEF Writable
<1>2. ClientOK(session[c], after, got[c], owed[c])
  BY <1>1, InvClient, WritableKeeps
<1> HIDE DEF after
<1>3. UNCHANGED <<table, running, session, inbox, got, log, owed>>
  BY <1>1 DEF serverVars
<1>4. conn'[c] = after
  BY <1>1, InvClient
<1>5. /\ session' \in [Clients -> Sessions] /\ conn' \in [Clients -> Conn]
      /\ got' \in [Clients -> Seq(Part)] /\ owed' \in [Clients -> Seq(Text)]
      /\ \A d \in Clients : ClientOK(session'[d], conn'[d], got'[d], owed'[d])
  BY <1>1, <1>2, <1>3, <1>4, InvClient, OneClient
<1>6. TablesOK(table)' /\ (running \in BOOLEAN)' /\ (inbox \in [Clients -> Seq(Commands)])'
      /\ (log \in Seq(Entry))'
  BY <1>3 DEF Inv, TablesOK
<1> QED BY <1>5, <1>6 DEF Inv

(* A client receives.                                                      *)
LEMMA ReceiveActionKeeps == ASSUME Inv, NEW c \in Clients, Receive(c) PROVE Inv'
<1> DEFINE after == [conn[c] EXCEPT !.wire = <<>>]
<1>1. /\ conn[c].wire # <<>> /\ got' = [got EXCEPT ![c] = @ \o conn[c].wire]
      /\ conn' = [conn EXCEPT ![c] = after]
      /\ UNCHANGED <<serverVars, running, inbox>>
  BY Zenon DEF Receive
<1>2. ClientOK(session[c], after, got[c] \o conn[c].wire, owed[c])
  BY <1>1, InvClient, ReceiveKeeps
<1> HIDE DEF after
<1>3. UNCHANGED <<table, running, session, inbox, log, owed>>
  BY <1>1 DEF serverVars
<1>4. conn'[c] = after /\ got'[c] = got[c] \o conn[c].wire
  BY <1>1, InvClient
<1>5. /\ session' \in [Clients -> Sessions] /\ conn' \in [Clients -> Conn]
      /\ got' \in [Clients -> Seq(Part)] /\ owed' \in [Clients -> Seq(Text)]
      /\ \A d \in Clients : ClientOK(session'[d], conn'[d], got'[d], owed'[d])
  BY <1>1, <1>2, <1>3, <1>4, InvClient, OneClient
<1>6. TablesOK(table)' /\ (running \in BOOLEAN)' /\ (inbox \in [Clients -> Seq(Commands)])'
      /\ (log \in Seq(Entry))'
  BY <1>3 DEF Inv, TablesOK
<1> QED BY <1>5, <1>6 DEF Inv

(* A line handled.                                                         *)
LEMMA HandleLineKeeps == ASSUME Inv, NEW c \in Clients, HandleLine(c) PROVE Inv'
<1> DEFINE command == Head(inbox[c])
           result == process_command(command)
           reply == result.reply
           after == WriteAll(conn[c], [i \in DOMAIN reply |-> Message(reply[i])])
           entry == [command |-> command, reply |-> reply]
<1>1. /\ session[c] = "reading" /\ inbox[c] # <<>>
      /\ table' = result.table
      /\ conn' = [conn EXCEPT ![c] = after]
      /\ log' = Append(log, entry)
      /\ owed' = [owed EXCEPT ![c] = @ \o reply]
      /\ inbox' = [inbox EXCEPT ![c] = Tail(@)]
      /\ UNCHANGED <<running, session, got>>
  BY Zenon DEF HandleLine
<1>2. command \in Commands /\ Tail(inbox[c]) \in Seq(Commands)
  <2>1. inbox[c] \in Seq(Commands)
    BY DEF Inv
  <2> QED BY <1>1, <2>1
<1> HIDE DEF command
<1>3. TablesOK(result.table) /\ reply \in Seq(Text)
  <2>1. TablesOK(table)
    BY DEF Inv
  <2> QED BY <1>2, <2>1, CommandTypes
<1> HIDE DEF result
<1>4. ClientOK(session[c], after, got[c], owed[c] \o reply)
  <2>1. ClientOK(session[c], conn[c], got[c], owed[c])
    BY InvClient
  <2>2. session[c] \notin {"none", "broken"}
    BY <1>1
  <2> HIDE DEF reply
  <2>3. reply \in Seq(Text)
    BY <1>3 DEF reply
  <2> QED BY <2>1, <2>2, <2>3, ReplyKeeps
<1>5. entry \in Entry
  <2> HIDE DEF reply
  <2> QED BY <1>2, <1>3 DEF Entry, reply
<1> HIDE DEF reply, after, entry
<1>6. /\ conn'[c] = after /\ owed'[c] = owed[c] \o reply /\ got'[c] = got[c]
      /\ session'[c] = session[c]
  BY <1>1, InvClient
<1>7. /\ session' = [session EXCEPT ![c] = session'[c]]
      /\ conn' = [conn EXCEPT ![c] = conn'[c]]
      /\ got' = [got EXCEPT ![c] = got'[c]]
      /\ owed' = [owed EXCEPT ![c] = owed'[c]]
      /\ session'[c] \in Sessions
  BY <1>1, <1>6, InvClient
<1>8. /\ session' \in [Clients -> Sessions] /\ conn' \in [Clients -> Conn]
      /\ got' \in [Clients -> Seq(Part)] /\ owed' \in [Clients -> Seq(Text)]
      /\ \A d \in Clients : ClientOK(session'[d], conn'[d], got'[d], owed'[d])
  BY <1>4, <1>6, <1>7, OneClient
<1>9. TablesOK(table)'
  BY <1>1, <1>3 DEF TablesOK
<1>10. /\ (running \in BOOLEAN)' /\ (inbox \in [Clients -> Seq(Commands)])'
       /\ (log \in Seq(Entry))'
  BY <1>1, <1>2, <1>5 DEF Inv
<1> QED BY <1>8, <1>9, <1>10 DEF Inv

(* Every step.                                                             *)
LEMMA InvNext == Inv /\ [Next]_vars => Inv'
<1> SUFFICES ASSUME Inv, [Next]_vars PROVE Inv'
  OBVIOUS
<1>1. CASE Stop
  BY <1>1 DEF Stop, serverVars, Inv, TablesOK
<1>2. CASE Step
  <2> PICK c \in Clients :
        \/ Accept(c) \/ HandleLine(c) \/ HandleEof(c) \/ ContinueWrite(c) \/ Writable(c)
        \/ Receive(c)
    BY <1>2 DEF Step
  <2>1. CASE Accept(c)
    BY <2>1, AcceptKeeps
  <2>2. CASE HandleLine(c)
    BY <2>2, HandleLineKeeps
  <2>3. CASE HandleEof(c)
    BY <2>3, HandleEofKeeps
  <2>4. CASE ContinueWrite(c)
    BY <2>4, ContinueWriteKeeps
  <2>5. CASE Writable(c)
    BY <2>5, WritableActionKeeps
  <2>6. CASE Receive(c)
    BY <2>6, ReceiveActionKeeps
  <2> QED BY <2>1, <2>2, <2>3, <2>4, <2>5, <2>6
<1>3. CASE \E c \in Fragile : HandleError(c)
  BY <1>3, HandleErrorKeeps, FragileAssumption
<1>4. CASE UNCHANGED vars
  BY <1>4 DEF vars, Inv, TablesOK
<1> QED BY <1>1, <1>2, <1>3, <1>4 DEF Next

-----------------------------------------------------------------------------
(* Types, the capacity of every socket, and that a write waits only where  *)
(* an earlier one found the socket full: of every behaviour of the server. *)
THEOREM TypeCorrect == Spec => []TypeOK
<1>1. Inv => TypeOK
  <2> SUFFICES ASSUME Inv PROVE TypeOK
    OBVIOUS
  <2>1. /\ DOMAIN table = Tables
        /\ \A t \in Tables : \A id \in DOMAIN table[t] : id \in Int /\ table[t][id] \in Names
    BY DEF Inv, TablesOK
  <2>2. /\ running \in BOOLEAN
        /\ session \in [Clients -> {"none", "reading", "ended", "broken"}]
        /\ inbox \in [Clients -> Seq(Commands)]
        /\ conn \in [Clients -> Conn]
        /\ got \in [Clients -> Seq(Part)] /\ owed \in [Clients -> Seq(Text)]
        /\ log \in Seq([command : Commands, reply : Seq(Text)])
    BY Zenon DEF Inv, Sessions, Entry
  <2>3. ASSUME NEW c \in Clients
        PROVE  /\ Len(conn[c].wire) <= Capacity
               /\ \A i \in 1 .. Len(conn[c].posted) : conn[c].posted[i].from = 2
               /\ conn[c].posted # <<>> \/ conn[c].ops # <<>> \/ ~conn[c].try_speculative
                    => conn[c].congested
               /\ session[c] \in {"none", "broken"} => conn[c] = IdleConn
    <3>1. ClientOK(session[c], conn[c], got[c], owed[c])
      BY InvClient
    <3> QED BY <3>1 DEF ClientOK, ConnOK
  <2> QED BY <2>1, <2>2, <2>3, Zenon DEF TypeOK
<1> QED BY <1>1, InvInit, InvNext, PTL DEF Spec

(* No part of a reply is lost on a connection that has not broken, however *)
(* full its socket is: each is received, in the socket, or waits; and a    *)
(* client none of whose writes had to wait has received, or has in its     *)
(* socket, exactly the replies to its lines, in their order.               *)
THEOREM NoReplyLost == Spec => []RepliesDelivered
<1>1. Inv => RepliesDelivered
  <2> SUFFICES ASSUME Inv, NEW c \in Clients, ~Broken(c)
               PROVE  /\ Len(got[c]) + Len(conn[c].wire) + PartsWaiting(conn[c].ops)
                           + PartsWaiting(conn[c].posted) = Len(Expected(c))
                      /\ ~conn[c].congested => got[c] \o conn[c].wire = Expected(c)
    BY Zenon DEF RepliesDelivered
  <2> DEFINE k == conn[c]
             texts == owed[c]
             n == Len(texts)
  <2>1. ClientOK(session[c], k, got[c], texts)
    BY InvClient
  <2>2. Expected(c) = PartsOf(texts, n)
    BY DEF Expected, PartsOf
  <2> HIDE DEF k, texts
  <2>3. /\ ConnOK(k) /\ got[c] \in Seq(Part) /\ texts \in Seq(Text)
        /\ Len(got[c]) + Pending(k) = 2 * n
        /\ ~k.congested => got[c] \o k.wire = PartsOf(texts, n)
    BY <2>1 DEF ClientOK, Broken
  <2>4. \A i \in 1 .. n : texts[i] \in Text
    BY <2>3
  <2>5. n \in Nat
    BY <2>3
  <2> HIDE DEF n
  <2>6. Len(PartsOf(texts, n)) = 2 * n
    BY <2>4, <2>5, PartsOfIs
  <2>7. /\ Len(k.wire) \in Int /\ PartsWaiting(k.ops) \in Int
        /\ PartsWaiting(k.posted) \in Int /\ Len(got[c]) \in Int
    BY <2>3, PendingIs, PartsInt
  <2>8. Len(got[c]) + Len(k.wire) + PartsWaiting(k.ops) + PartsWaiting(k.posted)
          = Len(PartsOf(texts, n))
    <3>1. Pending(k) = Len(k.wire) + PartsWaiting(k.ops) + PartsWaiting(k.posted)
      BY DEF Pending
    <3>2. Len(got[c]) + Pending(k) = 2 * n
      BY <2>3
    <3> DEFINE g == Len(got[c])
               a == Len(k.wire)
               b == PartsWaiting(k.ops)
               d == PartsWaiting(k.posted)
               p == Pending(k)
               e == Len(PartsOf(texts, n))
    <3>3. a \in Int /\ b \in Int /\ d \in Int /\ g \in Int
      BY <2>7
    <3>4. p = a + b + d /\ g + p = 2 * n /\ e = 2 * n
      BY ONLY <2>6, <3>1, <3>2
    <3> HIDE DEF g, a, b, d, p, e
    <3>5. g + a + b + d = e
      BY ONLY <3>3, <3>4, <2>5
    <3> QED BY <3>5, Zenon DEF g, a, b, d, e
  <2> QED BY <2>2, <2>3, <2>8, Zenon DEF k
<1> QED BY <1>1, InvInit, InvNext, PTL DEF Spec

-----------------------------------------------------------------------------
(***************************************************************************)
(*                               History                                   *)
(***************************************************************************)

(* The greatest of some numbers.                                           *)
LEMMA MaxIs ==
    ASSUME NEW m \in Nat, NEW S, S \subseteq 0 .. m, S # {}
    PROVE  Max(S) \in S /\ \A y \in S : Max(S) >= y
<1> DEFINE Bounds == {b \in Nat : \A y \in S : y <= b}
<1>1. Bounds # {}
  <2>1. m \in Bounds
    OBVIOUS
  <2> QED BY <2>1
<1>2. PICK b \in Bounds : \A a \in Bounds : b <= a
  <2>1. Bounds \subseteq Nat
    OBVIOUS
  <2> HIDE DEF Bounds
  <2> QED BY <1>1, <2>1, LeastNat
<1>3. b \in S
  <2> SUFFICES ASSUME b \notin S PROVE FALSE
    OBVIOUS
  <2>1. \A y \in S : y <= b - 1 /\ y \in Nat
    BY <1>2
  <2>2. b - 1 \in Nat
    <3>1. PICK y \in S : TRUE
      OBVIOUS
    <3>2. y <= b - 1 /\ y \in Nat /\ b \in Nat
      BY <1>2, <2>1
    <3> QED BY ONLY <3>2
  <2>3. b - 1 \in Bounds
    BY <2>1, <2>2
  <2> QED BY <1>2, <2>3
<1>4. \A y \in S : b >= y
  BY <1>2
<1>5. \E x \in S : \A y \in S : x >= y
  BY <1>3, <1>4
<1> QED BY <1>5, Zenon DEF Max

(* The least of some numbers.                                              *)
LEMMA MinIs ==
    ASSUME NEW S, S \subseteq Nat, S # {}
    PROVE  Min(S) \in S /\ \A y \in S : Min(S) =< y
<1>1. \E x \in S : \A y \in S : x =< y
  BY LeastNat
<1> QED BY <1>1, Zenon DEF Min

(* Entries of a log that empty a table, or are to put an id into it.       *)
Empties(e, t) == e.command.cmd = "TRUNCATE" /\ e.command.table = t
Puts(e, t, id) ==
    e.command.cmd = "INSERT" /\ e.command.table = t /\ Decoded(e.command).id = id

(* Since, Inserts, IdsBefore, NameBefore and RowBefore of any log.         *)
SinceIn(L, t, n) == Max({0} \cup {i \in 1 .. n - 1 : Empties(L[i], t)})
InsertsIn(L, t, n, id) == {i \in SinceIn(L, t, n) + 1 .. n - 1 : Puts(L[i], t, id)}
IdsIn(L, t, n) ==
    {id \in {Decoded(L[i].command).id : i \in {j \in 1 .. n - 1 : L[j].command.cmd = "INSERT"}} :
        InsertsIn(L, t, n, id) # {}}
NameOf(L, t, n, id) ==
    IF InsertsIn(L, t, n, id) = {} THEN ""
    ELSE Decoded(L[Min(InsertsIn(L, t, n, id))].command).name
RowOf(L, n, id) == <<"row", id, NameOf(L, "A", n, id), NameOf(L, "B", n, id)>>

(* The last entry before n that empties the table, or 0.                   *)
LEMMA SinceIs ==
    ASSUME NEW L, NEW t, NEW n \in Nat \ {0}
    PROVE  /\ SinceIn(L, t, n) \in 0 .. n - 1
           /\ \A i \in SinceIn(L, t, n) + 1 .. n - 1 : ~Empties(L[i], t)
           /\ SinceIn(L, t, n) # 0 => Empties(L[SinceIn(L, t, n)], t)
<1> DEFINE S == {0} \cup {i \in 1 .. n - 1 : Empties(L[i], t)}
<1>1. S \subseteq 0 .. n - 1 /\ S # {} /\ n - 1 \in Nat
  OBVIOUS
<1>2. \A i : i \in S <=> i = 0 \/ (i \in 1 .. n - 1 /\ Empties(L[i], t))
  OBVIOUS
<1> HIDE DEF S
<1>3. Max(S) \in S /\ \A y \in S : Max(S) >= y
  BY <1>1, MaxIs
<1>4. SinceIn(L, t, n) = Max(S)
  BY DEF SinceIn, S
<1> QED BY <1>1, <1>2, <1>3, <1>4

(* It is the only such number.                                             *)
LEMMA SinceUnique ==
    ASSUME NEW L, NEW t, NEW n \in Nat \ {0}, NEW s \in 0 .. n - 1,
           \A i \in s + 1 .. n - 1 : ~Empties(L[i], t),
           s # 0 => Empties(L[s], t)
    PROVE  SinceIn(L, t, n) = s
<1> DEFINE m == SinceIn(L, t, n)
<1>1. /\ m \in 0 .. n - 1
      /\ \A i \in m + 1 .. n - 1 : ~Empties(L[i], t)
      /\ m # 0 => Empties(L[m], t)
  BY SinceIs
<1> HIDE DEF m
<1>2. ~(m < s) /\ ~(s < m)
  BY <1>1
<1>3. m = s
  BY <1>1, <1>2
<1> QED BY <1>3 DEF m

(* One entry more.                                                         *)
LEMMA SinceNext ==
    ASSUME NEW L, NEW t, NEW n \in Nat \ {0}
    PROVE  SinceIn(L, t, n + 1) = IF Empties(L[n], t) THEN n ELSE SinceIn(L, t, n)
<1>1. n + 1 \in Nat \ {0} /\ n \in 0 .. (n + 1) - 1
  OBVIOUS
<1>2. CASE Empties(L[n], t)
  BY <1>1, <1>2, SinceUnique
<1>3. CASE ~Empties(L[n], t)
  <2> DEFINE s == SinceIn(L, t, n)
  <2>1. /\ s \in 0 .. n - 1
        /\ \A i \in s + 1 .. n - 1 : ~Empties(L[i], t)
        /\ s # 0 => Empties(L[s], t)
    BY SinceIs
  <2> HIDE DEF s
  <2>2. s \in 0 .. (n + 1) - 1 /\ \A i \in s + 1 .. (n + 1) - 1 : ~Empties(L[i], t)
    BY <1>3, <2>1
  <2>3. SinceIn(L, t, n + 1) = s
    BY <1>1, <2>1, <2>2, SinceUnique
  <2> QED BY <1>3, <2>3 DEF s
<1> QED BY <1>2, <1>3

(* What one entry more puts into a table.                                  *)
LEMMA InsertsNext ==
    ASSUME NEW L, NEW t, NEW n \in Nat \ {0}, NEW id
    PROVE  /\ Empties(L[n], t) => InsertsIn(L, t, n + 1, id) = {}
           /\ ~Empties(L[n], t) /\ Puts(L[n], t, id) =>
                InsertsIn(L, t, n + 1, id) = InsertsIn(L, t, n, id) \cup {n}
           /\ ~Empties(L[n], t) /\ ~Puts(L[n], t, id) =>
                InsertsIn(L, t, n + 1, id) = InsertsIn(L, t, n, id)
<1> DEFINE s == SinceIn(L, t, n)
           r == SinceIn(L, t, n + 1)
<1>1. s \in 0 .. n - 1 /\ r = IF Empties(L[n], t) THEN n ELSE s
  BY SinceIs, SinceNext
<1>2. /\ InsertsIn(L, t, n, id) = {i \in s + 1 .. n - 1 : Puts(L[i], t, id)}
      /\ InsertsIn(L, t, n + 1, id) = {i \in r + 1 .. (n + 1) - 1 : Puts(L[i], t, id)}
  BY DEF InsertsIn
<1> HIDE DEF s, r
<1>3. ASSUME Empties(L[n], t) PROVE InsertsIn(L, t, n + 1, id) = {}
  BY <1>1, <1>2, <1>3
<1>4. ASSUME ~Empties(L[n], t)
      PROVE  s + 1 .. n = (s + 1 .. n - 1) \cup {n} /\ r = s /\ (n + 1) - 1 = n
  BY <1>1, <1>4
<1> QED BY <1>2, <1>3, <1>4

(* Entries put ids in their order.                                         *)
LEMMA InsertsAre ==
    ASSUME NEW L, NEW t, NEW n \in Nat \ {0}, NEW id
    PROVE  InsertsIn(L, t, n, id) \subseteq 1 .. n - 1
BY SinceIs DEF InsertsIn

(* The name stays that of the first entry.                                 *)
LEMMA NameNext ==
    ASSUME NEW L, NEW t, NEW n \in Nat \ {0}, NEW id, ~Empties(L[n], t)
    PROVE  /\ InsertsIn(L, t, n, id) # {} => NameOf(L, t, n + 1, id) = NameOf(L, t, n, id)
           /\ InsertsIn(L, t, n, id) = {} /\ Puts(L[n], t, id) =>
                NameOf(L, t, n + 1, id) = Decoded(L[n].command).name
<1> DEFINE S == InsertsIn(L, t, n, id)
           R == InsertsIn(L, t, n + 1, id)
<1>1. S \subseteq 1 .. n - 1
  BY InsertsAre
<1>2. (R = S \cup {n} /\ Puts(L[n], t, id)) \/ (R = S /\ ~Puts(L[n], t, id))
  BY InsertsNext
<1>3. NameOf(L, t, n, id) = IF S = {} THEN "" ELSE Decoded(L[Min(S)].command).name
  BY Zenon DEF NameOf
<1>4. NameOf(L, t, n + 1, id) = IF R = {} THEN "" ELSE Decoded(L[Min(R)].command).name
  BY Zenon DEF NameOf
<1> HIDE DEF S, R
<1>5. ASSUME S # {} PROVE NameOf(L, t, n + 1, id) = NameOf(L, t, n, id)
  <2>6. S \subseteq R /\ R \subseteq S \cup {n}
    <3>1. CASE R = S \cup {n}
      BY <3>1, Zenon
    <3>2. CASE R = S
      BY <3>2, Zenon
    <3> QED BY <1>2, <3>1, <3>2
  <2>7. \A x \in S : x \in 1 .. n - 1 /\ x \in Nat
    BY <1>1
  <2>1. R # {} /\ S \subseteq Nat /\ R \subseteq Nat
    BY <1>5, <2>6, <2>7
  <2> DEFINE a == Min(S)
             b == Min(R)
  <2>2. a \in S /\ \A y \in S : a =< y
    BY <1>5, <2>1, MinIs
  <2>5. b \in R /\ \A y \in R : b =< y
    BY <2>1, MinIs
  <2> HIDE DEF a, b
  <2>3. a = b
    <3>1. a \in 1 .. n - 1 /\ b \in R /\ a \in R /\ b <= a
      BY <1>1, <1>2, <2>2, <2>5
    <3>2. b \in Nat /\ (b \in S => a <= b) /\ (b \in S \/ b = n)
      BY <1>2, <2>1, <2>2, <2>5
    <3> QED BY <3>1, <3>2
  <2>4. Min(S) = Min(R)
    BY <2>3 DEF a, b
  <2> QED BY <1>3, <1>4, <1>5, <2>1, <2>4, Zenon
<1>6. ASSUME S = {}, Puts(L[n], t, id)
      PROVE  NameOf(L, t, n + 1, id) = Decoded(L[n].command).name
  <2>1. R = {n}
    BY <1>2, <1>6
  <2>2. Min(R) = n
    BY <2>1, MinIs
  <2> QED BY <1>4, <2>1, <2>2, Zenon
<1> QED BY <1>5, <1>6 DEF S

(* The entries from n on do not matter.                                    *)
LEMMA SamePrefix ==
    ASSUME NEW L, NEW M, NEW t, NEW n \in Nat \ {0}, \A i \in 1 .. n - 1 : M[i] = L[i], NEW id
    PROVE  /\ InsertsIn(M, t, n, id) = InsertsIn(L, t, n, id)
           /\ NameOf(M, t, n, id) = NameOf(L, t, n, id)
<1> DEFINE s == SinceIn(L, t, n)
           S == InsertsIn(L, t, n, id)
<1>1. /\ s \in 0 .. n - 1
      /\ \A i \in s + 1 .. n - 1 : ~Empties(L[i], t)
      /\ s # 0 => Empties(L[s], t)
  BY SinceIs
<1>2. SinceIn(M, t, n) = s
  <2> HIDE DEF s
  <2>1. \A i \in s + 1 .. n - 1 : i \in 1 .. n - 1
    BY <1>1
  <2>2. s # 0 => s \in 1 .. n - 1
    BY <1>1
  <2>3. \A i \in s + 1 .. n - 1 : ~Empties(M[i], t)
    BY <1>1, <2>1
  <2>4. s # 0 => Empties(M[s], t)
    BY <1>1, <2>2
  <2> QED BY <1>1, <2>3, <2>4, SinceUnique
<1>3. \A i \in s + 1 .. n - 1 : M[i] = L[i]
  <2> HIDE DEF s
  <2> QED BY <1>1
<1>4. InsertsIn(M, t, n, id) = S
  BY <1>2, <1>3 DEF InsertsIn
<1>5. S \subseteq 1 .. n - 1
  BY InsertsAre
<1>6. NameOf(M, t, n, id) = NameOf(L, t, n, id)
  <2> HIDE DEF S
  <2>1. CASE S = {}
    BY <1>4, <2>1, Zenon DEF NameOf, S
  <2>2. CASE S # {}
    <3>1. S \subseteq Nat
      BY <1>5
    <3>2. Min(S) \in S
      BY <2>2, <3>1, MinIs
    <3>3. M[Min(S)] = L[Min(S)]
      BY <1>5, <3>2
    <3> QED BY <1>4, <2>2, <3>3, Zenon DEF NameOf, S
  <2> QED BY <2>1, <2>2
<1> QED BY <1>4, <1>6

(* The ids in a table are those put into it.                               *)
LEMMA IdsInIs ==
    ASSUME NEW L, NEW t, NEW n \in Nat \ {0}, NEW id
    PROVE  id \in IdsIn(L, t, n) <=> InsertsIn(L, t, n, id) # {}
<1> DEFINE P == {j \in 1 .. n - 1 : L[j].command.cmd = "INSERT"}
           S == InsertsIn(L, t, n, id)
<1>1. ASSUME S # {} PROVE id \in {Decoded(L[i].command).id : i \in P}
  <2>1. PICK i \in S : TRUE
    BY <1>1
  <2>2. i \in 1 .. n - 1 /\ Puts(L[i], t, id)
    BY <2>1, InsertsAre DEF InsertsIn
  <2>3. i \in P /\ Decoded(L[i].command).id = id
    BY <2>2 DEF Puts
  <2> QED BY <2>3
<1> QED BY <1>1, Zenon DEF IdsIn

-----------------------------------------------------------------------------
(* The tables tb hold what the first n - 1 entries of L have left in them. *)
Follows(tb, L, n) ==
    \A t \in Tables : \A id :
        /\ id \in DOMAIN tb[t] <=> InsertsIn(L, t, n, id) # {}
        /\ id \in DOMAIN tb[t] => tb[t][id] = NameOf(L, t, n, id)

(* An entry that neither empties a table nor puts an id into it keeps both.*)
LEMMA FollowsOther ==
    ASSUME NEW L, NEW n \in Nat \ {0}, NEW t, NEW id, ~Empties(L[n], t),
           InsertsIn(L, t, n, id) # {} \/ ~Puts(L[n], t, id)
    PROVE  /\ InsertsIn(L, t, n + 1, id) # {} <=> InsertsIn(L, t, n, id) # {}
           /\ InsertsIn(L, t, n, id) # {} => NameOf(L, t, n + 1, id) = NameOf(L, t, n, id)
<1>1. InsertsIn(L, t, n + 1, id) # {} <=> InsertsIn(L, t, n, id) # {}
  <2>1. CASE Puts(L[n], t, id)
    BY <2>1, InsertsNext
  <2>2. CASE ~Puts(L[n], t, id)
    BY <2>2, InsertsNext
  <2> QED BY <2>1, <2>2
<1> QED BY <1>1, NameNext

(* An entry whose command leaves the tables as they are.                   *)
LEMMA FollowsSame ==
    ASSUME NEW tb, NEW L, NEW n \in Nat \ {0}, Follows(tb, L, n),
           \A t \in Tables : /\ ~Empties(L[n], t)
                             /\ \A id : Puts(L[n], t, id) => id \in DOMAIN tb[t]
    PROVE  Follows(tb, L, n + 1)
<1> SUFFICES ASSUME NEW t \in Tables, NEW id
             PROVE  /\ id \in DOMAIN tb[t] <=> InsertsIn(L, t, n + 1, id) # {}
                    /\ id \in DOMAIN tb[t] => tb[t][id] = NameOf(L, t, n + 1, id)
  BY DEF Follows
<1>1. /\ id \in DOMAIN tb[t] <=> InsertsIn(L, t, n, id) # {}
      /\ id \in DOMAIN tb[t] => tb[t][id] = NameOf(L, t, n, id)
  BY DEF Follows
<1>2. ~Empties(L[n], t) /\ (InsertsIn(L, t, n, id) # {} \/ ~Puts(L[n], t, id))
  BY <1>1
<1> QED BY <1>1, <1>2, FollowsOther

(* An id that was not there is put into a table.                           *)
LEMMA FollowsInsert ==
    ASSUME TablesOK(table), NEW L, NEW n \in Nat \ {0}, Follows(table, L, n),
           NEW u \in Tables, NEW x, x \notin DOMAIN table[u], NEW name,
           \A t : ~Empties(L[n], t),
           \A t, id : Puts(L[n], t, id) <=> t = u /\ id = x,
           name = Decoded(L[n].command).name
    PROVE  Follows([table EXCEPT ![u] = WithRecord(@, x, name)], L, n + 1)
<1> DEFINE new == WithRecord(table[u], x, name)
           after == [table EXCEPT ![u] = new]
<1>1. after[u] = new /\ \A t \in Tables : t # u => after[t] = table[t]
  BY DEF TablesOK
<1>2. /\ DOMAIN new = DOMAIN table[u] \cup {x} /\ new[x] = name
      /\ \A id \in DOMAIN table[u] : id # x => new[id] = table[u][id]
  <2> DEFINE old == table[u]
  <2> HIDE DEF old
  <2>1. /\ DOMAIN WithRecord(old, x, name) = DOMAIN old \cup {x}
        /\ WithRecord(old, x, name)[x] = name
        /\ \A id \in DOMAIN old : id # x => WithRecord(old, x, name)[id] = old[id]
    BY DEF WithRecord
  <2> QED BY <2>1, Zenon DEF old
<1> HIDE DEF after, new
<1>3. ASSUME NEW t \in Tables, NEW id
      PROVE  /\ id \in DOMAIN after[t] <=> InsertsIn(L, t, n + 1, id) # {}
             /\ id \in DOMAIN after[t] => after[t][id] = NameOf(L, t, n + 1, id)
  <2>1. /\ id \in DOMAIN table[t] <=> InsertsIn(L, t, n, id) # {}
        /\ id \in DOMAIN table[t] => table[t][id] = NameOf(L, t, n, id)
    BY <1>3 DEF Follows
  <2>2. ~Empties(L[n], t)
    OBVIOUS
  <2>3. CASE t = u /\ id = x
    <3>1. Puts(L[n], t, id) /\ InsertsIn(L, t, n, id) = {}
      BY <2>1, <2>3
    <3>2. InsertsIn(L, t, n + 1, id) = InsertsIn(L, t, n, id) \cup {n}
      BY <2>2, <3>1, InsertsNext
    <3>3. NameOf(L, t, n + 1, id) = name
      BY <2>2, <3>1, NameNext
    <3> QED BY <1>1, <1>2, <2>3, <3>2, <3>3
  <2>4. CASE ~(t = u /\ id = x)
    <3>1. ~Puts(L[n], t, id)
      BY <2>4
    <3>2. /\ InsertsIn(L, t, n + 1, id) # {} <=> InsertsIn(L, t, n, id) # {}
          /\ InsertsIn(L, t, n, id) # {} => NameOf(L, t, n + 1, id) = NameOf(L, t, n, id)
      BY <2>2, <3>1, FollowsOther
    <3>3. /\ id \in DOMAIN after[t] <=> id \in DOMAIN table[t]
          /\ id \in DOMAIN table[t] => after[t][id] = table[t][id]
      BY <1>1, <1>2, <2>4
    <3> QED BY <2>1, <3>2, <3>3
  <2> QED BY <2>3, <2>4
<1>4. Follows(after, L, n + 1)
  BY <1>3 DEF Follows
<1> QED BY <1>4 DEF after, new

(* A table is emptied.                                                     *)
LEMMA FollowsTruncate ==
    ASSUME TablesOK(table), NEW L, NEW n \in Nat \ {0}, Follows(table, L, n), NEW u,
           \A t : Empties(L[n], t) <=> t = u,
           \A t, id : ~Puts(L[n], t, id)
    PROVE  Follows(truncate(u), L, n + 1)
<1>1. CASE u \notin Tables
  <2>1. truncate(u) = table
    BY <1>1 DEF truncate
  <2>2. \A t \in Tables : ~Empties(L[n], t)
    BY <1>1
  <2> QED BY <2>1, <2>2, FollowsSame
<1>2. CASE u \in Tables
  <2> DEFINE none == <<>>
             after == [table EXCEPT ![u] = none]
  <2>1. DOMAIN none = {}
    OBVIOUS
  <2> HIDE DEF none
  <2>2. after[u] = none /\ \A t \in Tables : t # u => after[t] = table[t]
    BY <1>2 DEF TablesOK
  <2> HIDE DEF after
  <2>3. ASSUME NEW t \in Tables, NEW id
        PROVE  /\ id \in DOMAIN after[t] <=> InsertsIn(L, t, n + 1, id) # {}
               /\ id \in DOMAIN after[t] => after[t][id] = NameOf(L, t, n + 1, id)
    <3>1. CASE t = u
      <4>1. InsertsIn(L, t, n + 1, id) = {}
        BY <3>1, InsertsNext
      <4> QED BY <2>1, <2>2, <3>1, <4>1
    <3>2. CASE t # u
      <4>1. ~Empties(L[n], t) /\ ~Puts(L[n], t, id)
        BY <3>2
      <4>2. /\ id \in DOMAIN table[t] <=> InsertsIn(L, t, n, id) # {}
            /\ id \in DOMAIN table[t] => table[t][id] = NameOf(L, t, n, id)
        BY <2>3 DEF Follows
      <4>3. /\ InsertsIn(L, t, n + 1, id) # {} <=> InsertsIn(L, t, n, id) # {}
            /\ InsertsIn(L, t, n, id) # {} => NameOf(L, t, n + 1, id) = NameOf(L, t, n, id)
        BY <4>1, FollowsOther
      <4>4. after[t] = table[t]
        BY <2>2, <3>2
      <4> QED BY <4>2, <4>3, <4>4
    <3> QED BY <3>1, <3>2
  <2>4. Follows(after, L, n + 1)
    BY <2>3 DEF Follows
  <2> QED BY <1>2, <2>4, Zenon DEF truncate, after, none
<1> QED BY <1>1, <1>2

(* Every command leaves in the tables what its entry says.                 *)
LEMMA FollowsNext ==
    ASSUME TablesOK(table), NEW L, NEW n \in Nat \ {0}, Follows(table, L, n),
           NEW command, L[n].command = command
    PROVE  Follows(process_command(command).table, L, n + 1)
<1> DEFINE result == process_command(command)
<1>1. CASE command.cmd = "INSERT"
  <2> DEFINE record == Decoded(command)
             tables == insert(command.table, record.id, record.name).table
             text == IF insert(command.table, record.id, record.name).done
                     THEN OK ELSE <<"ERR duplicate", record.id>>
             u == command.table
             x == record.id
             name == record.name
  <2>1. result = [table |-> tables, reply |-> <<text>>]
    BY <1>1, InsertCommand
  <2>2. /\ \A t : ~Empties(L[n], t)
        /\ \A t, id : Puts(L[n], t, id) <=> t = u /\ id = x
    BY <1>1 DEF Empties, Puts
  <2>3. name = Decoded(L[n].command).name
    OBVIOUS
  <2> HIDE DEF record, text
  <2>4. CASE u \in Tables /\ x \notin Ids(u)
    <3> HIDE DEF u, x, name
    <3>1. insert(u, x, name).table = [table EXCEPT ![u] = WithRecord(@, x, name)]
      BY <2>4, InsertNew
    <3>2. Follows([table EXCEPT ![u] = WithRecord(@, x, name)], L, n + 1)
      BY <2>2, <2>3, <2>4, FollowsInsert DEF Ids
    <3>3. Follows(insert(u, x, name).table, L, n + 1)
      BY <3>1, <3>2, Zenon
    <3> QED BY <2>1, <3>3 DEF u, x, name
  <2>5. CASE ~(u \in Tables /\ x \notin Ids(u))
    <3> HIDE DEF u, x, name
    <3>1. insert(u, x, name).table = table
      BY <2>5, InsertOld
    <3>2. \A t \in Tables : /\ ~Empties(L[n], t)
                            /\ \A id : Puts(L[n], t, id) => id \in DOMAIN table[t]
      BY <2>2, <2>5 DEF Ids
    <3>3. Follows(insert(u, x, name).table, L, n + 1)
      BY <3>1, <3>2, FollowsSame
    <3> QED BY <2>1, <3>3 DEF u, x, name
  <2> QED BY <2>4, <2>5
<1>2. CASE command.cmd = "TRUNCATE"
  <2>1. result = [table |-> truncate(command.table), reply |-> <<OK>>]
    BY <1>2, TruncateCommand
  <2>2. /\ \A t : Empties(L[n], t) <=> t = command.table
        /\ \A t, id : ~Puts(L[n], t, id)
    BY <1>2 DEF Empties, Puts
  <2>3. Follows(truncate(command.table), L, n + 1)
    BY <2>2, FollowsTruncate
  <2> QED BY <2>1, <2>3
<1>3. CASE command.cmd \notin {"INSERT", "TRUNCATE"}
  <2>1. result.table = table
    <3>1. CASE command.cmd = "INTERSECTION"
      BY <3>1, JoinCommands
    <3>2. CASE command.cmd = "SYMMETRIC_DIFFERENCE"
      BY <3>2, JoinCommands
    <3>3. CASE command.cmd \notin {"INSERT", "TRUNCATE", "INTERSECTION", "SYMMETRIC_DIFFERENCE"}
      BY <3>3, UnknownCommand
    <3> QED BY <1>3, <3>1, <3>2, <3>3
  <2>2. \A t \in Tables : ~Empties(L[n], t) /\ \A id : ~Puts(L[n], t, id)
    BY <1>3 DEF Empties, Puts
  <2>3. Follows(table, L, n + 1)
    BY <2>2, FollowsSame
  <2> QED BY <2>1, <2>3
<1> QED BY <1>1, <1>2, <1>3

-----------------------------------------------------------------------------
(* A reply that lists the rows of some ids, and a reply that is the one    *)
(* the first n - 1 entries of L call for (RepliesFollowHistory).           *)
ListsIn(L, n, reply, S) ==
    \E ids \in [1 .. Cardinality(S) -> S] :
        /\ \A i, j \in DOMAIN ids : i < j => ids[i] < ids[j]
        /\ reply = Append([i \in DOMAIN ids |-> RowOf(L, n, ids[i])], OK)

IsRight(L, n, command, reply) ==
    /\ command.cmd = "INSERT" =>
         reply = IF command.table \in Tables
                      /\ Decoded(command).id \notin IdsIn(L, command.table, n)
                 THEN <<OK>> ELSE <<<<"ERR duplicate", Decoded(command).id>>>>
    /\ command.cmd = "TRUNCATE" => reply = <<OK>>
    /\ command.cmd = "INTERSECTION" =>
         ListsIn(L, n, reply, IdsIn(L, "A", n) \cap IdsIn(L, "B", n))
    /\ command.cmd = "SYMMETRIC_DIFFERENCE" =>
         ListsIn(L, n, reply, (IdsIn(L, "A", n) \ IdsIn(L, "B", n))
                                \cup (IdsIn(L, "B", n) \ IdsIn(L, "A", n)))
    /\ command.cmd \notin {"INSERT", "TRUNCATE", "INTERSECTION", "SYMMETRIC_DIFFERENCE"} =>
         reply = <<Unknown>>

(* Ids and rows of tables that follow a log are those of the log.          *)
LEMMA FollowingRows ==
    ASSUME NEW L, NEW n \in Nat \ {0}, Follows(table, L, n)
    PROVE  /\ \A t \in Tables : Ids(t) = IdsIn(L, t, n)
           /\ \A id : Row(id) = RowOf(L, n, id)
<1>1. ASSUME NEW t \in Tables PROVE Ids(t) = IdsIn(L, t, n)
  <2>1. \A id : id \in Ids(t) <=> InsertsIn(L, t, n, id) # {}
    BY DEF Follows, Ids
  <2>2. \A id : id \in IdsIn(L, t, n) <=> InsertsIn(L, t, n, id) # {}
    BY IdsInIs
  <2> QED BY <2>1, <2>2
<1>2. ASSUME NEW t \in Tables, NEW id PROVE NameIn(t, id) = NameOf(L, t, n, id)
  <2>1. /\ id \in Ids(t) <=> InsertsIn(L, t, n, id) # {}
        /\ id \in Ids(t) => table[t][id] = NameOf(L, t, n, id)
    BY <1>2 DEF Follows, Ids
  <2>2. CASE id \in Ids(t)
    BY <2>1, <2>2, Zenon DEF NameIn
  <2>3. CASE id \notin Ids(t)
    BY <2>1, <2>3, Zenon DEF NameIn, NameOf
  <2> QED BY <2>2, <2>3
<1>3. "A" \in Tables /\ "B" \in Tables
  BY DEF Tables
<1>4. \A id : Row(id) = RowOf(L, n, id)
  BY <1>2, <1>3, Zenon DEF Row, RowOf
<1> QED BY <1>1, <1>4

(* A join lists its ids.                                                   *)
LEMMA JoinLists ==
    ASSUME NEW L, NEW n \in Nat \ {0}, Follows(table, L, n),
           NEW S, S \subseteq Int, IsFiniteSet(S)
    PROVE  ListsIn(L, n, Append(RowsOf(S), OK), S)
<1> DEFINE A == Ascending(S)
           m == Cardinality(S)
<1>1. /\ m \in Nat /\ A \in [1 .. m -> S]
      /\ \A i, j \in 1 .. m : i < j => A[i] < A[j]
  BY AscendingIs
<1>2. \A id : Row(id) = RowOf(L, n, id)
  BY FollowingRows
<1>3. RowsOf(S) = [i \in DOMAIN A |-> Row(A[i])]
  BY DEF RowsOf
<1> HIDE DEF A
<1>4. DOMAIN A = 1 .. m
  BY <1>1
<1>5. [i \in DOMAIN A |-> Row(A[i])] = [i \in DOMAIN A |-> RowOf(L, n, A[i])]
  BY <1>2
<1>6. Append(RowsOf(S), OK) = Append([i \in DOMAIN A |-> RowOf(L, n, A[i])], OK)
  BY <1>3, <1>5, Zenon
<1>7. \A i, j \in DOMAIN A : i < j => A[i] < A[j]
  BY <1>1, <1>4
<1> QED BY <1>1, <1>6, <1>7, Zenon DEF ListsIn

(* The reply to a command is the right one.                                *)
LEMMA RepliesRight ==
    ASSUME TablesOK(table), NEW L, NEW n \in Nat \ {0}, Follows(table, L, n), NEW command
    PROVE  IsRight(L, n, command, process_command(command).reply)
<1> DEFINE result == process_command(command)
           reply == result.reply
<1>1. \A t \in Tables : Ids(t) = IdsIn(L, t, n)
  BY FollowingRows
<1>2. "A" \in Tables /\ "B" \in Tables
  BY DEF Tables
<1>3. CASE command.cmd = "INSERT"
  <2> DEFINE record == Decoded(command)
             u == command.table
             x == record.id
             tables == insert(u, x, record.name).table
             done == insert(u, x, record.name).done
             bad == <<"ERR duplicate", x>>
  <2>1. result = [table |-> tables, reply |-> <<IF done THEN OK ELSE bad>>]
    BY <1>3, InsertCommand
  <2>2. done <=> (u \in Tables /\ x \notin IdsIn(L, u, n))
    <3> HIDE DEF u, x
    <3>1. CASE u \in Tables /\ x \notin Ids(u)
      BY <1>1, <3>1, InsertNew
    <3>2. CASE ~(u \in Tables /\ x \notin Ids(u))
      BY <1>1, <3>2, InsertOld
    <3> QED BY <3>1, <3>2
  <2> HIDE DEF tables, done, bad
  <2>3. reply = <<IF done THEN OK ELSE bad>>
    BY <2>1
  <2>4. reply = IF u \in Tables /\ x \notin IdsIn(L, u, n) THEN <<OK>> ELSE <<bad>>
    <3>1. CASE done
      BY <2>2, <2>3, <3>1, Zenon
    <3>2. CASE ~done
      BY <2>2, <2>3, <3>2, Zenon
    <3> QED BY <3>1, <3>2
  <2> QED BY <1>3, <2>4, Zenon DEF IsRight, bad
<1>4. CASE command.cmd = "TRUNCATE"
  <2>1. reply = <<OK>>
    BY <1>4, TruncateCommand
  <2> QED BY <1>4, <2>1 DEF IsRight
<1>5. CASE command.cmd = "INTERSECTION"
  <2> DEFINE S == Ids("A") \cap Ids("B")
  <2>1. /\ result = [table |-> table, reply |-> Append(intersection, OK)]
    BY <1>5, JoinCommands
  <2>2. reply = Append(RowsOf(S), OK)
    BY <2>1, JoinsAre
  <2>3. S = IdsIn(L, "A", n) \cap IdsIn(L, "B", n)
    BY <1>1, <1>2
  <2>4. S \subseteq Int /\ IsFiniteSet(S)
    BY JoinsAre
  <2> HIDE DEF S
  <2>5. ListsIn(L, n, reply, IdsIn(L, "A", n) \cap IdsIn(L, "B", n))
    BY <2>2, <2>3, <2>4, JoinLists
  <2> QED BY <1>5, <2>5 DEF IsRight
<1>6. CASE command.cmd = "SYMMETRIC_DIFFERENCE"
  <2> DEFINE S == (Ids("A") \cup Ids("B")) \ (Ids("A") \cap Ids("B"))
             R == (IdsIn(L, "A", n) \ IdsIn(L, "B", n)) \cup (IdsIn(L, "B", n) \ IdsIn(L, "A", n))
  <2>1. /\ result = [table |-> table, reply |-> Append(symmetric_difference, OK)]
    BY <1>6, JoinCommands
  <2>2. reply = Append(RowsOf(S), OK)
    BY <2>1, JoinsAre
  <2>3. S = R
    BY <1>1, <1>2
  <2>4. S \subseteq Int /\ IsFiniteSet(S)
    BY JoinsAre
  <2> HIDE DEF S, R
  <2>5. ListsIn(L, n, reply, R)
    BY <2>2, <2>3, <2>4, JoinLists
  <2> QED BY <1>6, <2>5 DEF IsRight, R
<1>7. CASE command.cmd \notin {"INSERT", "TRUNCATE", "INTERSECTION", "SYMMETRIC_DIFFERENCE"}
  <2>1. reply = <<Unknown>>
    BY <1>7, UnknownCommand
  <2> QED BY <1>7, <2>1 DEF IsRight
<1> QED BY <1>3, <1>4, <1>5, <1>6, <1>7

(* It depends on no entry but those before n.                              *)
LEMMA RightPrefix ==
    ASSUME NEW L, NEW M, NEW n \in Nat \ {0}, \A i \in 1 .. n - 1 : M[i] = L[i]
    PROVE  /\ \A command, reply : IsRight(L, n, command, reply) => IsRight(M, n, command, reply)
           /\ \A tb : Follows(tb, L, n) => Follows(tb, M, n)
<1>1. \A t, id : /\ InsertsIn(M, t, n, id) = InsertsIn(L, t, n, id)
                 /\ NameOf(M, t, n, id) = NameOf(L, t, n, id)
  BY SamePrefix
<1>2. \A t : IdsIn(M, t, n) = IdsIn(L, t, n)
  <2> SUFFICES ASSUME NEW t PROVE IdsIn(M, t, n) = IdsIn(L, t, n)
    OBVIOUS
  <2>1. \A id : id \in IdsIn(M, t, n) <=> id \in IdsIn(L, t, n)
    <3>1. \A id : id \in IdsIn(L, t, n) <=> InsertsIn(L, t, n, id) # {}
      BY IdsInIs
    <3>2. \A id : id \in IdsIn(M, t, n) <=> InsertsIn(M, t, n, id) # {}
      BY IdsInIs
    <3> QED BY <1>1, <3>1, <3>2
  <2> QED BY <2>1
<1>3. \A id : RowOf(M, n, id) = RowOf(L, n, id)
  BY <1>1, Zenon DEF RowOf
<1>4. \A reply, S : ListsIn(L, n, reply, S) => ListsIn(M, n, reply, S)
  <2> SUFFICES ASSUME NEW reply, NEW S, ListsIn(L, n, reply, S) PROVE ListsIn(M, n, reply, S)
    OBVIOUS
  <2>1. PICK ids \in [1 .. Cardinality(S) -> S] :
             /\ \A i, j \in DOMAIN ids : i < j => ids[i] < ids[j]
             /\ reply = Append([i \in DOMAIN ids |-> RowOf(L, n, ids[i])], OK)
    BY Zenon DEF ListsIn
  <2>2. [i \in DOMAIN ids |-> RowOf(L, n, ids[i])] = [i \in DOMAIN ids |-> RowOf(M, n, ids[i])]
    BY <1>3
  <2>3. reply = Append([i \in DOMAIN ids |-> RowOf(M, n, ids[i])], OK)
    BY <2>1, <2>2, Zenon
  <2> QED BY <2>1, <2>3, Zenon DEF ListsIn
<1>5. ASSUME NEW command, NEW reply, IsRight(L, n, command, reply)
      PROVE  IsRight(M, n, command, reply)
  <2>1. /\ IdsIn(M, command.table, n) = IdsIn(L, command.table, n)
        /\ IdsIn(M, "A", n) = IdsIn(L, "A", n)
        /\ IdsIn(M, "B", n) = IdsIn(L, "B", n)
    BY <1>2
  <2> QED BY <1>4, <1>5, <2>1, Zenon DEF IsRight
<1>6. \A tb : Follows(tb, L, n) => Follows(tb, M, n)
  BY <1>1 DEF Follows
<1> QED BY <1>5, <1>6

(* What the tables and the last reply have to do with the log.             *)
Remembers ==
    /\ Follows(table, log, Len(log) + 1)
    /\ log # <<>> => IsRight(log, Len(log), log[Len(log)].command, log[Len(log)].reply)

(* Empty tables follow an empty log.                                       *)
LEMMA RemembersInit == Init => Remembers
<1> SUFFICES ASSUME Init PROVE Remembers
  OBVIOUS
<1>1. log = <<>> /\ Len(log) + 1 = 1 /\ 1 \in Nat \ {0}
  BY DEF Init
<1>2. ASSUME NEW t \in Tables, NEW id
      PROVE  id \notin DOMAIN table[t] /\ InsertsIn(log, t, 1, id) = {}
  <2>1. table[t] = <<>>
    BY DEF Init
  <2>2. InsertsIn(log, t, 1, id) \subseteq 1 .. 1 - 1
    BY <1>1, InsertsAre
  <2> QED BY <2>1, <2>2
<1>3. Follows(table, log, 1)
  BY <1>2 DEF Follows
<1> QED BY <1>1, <1>3 DEF Remembers

(* A line handled is remembered.                                           *)
LEMMA RemembersLine ==
    ASSUME Inv, Remembers, NEW c \in Clients, HandleLine(c)
    PROVE  Remembers'
<1> DEFINE command == Head(inbox[c])
           result == process_command(command)
           reply == result.reply
           entry == [command |-> command, reply |-> reply]
           L == Append(log, entry)
           n == Len(log) + 1
<1>1. table' = result.table /\ log' = L
  BY Zenon DEF HandleLine
<1> HIDE DEF command
<1>2. TablesOK(table) /\ log \in Seq(Entry) /\ Follows(table, log, n)
  BY DEF Inv, Remembers
<1>3. IsRight(L, n, command, reply) /\ Follows(result.table, L, n + 1)
  <2>1. /\ n \in Nat \ {0} /\ L[n] = entry /\ \A i \in 1 .. n - 1 : L[i] = log[i]
    <3> HIDE DEF entry
    <3> QED BY <1>2
  <2>2. L[n].command = command
    BY <2>1
  <2> HIDE DEF L, n
  <2>3. Follows(table, L, n)
    BY <1>2, <2>1, RightPrefix
  <2>4. IsRight(L, n, command, reply)
    BY <1>2, <2>1, <2>3, RepliesRight
  <2>5. Follows(result.table, L, n + 1)
    BY <1>2, <2>1, <2>2, <2>3, FollowsNext
  <2> QED BY <2>4, <2>5
<1>4. Len(L) = n /\ L # <<>> /\ L[n].command = command /\ L[n].reply = reply
  <2>1. Len(L) = n /\ L # <<>> /\ L[n] = entry
    <3> HIDE DEF entry
    <3> QED BY <1>2
  <2> QED BY <2>1
<1> HIDE DEF L, n, result
<1>5. Follows(table', log', Len(log') + 1)
  BY <1>1, <1>3, <1>4
<1>6. IsRight(log', Len(log'), log'[Len(log')].command, log'[Len(log')].reply)
  BY <1>1, <1>3, <1>4
<1> QED BY <1>5, <1>6 DEF Remembers

(* So are all steps.                                                       *)
LEMMA RemembersNext == Inv /\ Remembers /\ [Next]_vars => Remembers'
<1> SUFFICES ASSUME Inv, Remembers, [Next]_vars PROVE Remembers'
  OBVIOUS
<1>1. CASE \E c \in Clients : HandleLine(c)
  BY <1>1, RemembersLine
<1>2. CASE ~ \E c \in Clients : HandleLine(c)
  <2>1. table' = table /\ log' = log
    <3>1. CASE Stop
      BY <3>1 DEF Stop, serverVars
    <3>2. CASE Step
      BY <1>2, <3>2 DEF Step, Accept, HandleEof, ContinueWrite, Writable, Receive, serverVars
    <3>3. CASE \E c \in Fragile : HandleError(c)
      BY <3>3 DEF HandleError
    <3>4. CASE UNCHANGED vars
      BY <3>4 DEF vars
    <3> QED BY <3>1, <3>2, <3>3, <3>4 DEF Next
  <2> QED BY <2>1 DEF Remembers
<1> QED BY <1>1, <1>2

(* While every INSERT decodes, what the log calls for is what the lines as *)
(* they were sent call for.                                                *)
LEMMA AsSent ==
    ASSUME AllDecode, NEW n \in 1 .. Len(log), log \in Seq(Entry)
    PROVE  /\ \A t : IdsBefore(t, n) = IdsIn(log, t, n)
           /\ \A id : RowBefore(n, id) = RowOf(log, n, id)
           /\ log[n].command.cmd = "INSERT" => Decoded(log[n].command).id = log[n].command.id
<1>1. ASSUME NEW i \in 1 .. Len(log), log[i].command.cmd = "INSERT"
      PROVE  /\ Decoded(log[i].command).id = log[i].command.id
             /\ Decoded(log[i].command).name = log[i].command.name
  <2>1. log[i].command.decodes
    BY <1>1 DEF AllDecode
  <2> DEFINE command == log[i].command
  <2> HIDE DEF command
  <2>2. command.decodes => /\ Decoded(command).id = command.id
                           /\ Decoded(command).name = command.name
    BY DEF Decoded
  <2> QED BY <2>1, <2>2 DEF command
<1>2. \A i \in 1 .. n - 1 : i \in 1 .. Len(log)
  OBVIOUS
<1>3. ASSUME NEW t PROVE Since(t, n) = SinceIn(log, t, n)
  BY Zenon DEF Since, SinceIn, Empties
<1>4. ASSUME NEW t, NEW id PROVE Inserts(t, n, id) = InsertsIn(log, t, n, id)
  <2>1. SinceIn(log, t, n) \in 0 .. n - 1
    BY SinceIs
  <2>2. \A i \in SinceIn(log, t, n) + 1 .. n - 1 :
           /\ i \in 1 .. Len(log)
           /\ log[i].command.cmd = "INSERT" => Decoded(log[i].command).id = log[i].command.id
    BY <1>1, <1>2, <2>1
  <2>3. \A i \in SinceIn(log, t, n) + 1 .. n - 1 :
           (/\ log[i].command.cmd = "INSERT" /\ log[i].command.table = t
            /\ log[i].command.id = id) <=> Puts(log[i], t, id)
    BY <2>2, Zenon DEF Puts
  <2> QED BY <1>3, <2>3 DEF Inserts, InsertsIn
<1>5. ASSUME NEW t PROVE IdsBefore(t, n) = IdsIn(log, t, n)
  <2> DEFINE J == {j \in 1 .. n - 1 : log[j].command.cmd = "INSERT"}
  <2>1. \A i \in J : Decoded(log[i].command).id = log[i].command.id
    BY <1>1, <1>2
  <2>2. {log[i].command.id : i \in J} = {Decoded(log[i].command).id : i \in J}
    <3> HIDE DEF J
    <3> QED BY <2>1
  <2> QED BY <1>4, <2>2 DEF IdsBefore, IdsIn
<1>6. ASSUME NEW t, NEW id PROVE NameBefore(t, n, id) = NameOf(log, t, n, id)
  <2> DEFINE S == InsertsIn(log, t, n, id)
  <2>1. Inserts(t, n, id) = S
    BY <1>4
  <2>2. CASE S = {}
    BY <2>1, <2>2, Zenon DEF NameBefore, NameOf
  <2>3. CASE S # {}
    <3>1. S \subseteq 1 .. n - 1
      BY InsertsAre
    <3>2. S \subseteq Nat
      BY <3>1
    <3>3. Min(S) \in S
      BY <2>3, <3>2, MinIs
    <3>4. Min(S) \in 1 .. Len(log) /\ log[Min(S)].command.cmd = "INSERT"
      <4>1. \A i \in S : i \in 1 .. Len(log) /\ log[i].command.cmd = "INSERT"
        BY <1>2, <3>1, Zenon DEF InsertsIn, Puts
      <4> HIDE DEF S
      <4> QED BY <3>3, <4>1
    <3>5. Decoded(log[Min(S)].command).name = log[Min(S)].command.name
      BY <1>1, <3>4
    <3> QED BY <2>1, <2>3, <3>5, Zenon DEF NameBefore, NameOf
  <2> QED BY <2>2, <2>3
<1>7. ASSUME NEW id PROVE RowBefore(n, id) = RowOf(log, n, id)
  <2>1. /\ NameBefore("A", n, id) = NameOf(log, "A", n, id)
        /\ NameBefore("B", n, id) = NameOf(log, "B", n, id)
    BY <1>6, Zenon
  <2> QED BY <2>1, Zenon DEF RowBefore, RowOf
<1> QED BY <1>1, <1>5, <1>7

(* Until a malformed INSERT is handled every reply, when it is made, is    *)
(* the one that the commands handled before it call for, whichever         *)
(* sessions they came from: an INSERT succeeds just when the id is new,    *)
(* the joins list the ids of both tables or of just one in ascending order *)
(* with the names first inserted.                                          *)
THEOREM RepliesConsistent == Spec => []RepliesFollowHistory
<1>1. Inv /\ Remembers => RepliesFollowHistory
  <2> SUFFICES ASSUME Inv, Remembers, log # <<>>, AllDecode PROVE RepliesFollowHistory
    BY Zenon DEF RepliesFollowHistory
  <2> DEFINE n == Len(log)
             command == log[n].command
             reply == log[n].reply
             Lists(S) ==
               \E ids \in [1 .. Cardinality(S) -> S] :
                    /\ \A i, j \in DOMAIN ids : i < j => ids[i] < ids[j]
                    /\ reply = Append([i \in DOMAIN ids |-> RowBefore(n, ids[i])], OK)
  <2>0. /\ \A t : IdsBefore(t, n) = IdsIn(log, t, n)
        /\ \A id : RowBefore(n, id) = RowOf(log, n, id)
        /\ command.cmd = "INSERT" => Decoded(command).id = command.id
    <3>1. log \in Seq(Entry) /\ n \in 1 .. Len(log)
      BY DEF Inv
    <3> HIDE DEF n
    <3> QED BY <3>1, AsSent
  <2>1. IsRight(log, n, command, reply)
    BY DEF Remembers
  <2>2. ASSUME NEW S PROVE ListsIn(log, n, reply, S) => Lists(S)
    <3> SUFFICES ASSUME ListsIn(log, n, reply, S) PROVE Lists(S)
      OBVIOUS
    <3> HIDE DEF reply, n
    <3>1. PICK ids \in [1 .. Cardinality(S) -> S] :
               /\ \A i, j \in DOMAIN ids : i < j => ids[i] < ids[j]
               /\ reply = Append([i \in DOMAIN ids |-> RowOf(log, n, ids[i])], OK)
      BY Zenon DEF ListsIn
    <3>2. [i \in DOMAIN ids |-> RowOf(log, n, ids[i])]
            = [i \in DOMAIN ids |-> RowBefore(n, ids[i])]
      BY <2>0
    <3>3. reply = Append([i \in DOMAIN ids |-> RowBefore(n, ids[i])], OK)
      BY <3>1, <3>2, Zenon
    <3> QED BY <3>1, <3>3, Zenon
  <2>3. CASE command.cmd = "INSERT"
    <3>1. reply = IF command.table \in Tables
                      /\ command.id \notin IdsBefore(command.table, n)
                  THEN <<OK>> ELSE <<<<"ERR duplicate", command.id>>>>
      BY <2>0, <2>1, <2>3, Zenon DEF IsRight
    <3> QED BY <2>3, <3>1, Zenon DEF RepliesFollowHistory
  <2>4. CASE command.cmd = "TRUNCATE"
    <3>1. reply = <<OK>>
      BY <2>1, <2>4, Zenon DEF IsRight
    <3>2. command.cmd # "INSERT"
      BY <2>4
    <3> QED BY <2>4, <3>1, <3>2, Zenon DEF RepliesFollowHistory
  <2>5. CASE command.cmd = "INTERSECTION"
    <3>1. Lists(IdsBefore("A", n) \cap IdsBefore("B", n))
      <4> DEFINE both == IdsBefore("A", n) \cap IdsBefore("B", n)
      <4>1. ListsIn(log, n, reply, both)
        <5>1. ListsIn(log, n, reply, IdsIn(log, "A", n) \cap IdsIn(log, "B", n))
          BY <2>1, <2>5, Zenon DEF IsRight
        <5>2. both = IdsIn(log, "A", n) \cap IdsIn(log, "B", n)
          BY <2>0
        <5> HIDE DEF both
        <5> QED BY <5>1, <5>2, Zenon
      <4> HIDE DEF both
      <4>2. Lists(both)
        BY <2>2, <4>1
      <4> QED BY <4>2 DEF both
    <3>2. command.cmd # "INSERT" /\ command.cmd # "TRUNCATE"
      BY <2>5
    <3> QED BY <2>5, <3>1, <3>2, Zenon DEF RepliesFollowHistory
  <2>6. CASE command.cmd = "SYMMETRIC_DIFFERENCE"
    <3>1. Lists((IdsBefore("A", n) \ IdsBefore("B", n))
                  \cup (IdsBefore("B", n) \ IdsBefore("A", n)))
      <4> DEFINE either == (IdsBefore("A", n) \ IdsBefore("B", n))
                             \cup (IdsBefore("B", n) \ IdsBefore("A", n))
      <4>1. ListsIn(log, n, reply, either)
        <5>1. ListsIn(log, n, reply, (IdsIn(log, "A", n) \ IdsIn(log, "B", n))
                                       \cup (IdsIn(log, "B", n) \ IdsIn(log, "A", n)))
          BY <2>1, <2>6, Zenon DEF IsRight
        <5>2. either = (IdsIn(log, "A", n) \ IdsIn(log, "B", n))
                         \cup (IdsIn(log, "B", n) \ IdsIn(log, "A", n))
          BY <2>0
        <5> HIDE DEF either
        <5> QED BY <5>1, <5>2, Zenon
      <4> HIDE DEF either
      <4>2. Lists(either)
        BY <2>2, <4>1
      <4> QED BY <4>2 DEF either
    <3>2. command.cmd # "INSERT" /\ command.cmd # "TRUNCATE" /\ command.cmd # "INTERSECTION"
      BY <2>6
    <3> QED BY <2>6, <3>1, <3>2, Zenon DEF RepliesFollowHistory
  <2>7. CASE command.cmd \notin {"INSERT", "TRUNCATE", "INTERSECTION", "SYMMETRIC_DIFFERENCE"}
    <3>1. reply = <<Unknown>>
      BY <2>1, <2>7 DEF IsRight
    <3>2. /\ command.cmd # "INSERT" /\ command.cmd # "TRUNCATE" /\ command.cmd # "INTERSECTION"
          /\ command.cmd # "SYMMETRIC_DIFFERENCE"
      BY <2>7
    <3> QED BY <3>1, <3>2, Zenon DEF RepliesFollowHistory
  <2> QED BY <2>3, <2>4, <2>5, <2>6, <2>7
<1>2. Spec => []Inv
  BY InvInit, InvNext, PTL DEF Spec
<1> QED BY <1>1, <1>2, RemembersInit, RemembersNext, PTL DEF Spec
=============================================================================
