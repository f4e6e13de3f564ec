---------------------------- MODULE BracesProofs ----------------------------
(***************************************************************************)
(* Lemmas about Braces: that the recursion in Depth defines a function, and*)
(* what it says of an input that grows.                                    *)
(***************************************************************************)
EXTENDS Braces, TLAPS, FiniteSetTheorems, WellFoundedInduction, SequenceTheorems

(***************************************************************************)
(* A set of numbers that is not empty has a least one: the form in which   *)
(* the proofs of this project use induction.                               *)
(***************************************************************************)
LEMMA LeastNat ==
    ASSUME NEW T, T \subseteq Nat, T # {}
    PROVE  \E n \in T : \A m \in T : n <= m
<1> DEFINE below == {1 .. n : n \in T}
<1>1. below # {} /\ below \subseteq FiniteSubsetsOf(Nat)
  <2>1. ASSUME NEW n \in T PROVE 1 .. n \in FiniteSubsetsOf(Nat)
    <3>1. n \in Int /\ 1 .. n \in SUBSET Nat
      OBVIOUS
    <3>2. IsFiniteSet(1 .. n)
      BY <3>1, FS_Interval
    <3> QED BY <3>1, <3>2 DEF FiniteSubsetsOf
  <2> QED BY <2>1
<1>2. \E x \in below : \A y \in below : ~(<<y, x>> \in StrictSubsetOrdering(Nat))
  <2> HIDE DEF below
  <2> QED BY <1>1, FS_StrictSubsetOrderingWellFounded, WFMin
<1>3. PICK n \in T : \A m \in T : ~(<<1 .. m, 1 .. n>> \in StrictSubsetOrdering(Nat))
  BY <1>2
<1>4. ASSUME NEW m \in T, m < n PROVE FALSE
  <2>1. (1 .. m) \subseteq (1 .. n) /\ n \in 1 .. n /\ n \notin 1 .. m
    BY <1>4
  <2>2. <<1 .. m, 1 .. n>> \in StrictSubsetOrdering(Nat)
    BY <2>1 DEF StrictSubsetOrdering
  <2> QED BY <1>3, <2>2
<1> QED BY <1>3, <1>4

-----------------------------------------------------------------------------

(* d gives the nesting after each of the first n lines.                    *)
GivesDepth(d, input, n) ==
    d = [i \in 0 .. n |-> IF i = 0 THEN 0 ELSE After(d[i - 1], input[i])]

(* There is such a function for every length, by induction over it.        *)
LEMMA SomethingGivesDepth ==
    ASSUME NEW input
    PROVE  \A n \in Nat : \E d : GivesDepth(d, input, n)
<1> DEFINE Bad == {n \in Nat : ~ \E d : GivesDepth(d, input, n)}
<1>1. ASSUME Bad # {} PROVE FALSE
  <2>1. PICK n \in Bad : \A m \in Bad : n <= m
    BY <1>1, LeastNat
  <2>2. CASE n = 0
    <3>1. GivesDepth([i \in 0 .. 0 |-> 0], input, 0)
      BY DEF GivesDepth
    <3> QED BY <2>2, <3>1
  <2>3. CASE n > 0
    <3>1. PICK e : GivesDepth(e, input, n - 1)
      <4>1. n - 1 \in Nat /\ n - 1 \notin Bad
        BY <2>1, <2>3
      <4> QED BY <4>1
    <3> DEFINE d == [i \in 0 .. n |-> IF i = n THEN After(e[n - 1], input[n]) ELSE e[i]]
    <3>2. GivesDepth(d, input, n)
      <4>1. d = [i \in 0 .. n |-> IF i = 0 THEN 0 ELSE After(d[i - 1], input[i])]
        <5>1. ASSUME NEW i \in 0 .. n
              PROVE  d[i] = IF i = 0 THEN 0 ELSE After(d[i - 1], input[i])
          <6>1. CASE i = n
            <7>1. d[i - 1] = e[n - 1]
              BY <2>3, <6>1
            <7> QED BY <2>3, <6>1, <7>1
          <6>2. CASE i < n
            <7>1. i \in 0 .. n - 1 /\ d[i] = e[i]
              BY <2>3, <6>2
            <7>2. i # 0 => d[i - 1] = e[i - 1]
              BY <2>3, <6>2
            <7>3. e[i] = IF i = 0 THEN 0 ELSE After(e[i - 1], input[i])
              BY <3>1, <7>1 DEF GivesDepth
            <7> QED BY <7>1, <7>2, <7>3
          <6> QED BY <6>1, <6>2
        <5> HIDE DEF d
        <5>2. d = [i \in 0 .. n |-> d[i]]
          BY DEF d
        <5> QED BY <5>1, <5>2
      <4> QED BY <4>1 DEF GivesDepth
    <3> QED BY <3>2
  <2> QED BY <2>1, <2>2, <2>3
<1> QED BY <1>1

(***************************************************************************)
(* Depth is 0 before the first line and changes from line to line as After *)
(* says.                                                                   *)
(***************************************************************************)
LEMMA DepthDef ==
    ASSUME NEW input, Len(input) \in Nat
    PROVE  /\ Depth(input)[0] = 0
           /\ \A i \in 1 .. Len(input) : Depth(input)[i] = After(Depth(input)[i - 1], input[i])
<1> DEFINE Body(d) == [i \in 0 .. Len(input) |-> IF i = 0 THEN 0 ELSE After(d[i - 1], input[i])]
<1>1. \E d : d = Body(d)
  BY SomethingGivesDepth DEF GivesDepth
<1>2. Depth(input) = CHOOSE d : d = Body(d)
  BY DEF Depth
<1>3. Depth(input) = Body(Depth(input))
  <2> HIDE DEF Body
  <2> QED BY <1>1, <1>2
<1>4. ASSUME NEW d, d = Body(d)
      PROVE  d[0] = 0 /\ \A i \in 1 .. Len(input) : d[i] = After(d[i - 1], input[i])
  <2>1. \A i \in 0 .. Len(input) :
            Body(d)[i] = IF i = 0 THEN 0 ELSE After(d[i - 1], input[i])
    OBVIOUS
  <2> HIDE DEF Body
  <2> QED BY <1>4, <2>1
<1> HIDE DEF Body
<1> QED BY <1>3, <1>4

(* The two braces are different texts.                                     *)
LEMMA BracesDiffer == LeftBrace # RightBrace
BY Zenon DEF LeftBrace, RightBrace

(* A line leads from a level to a level.                                   *)
LEMMA AfterType ==
    ASSUME NEW level \in Nat, NEW text
    PROVE  After(level, text) \in Nat
<1>1. CASE text = LeftBrace
  <2>1. After(level, text) = level + 1
    BY <1>1, BracesDiffer DEF After
  <2> QED BY <2>1
<1>2. CASE text = RightBrace /\ level > 0
  <2>1. After(level, text) = level - 1
    BY <1>2 DEF After
  <2>2. level - 1 \in Nat
    BY <1>2
  <2> QED BY <2>1, <2>2
<1>3. CASE text # LeftBrace /\ ~(text = RightBrace /\ level > 0)
  BY <1>3 DEF After
<1> QED BY <1>1, <1>2, <1>3

(* Depths are natural numbers.                                             *)
LEMMA DepthType ==
    ASSUME NEW input, Len(input) \in Nat
    PROVE  \A i \in 0 .. Len(input) : Depth(input)[i] \in Nat
<1> DEFINE Bad == {i \in Nat : i \in 0 .. Len(input) /\ Depth(input)[i] \notin Nat}
<1>1. ASSUME Bad # {} PROVE FALSE
  <2>1. PICK i \in Bad : \A j \in Bad : i <= j
    BY <1>1, LeastNat
  <2>2. i # 0
    BY <2>1, DepthDef
  <2>3. i - 1 \in 0 .. Len(input) /\ i \in 1 .. Len(input) /\ i - 1 \notin Bad
    BY <2>1, <2>2
  <2>4. Depth(input)[i - 1] \in Nat /\ Depth(input)[i] = After(Depth(input)[i - 1], input[i])
    BY <2>3, DepthDef
  <2>5. Depth(input)[i] \in Nat
    BY <2>4, AfterType
  <2> QED BY <2>1, <2>5
<1> QED BY <1>1

(***************************************************************************)
(* More lines leave the depths of those before them as they were.          *)
(***************************************************************************)
LEMMA DepthOfPrefix ==
    ASSUME NEW input, NEW longer, Len(input) \in Nat, Len(longer) \in Nat,
           Len(input) <= Len(longer), \A i \in 1 .. Len(input) : longer[i] = input[i]
    PROVE  \A i \in 0 .. Len(input) : Depth(longer)[i] = Depth(input)[i]
<1> DEFINE Bad == {i \in Nat : i \in 0 .. Len(input) /\ Depth(longer)[i] # Depth(input)[i]}
<1>1. ASSUME Bad # {} PROVE FALSE
  <2>1. PICK i \in Bad : \A j \in Bad : i <= j
    BY <1>1, LeastNat
  <2>2. i # 0
    BY <2>1, DepthDef
  <2>3. /\ i - 1 \in 0 .. Len(input) /\ i - 1 \notin Bad
        /\ i \in 1 .. Len(input) /\ i \in 1 .. Len(longer)
    BY <2>1, <2>2
  <2>4. Depth(longer)[i - 1] = Depth(input)[i - 1] /\ longer[i] = input[i]
    BY <2>3
  <2>5. Depth(longer)[i] = Depth(input)[i]
    BY <2>3, <2>4, DepthDef
  <2> QED BY <2>1, <2>5
<1> QED BY <1>1

-----------------------------------------------------------------------------
(***************************************************************************)
(*                  Sequences of positions that go up                      *)
(***************************************************************************)

Positions(s) == {s[j] : j \in 1 .. Len(s)}

(* One position more at the end.                                           *)
LEMMA AppendPositions ==
    ASSUME NEW s \in Seq(Nat), NEW p \in Nat
    PROVE  Positions(Append(s, p)) = Positions(s) \cup {p}
<1>1. /\ Len(Append(s, p)) = Len(s) + 1 /\ Len(s) \in Nat
      /\ \A i \in 1 .. Len(s) : Append(s, p)[i] = s[i]
      /\ Append(s, p)[Len(s) + 1] = p
  BY AppendProperties, LenProperties
<1>2. 1 .. Len(s) + 1 = (1 .. Len(s)) \cup {Len(s) + 1}
  BY <1>1
<1> QED BY <1>1, <1>2 DEF Positions

(* A command added to what is being formed, at the end.                    *)
LEMMA AppendOrdered ==
    ASSUME NEW s \in Seq(Nat), NEW n \in Nat, Increasing(s),
           \A j \in 1 .. Len(s) : s[j] \in 1 .. n
    PROVE  /\ Increasing(Append(s, n + 1))
           /\ \A j \in 1 .. Len(Append(s, n + 1)) : Append(s, n + 1)[j] \in 1 .. n + 1
<1>1. /\ Len(Append(s, n + 1)) = Len(s) + 1 /\ Len(s) \in Nat
      /\ \A i \in 1 .. Len(s) : Append(s, n + 1)[i] = s[i]
      /\ Append(s, n + 1)[Len(s) + 1] = n + 1
  BY AppendProperties, LenProperties
<1> DEFINE t == Append(s, n + 1)
<1> HIDE DEF t
<1>2. \A j \in 1 .. Len(t) : t[j] \in 1 .. n + 1
  BY <1>1 DEF t
<1>3. ASSUME NEW j \in 1 .. Len(t), NEW k \in 1 .. Len(t), j < k PROVE t[j] < t[k]
  <2>1. j \in 1 .. Len(s) /\ (k \in 1 .. Len(s) \/ k = Len(s) + 1)
    BY <1>1, <1>3 DEF t
  <2> QED BY <1>1, <1>3, <2>1 DEF t, Increasing
<1> QED BY <1>2, <1>3 DEF t, Increasing

(* What is in a sequence of positions that gets one more.                  *)
LEMMA AppendIs ==
    ASSUME NEW s \in Seq(Nat), NEW e \in Nat
    PROVE  /\ Append(s, e) \in Seq(Nat) /\ Append(s, e) # <<>> /\ Len(Append(s, e)) = Len(s) + 1
           /\ \A j \in 1 .. Len(s) : Append(s, e)[j] = s[j]
           /\ Append(s, e)[Len(s) + 1] = e
BY AppendProperties

(* Order of blocks, by their positions.                                    *)
LEMMA BeforePositions ==
    ASSUME NEW s, NEW t
    PROVE  Before(s, t) <=> \A x \in Positions(s) : \A y \in Positions(t) : x < y
BY DEF Before, Positions
=============================================================================
