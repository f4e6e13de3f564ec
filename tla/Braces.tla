------------------------------- MODULE Braces -------------------------------
(***************************************************************************)
(* What the texts of an input say about its lines, for the bulk programs.  *)
(* These definitions say what a program should make of its input; they are *)
(* not how it does so.  HW_7 and HW_9 take a closing brace without an      *)
(* opening one for an ordinary command, as After and CommandsOf do; HW_10  *)
(* counts down instead and uses the names of the braces and the order of   *)
(* blocks only.                                                            *)
(***************************************************************************)
EXTENDS Naturals, Sequences

LeftBrace  == "{"
RightBrace == "}"

(***************************************************************************)
(* What the texts of an input say about its positions: the nesting after   *)
(* each, and which of them are commands rather than braces of a pair.      *)
(***************************************************************************)
After(level, text) ==
    CASE text = LeftBrace -> level + 1
      [] text = RightBrace /\ level > 0 -> level - 1
      [] OTHER -> level

Depth(input) ==
    LET d[i \in 0 .. Len(input)] == IF i = 0 THEN 0 ELSE After(d[i - 1], input[i])
    IN d

CommandsOf(input) ==
    {p \in 1 .. Len(input) :
        input[p] # LeftBrace /\ ~(input[p] = RightBrace /\ Depth(input)[p - 1] > 0)}

(* All commands of a block are inside or all outside of braces, and with   *)
(* no brace of an outermost pair between them.                             *)
OneKind(input, block) ==
    \A i, j \in 1 .. Len(block) :
        i < j => \A k \in block[i] .. block[j] :
                    Depth(input)[k] > 0 <=> Depth(input)[block[i]] > 0

(* Sequences of positions that go up, each and one after the other.        *)
Increasing(s) == \A j, k \in 1 .. Len(s) : j < k => s[j] < s[k]
Before(s, t)  == \A j \in 1 .. Len(s), k \in 1 .. Len(t) : s[j] < t[k]
=============================================================================
