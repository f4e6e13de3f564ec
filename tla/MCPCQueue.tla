----------------------------- MODULE MCPCQueue -----------------------------
(* Constant values and symmetry for model checking PCQueue.                *)
EXTENDS PCQueue, TLC

\* Threads of one role are interchangeable.
MCSymmetry == Permutations(Producers) \cup Permutations(Consumers)
=============================================================================
