---------------------------- MODULE MCBulkServer ----------------------------
(* Constant values for model checking BulkServer.                          *)
EXTENDS BulkServer, TLC

Script(lines, newline) == [lines |-> lines, newline |-> newline]

MCScripts == {Script(<<"x", "x">>, FALSE), Script(<<"{", "x", "}">>, TRUE)}
MCNested  == {Script(<<"x">>, FALSE), Script(<<"{", "{", "}">>, TRUE)}

\* Connections are interchangeable.
MCSymmetry == Permutations(Connections)
=============================================================================
