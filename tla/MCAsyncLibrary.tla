-------------------------- MODULE MCAsyncLibrary ---------------------------
(* Constant values for model checking AsyncLibrary.                        *)
EXTENDS AsyncLibrary, TLC

MCLines  == {<<"x">>, <<"{">>, <<"}">>}
MCChunks == {<<"x">>, <<"{", "x", "}">>}
MCPlain  == {<<"x">>}

\* The clients are interchangeable.
MCSymmetry == Permutations(Clients)
=============================================================================
