---------------------------- MODULE MCJoinServer ----------------------------
(***************************************************************************)
(* Two clients that send two or three lines without waiting.  Three parts, *)
(* one message and a half, fit into a socket.  One connection may break.   *)
(***************************************************************************)
EXTENDS JoinServer

INSERT(t, i, n) == [cmd |-> "INSERT", table |-> t, id |-> i, name |-> n, decodes |-> i # 0]
Other(c, t) == [cmd |-> c, table |-> t]

Symmetric == Other("SYMMETRIC_DIFFERENCE", "")
Common == Other("INTERSECTION", "")

MCScripts ==
    {[c1 |-> <<INSERT("A", 1, "x"), INSERT("B", 2, "y"), Symmetric>>,
      c2 |-> <<INSERT("A", 1, "y"), Other("TRUNCATE", "A")>>],
     [c1 |-> <<INSERT("A", 1, "y"), INSERT("B", 1, "x"), Common>>,
      c2 |-> <<INSERT("B", 1, "z"), Symmetric>>],
     [c1 |-> <<INSERT("A", 0, "x"), INSERT("B", 2, "y"), Symmetric>>,
      c2 |-> <<INSERT("A", 0, "y"), INSERT("C", 1, "x"), Other("UNKNOWN", "")>>]}
=============================================================================
