--------------------------- MODULE MCNormalizeJob ---------------------------
(* Small instances of NormalizeJob for TLC. *)
EXTENDS NormalizeJob

(* A diff that quotes both sides, and one that raises the bid and removes   *)
(* the ask, after which there is no row.                                    *)
BothSides == [l \in {<<"bid", 1>>, <<"ask", 3>>} |-> 1]
AskGone   == [l \in {<<"bid", 2>>, <<"ask", 3>>} |-> IF l[1] = "bid" THEN 1 ELSE 0]

TwoDiffs == {BothSides, AskGone}
OneDiff == {BothSides}
=============================================================================
