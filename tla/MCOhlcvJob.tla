----------------------------- MODULE MCOhlcvJob -----------------------------
(* A small instance of OhlcvJob for TLC: two partitions. *)
EXTENDS OhlcvJob, TLC

CONSTANTS p0, p1

(* The last instant of one window, the first of the next, and a tick without *)
(* a price after both. *)
TwoWindows == {[ts |-> 1, priced |-> TRUE], [ts |-> 2, priced |-> TRUE],
               [ts |-> 4, priced |-> FALSE]}
=============================================================================
