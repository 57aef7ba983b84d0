------------------------------ MODULE MCReplay ------------------------------
(* Small instances of Replay for TLC: two partitions, or one that two       *)
(* symbols share.                                                           *)
EXTENDS Replay, TLC

CONSTANTS btc, eth

TwoHomes == (btc :> 0) @@ (eth :> 1)
OneHome == [s \in Symbol |-> 0]

TwoEach == [p \in Partition |-> 2]
=============================================================================
