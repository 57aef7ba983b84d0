----------------------------- MODULE MCReadModel -----------------------------
(* A small instance of ReadModel for TLC: a poll of every cycle and one of  *)
(* every second cycle.                                                      *)
EXTENDS ReadModel, TLC

CONSTANTS btc, eth, r1, r2

(* The second version has lost a symbol. *)
LosesOne == <<{btc, eth}, {btc}>>

EverySecond == ("liquidity" :> 0) @@ ("ohlcv" :> 2)
=============================================================================
