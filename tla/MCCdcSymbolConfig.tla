------------------------- MODULE MCCdcSymbolConfig -------------------------
(* A small instance of CdcSymbolConfig for TLC. *)
EXTENDS CdcSymbolConfig, TLC

CONSTANTS btc, eth

Holds(b, e) == (btc :> b) @@ (eth :> e)

(* An update; a delete, followed by an insert of another row. *)
TwoHistories == { <<Holds(1, None), Holds(2, None)>>,
                  <<Holds(1, None), Holds(None, None), Holds(None, 1)>> }
=============================================================================
