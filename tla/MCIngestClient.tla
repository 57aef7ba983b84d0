--------------------------- MODULE MCIngestClient ---------------------------
(* Small instances of IngestClient for TLC. *)
EXTENDS IngestClient

CONSTANTS l1, l2

(* Two prices of one side, l1 the better one. *)
BetterFirst == {<<l1, l2>>}
=============================================================================
