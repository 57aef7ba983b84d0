------------------------------ MODULE OrderBook ------------------------------
(***************************************************************************)
(* The L2 order book both ends of the pipeline keep: OrderBook in          *)
(* ingest/src/ingest/orderbook.py and the book dict of                     *)
(* flink/jobs/flink_lib/logic.py.  A book is a partial function from price *)
(* levels to quantities, as the two dicts of the code are; bids and asks   *)
(* are told apart by the level, so a Level is a (side, price) pair.        *)
(* Quantities are numbers: the code keeps the strings but decides on       *)
(* float(qty) only.                                                        *)
(***************************************************************************)
EXTENDS Integers

CONSTANTS Level,    \* the (side, price) pairs the exchange quotes
          Qty       \* the quantities a level may hold

(* A stored quantity is never zero: zero is the code's "remove this level". *)
ASSUME QtyAssumption == Qty \subseteq Nat \ {0}

Book == UNION {[S -> Qty] : S \in SUBSET Level}
Diff == UNION {[S -> Qty \cup {0}] : S \in SUBSET Level}

(* What the exchange would report for a level: nothing quoted is zero. *)
QtyAt(book, l) == IF l \in DOMAIN book THEN book[l] ELSE 0

EmptyBook == [l \in {} |-> 0]

(* Mutant of ApplyDiff: a level with quantity zero is stored like any other. *)
ApplyDiffKeepsZero(book, diff) ==
    [l \in DOMAIN book \cup DOMAIN diff |->
        IF l \in DOMAIN diff THEN diff[l] ELSE book[l]]

(***************************************************************************)
(* OrderBook._apply and apply_depth_diff: a level with quantity zero is    *)
(* popped (popping an absent level is no error), any other is upserted.    *)
(***************************************************************************)
ApplyDiff(book, diff) ==
    LET removed == {l \in DOMAIN diff : diff[l] = 0}
    IN  [l \in (DOMAIN book \cup DOMAIN diff) \ removed |->
            IF l \in DOMAIN diff THEN diff[l] ELSE book[l]]

(***************************************************************************)
(* The two sequence tests of OrderBook.initialize and OrderBook.apply, on  *)
(* an event that covers the update ids e.first .. e.last (Binance's U and  *)
(* u) against the id the book has reached.  Stale is tested first.         *)
(***************************************************************************)
(* Mutant of Stale: no event is ever too old. *)
StaleNever(e, lastId) == FALSE

Stale(e, lastId) == e.last <= lastId

(* Mutant of Gap: off by one, a single missing id goes unnoticed. *)
GapOffByOne(e, lastId) == ~ Stale(e, lastId) /\ e.first > lastId + 2

Gap(e, lastId) == ~ Stale(e, lastId) /\ e.first > lastId + 1

InSequence(e, lastId) == ~ Stale(e, lastId) /\ ~ Gap(e, lastId)
=============================================================================
