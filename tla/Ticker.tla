-------------------------------- MODULE Ticker --------------------------------
(***************************************************************************)
(* The order-book helpers of flink/jobs/flink_lib/logic.py that the        *)
(* normalize job calls on every record: the book has a bid and an ask side *)
(* with numeric prices, and a ticker row is emitted from its best levels.  *)
(***************************************************************************)
EXTENDS Integers, FiniteSetsExt

CONSTANTS BidPrice, AskPrice,   \* prices quoted on each side
          Qty                   \* quantities a level may hold

ASSUME PriceAssumption ==
    /\ BidPrice \subseteq Nat /\ IsFiniteSet(BidPrice)
    /\ AskPrice \subseteq Nat /\ IsFiniteSet(AskPrice)
    /\ Qty \subseteq Nat \ {0}

Level == ({"bid"} \X BidPrice) \cup ({"ask"} \X AskPrice)

INSTANCE OrderBook

Prices(book, side) == {l[2] : l \in {k \in DOMAIN book : k[1] = side}}

(* best_bid() and best_ask() return None on an empty side. *)
TwoSided(book) == Prices(book, "bid") # {} /\ Prices(book, "ask") # {}

(* max(bids, key=float) and min(asks, key=float). *)
BestBid(book) == Max(Prices(book, "bid"))

BestAsk(book) == Min(Prices(book, "ask"))

(***************************************************************************)
(* One step of apply_depth_diff.  The job applies a diff to whatever book  *)
(* it has: unlike the ingest client it starts from an empty book, takes no *)
(* snapshot and looks at no first_update_id.                               *)
(***************************************************************************)
ApplyDepthDiff(book, diff) == ApplyDiff(book, diff)
=============================================================================
