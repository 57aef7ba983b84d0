----------------------------- MODULE TickerTable -----------------------------
(***************************************************************************)
(* What the silver table iceberg_cat.normalized.book_ticker promises of    *)
(* the raw topic: at any moment it holds the rows of a prefix of the log,  *)
(* each computed from the book that the diffs before it built, with the    *)
(* records left out that repeat or precede an id already taken, and those  *)
(* found late: which may be any that are old by the time the table moves,  *)
(* and must be those that were old when they arrived.  It moves from one   *)
(* prefix to a longer one in one step.                                     *)
(* There are no crashes, checkpoints or sinks here.                        *)
(***************************************************************************)
EXTENDS Ticker, Sequences

CONSTANTS NoRecord,
          LateAfter   \* Config.LATE_THRESHOLD_SECONDS

VARIABLES log,      \* the raw topic of one symbol
          clock,    \* wall clock
          upto,     \* length of the prefix the table stands for
          seen,     \* largest update id taken from that prefix, late ones too
          book,     \* the book after that prefix
          table     \* the rows

vars == <<log, clock, upto, seen, book, table>>

Row(i, r, b) == [off |-> i, id |-> r.id, bid |-> BestBid(b), ask |-> BestAsk(b)]

(* At time t, the event time of r is more than the threshold ago. *)
Old(r, t) == t - r.ts > LateAfter

(* Taking r, record i of the log, given what those before it have led to. *)
Take(st, i, r, isLate) ==
    LET b == ApplyDepthDiff(st.book, r.diff)
    IN  IF r.id <= st.seen THEN st
        ELSE IF isLate THEN [st EXCEPT !.seen = r.id]
        ELSE [seen |-> r.id, book |-> b,
              rows |-> st.rows \cup (IF TwoSided(b) THEN {Row(i, r, b)} ELSE {})]

(* Taking the records after upto, up to m; those in late were found late.   *)
TakeAll(m, late) ==
    LET st[i \in upto .. m] ==
            IF i = upto THEN [seen |-> seen, book |-> book, rows |-> {}]
            ELSE Take(st[i - 1], i, log[i], i \in late)
    IN  st[m]

Init == log = <<>> /\ clock = 0 /\ upto = 0 /\ seen = 0 /\ book = EmptyBook /\ table = {}

Arrive == /\ Len(log') = Len(log) + 1 /\ SubSeq(log', 1, Len(log)) = log
          /\ UNCHANGED <<clock, upto, seen, book, table>>

Tick == clock' >= clock /\ UNCHANGED <<log, upto, seen, book, table>>

(* The records the table may leave out when it moves up to m.               *)
LateSets(m) ==
    {late \in SUBSET {i \in (upto + 1) .. m : Old(log[i], clock)} :
        \A i \in (upto + 1) .. m : Old(log[i], log[i].at) => i \in late}

Advance ==
    /\ \E m \in (upto + 1) .. Len(log) :
          /\ \A i \in (upto + 1) .. m : log[i].id # NoRecord
          /\ upto' = m
          /\ \E late \in LateSets(m) :
                LET st == TakeAll(m, late)
                IN  seen' = st.seen /\ book' = st.book /\ table' = table \cup st.rows
    /\ UNCHANGED <<log, clock>>

Next == Arrive \/ Tick \/ Advance

Spec == Init /\ [][Next]_vars
=============================================================================
