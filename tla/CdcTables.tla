------------------------------ MODULE CdcTables ------------------------------
(***************************************************************************)
(* What the two Iceberg tables of the CDC job promise of the Debezium       *)
(* topic.  The bronze table holds one row for every event of a prefix of    *)
(* the topic that has one; the normalized table is what the events of a     *)
(* prefix, perhaps another one, make of an empty table.  Each moves from    *)
(* one prefix to a longer one in one step.  There are no crashes,           *)
(* checkpoints or consumers here.                                           *)
(***************************************************************************)
EXTENDS Integers, Sequences

CONSTANTS Symbol,   \* primary keys of symbol_config
          Value,    \* what the other columns of a row may be
          None      \* no row, or a null image

(* A row image: Debezium's "before" or "after". *)
Image == [symbol : Symbol, value : Value]

ASSUME NoneAssumption == None \notin Value /\ None \notin Image

(* "?" is a message without JSON, without op or with an unknown one; "null" *)
(* is a null message.  lsn orders the changes of the source table.          *)
Event == [op : {"r", "c", "u", "d", "?", "null"},
          before : Image \cup {None}, after : Image \cup {None}, lsn : Nat]

Table == [Symbol -> Value \cup {None}]

VARIABLES log,          \* the topic; offset o is at index o + 1
          upto,         \* by path: length of the prefix its table stands for
          bronze,       \* bronze.symbol_config_cdc
          normalized    \* normalized.symbol_config

vars == <<log, upto, bronze, normalized>>

(* Mutant of Emits: snapshot reads are taken for no change. *)
EmitsNoReads(e) == /\ e.op \in {"c", "u", "d"}
                   /\ e.before # None \/ e.after # None

(* CdcEnvelopeProcessor emits a row. *)
Emits(e) == /\ e.op \in {"r", "c", "u", "d"}
            /\ e.before # None \/ e.after # None

BronzeRow(e, o) ==
    [op |-> e.op, symbol |-> (IF e.after # None THEN e.after ELSE e.before).symbol,
     before |-> e.before, after |-> e.after, lsn |-> e.lsn, offset |-> o]

(* The rows of the events from offset "from" to before offset "to". *)
BronzeRows(from, to) ==
    LET rows[o \in from .. to] ==
            IF o = from THEN <<>>
            ELSE IF Emits(log[o]) THEN Append(rows[o - 1], BronzeRow(log[o], o - 1))
            ELSE rows[o - 1]
    IN  rows[to]

(* What debezium-json reads; the rest is a parse error, which is ignored.   *)
Parsed(e) == \/ e.op \in {"r", "c"} /\ e.after # None
             \/ e.op = "u" /\ None \notin {e.before, e.after}
             \/ e.op = "d" /\ e.before # None

(* Mutant of Upsert: deletes are left out. *)
UpsertNoDelete(t, e) ==
    IF Parsed(e) /\ e.op # "d" THEN [t EXCEPT ![e.after.symbol] = e.after.value] ELSE t

(* One event as the upsert sink applies it. *)
Upsert(t, e) ==
    IF ~ Parsed(e) THEN t
    ELSE IF e.op = "d" THEN [t EXCEPT ![e.before.symbol] = None]
    ELSE [t EXCEPT ![e.after.symbol] = e.after.value]

Upserted(t, events) ==
    LET table[i \in 0 .. Len(events)] ==
            IF i = 0 THEN t ELSE Upsert(table[i - 1], events[i])
    IN  table[Len(events)]

Empty == [s \in Symbol |-> None]

Init == /\ log = <<>>
        /\ upto = [bronze |-> 0, normalized |-> 0]
        /\ bronze = <<>> /\ normalized = Empty

Arrive == /\ Len(log') = Len(log) + 1 /\ SubSeq(log', 1, Len(log)) = log
          /\ UNCHANGED <<upto, bronze, normalized>>

BronzeAdvances ==
    /\ \E m \in (upto.bronze + 1) .. Len(log) :
          /\ upto' = [upto EXCEPT !.bronze = m]
          /\ bronze' = bronze \o BronzeRows(upto.bronze, m)
    /\ UNCHANGED <<log, normalized>>

NormalizedAdvances ==
    /\ \E m \in (upto.normalized + 1) .. Len(log) :
          /\ upto' = [upto EXCEPT !.normalized = m]
          /\ normalized' = Upserted(normalized, SubSeq(log, upto.normalized + 1, m))
    /\ UNCHANGED <<log, bronze>>

Next == Arrive \/ BronzeAdvances \/ NormalizedAdvances

Spec == Init /\ [][Next]_vars
=============================================================================
