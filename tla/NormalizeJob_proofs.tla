------------------------- MODULE NormalizeJob_proofs -------------------------
(***************************************************************************)
(* What holds of the normalize job for all prices, diffs and bounds: its    *)
(* types, one row per update id in the silver table, the Kafka sink never   *)
(* behind it, and that every step is one of TickerTable or none.            *)
(***************************************************************************)
EXTENDS NormalizeJob, Lemmas

(* Rows of a checkpoint the table does not have. *)
Uncommitted(c) == {r \in c.written : r.n > icebergN}

UnderWay == inflight # NoCheckpoint

(* The rows of the table, however often they are in it. *)
Rows == BagToSet(iceberg)

(* A record is appended no later than now. *)
ArrivedInv == \A i \in 1 .. Len(log) : log[i].at <= clock

(* Checkpoint numbers and positions only grow, and outside a running job    *)
(* there is nothing but what is stored. *)
NumbersInv ==
    /\ icebergN <= ckpt.n /\ ckpt.n < epoch /\ ckpt.offset <= Len(log)
    /\ UnderWay => /\ status = "running"
                   /\ ckpt.n < inflight.n /\ inflight.n < epoch
                   /\ inflight.offset <= Len(log)
                   /\ inflight.offset <= offset /\ inflight.lastSeen <= lastSeen
                   /\ ckpt.offset < inflight.offset /\ ckpt.lastSeen <= inflight.lastSeen
    /\ status = "running" => ckpt.offset <= offset /\ ckpt.lastSeen <= lastSeen
    /\ status # "running" => written = {} /\ kafkaBuf = <<>>

(* The files of the job and those in its checkpoints are the same ones. *)
FilesInv ==
    /\ \A r \in written : icebergN < r.n /\ r.n <= epoch
    /\ \A r \in ckpt.written : r.n <= ckpt.n
    /\ \A r \in inflight.written : r.n <= inflight.n
    /\ status = "running" => {r \in written : r.n <= ckpt.n} = Uncommitted(ckpt)
    /\ UnderWay => {r \in written : r.n <= inflight.n} = Uncommitted(inflight)

(* No two rows of one id, and none of an id beyond seen. *)
Sound(rows, seen) == /\ \A r, s \in rows : r.id = s.id => r = s
                     /\ \A r \in rows : r.id <= seen

(* That holds of the table with what may still be committed, from wherever  *)
(* the job goes on.                                                         *)
RowsInv ==
    /\ Sound(Rows \cup Uncommitted(ckpt), ckpt.lastSeen)
    /\ UnderWay => Sound(Rows \cup Uncommitted(inflight), inflight.lastSeen)
    /\ status = "running" => Sound(Rows \cup written, lastSeen)

(* Each row is in the table once, and with no checkpoint it does not have:  *)
(* what is committed next is not in it.                                     *)
OnceInv == \A r \in Rows : iceberg[r] = 1 /\ r.n <= icebergN

InKafka(r) == \E i \in 1 .. Len(kafka) : kafka[i].id = r.id

(* What a checkpoint holds was flushed before it. *)
FlushedInv ==
    /\ \A r \in Rows \cup ckpt.written \cup inflight.written : InKafka(r)
    /\ \A r \in written : InKafka(r) \/ \E i \in 1 .. Len(kafkaBuf) : kafkaBuf[i].id = r.id

IInv == TypeOK /\ ArrivedInv /\ NumbersInv /\ FilesInv /\ RowsInv /\ OnceInv /\ FlushedInv

-----------------------------------------------------------------------------
(* Books and prices.                                                        *)

LEMMA BookTypes ==
  /\ EmptyBook \in Book
  /\ \A b \in Book, d \in Diff : ApplyDepthDiff(b, d) \in Book
<1>1. EmptyBook \in Book
  <2>1. EmptyBook \in [{} -> Qty] BY DEF EmptyBook
  <2> QED BY <2>1 DEF Book
<1>2. ASSUME NEW b \in Book, NEW d \in Diff PROVE ApplyDiff(b, d) \in Book
  <2>1. PICK S \in SUBSET Level : b \in [S -> Qty] BY DEF Book
  <2>2. PICK T \in SUBSET Level : d \in [T -> Qty \cup {0}] BY DEF Diff
  <2> DEFINE kept == (DOMAIN b \cup DOMAIN d) \ {l \in DOMAIN d : d[l] = 0}
  <2>3. \A l \in kept : (IF l \in DOMAIN d THEN d[l] ELSE b[l]) \in Qty BY <2>1, <2>2
  <2>4. ApplyDiff(b, d) \in [kept -> Qty] BY <2>3 DEF ApplyDiff
  <2>5. kept \in SUBSET Level BY <2>1, <2>2
  <2> QED BY <2>4, <2>5 DEF Book
<1> QED BY <1>1, <1>2 DEF ApplyDepthDiff

(* The best prices of a two-sided book are prices of its sides.             *)
LEMMA BestPrices ==
  ASSUME NEW b \in Book, TwoSided(b)
  PROVE  BestBid(b) \in BidPrice /\ BestAsk(b) \in AskPrice
<1>1. PICK S \in SUBSET Level : b \in [S -> Qty] BY DEF Book
<1>2. Prices(b, "bid") \subseteq BidPrice /\ Prices(b, "ask") \subseteq AskPrice
  <2>1. DOMAIN b \subseteq Level BY <1>1
  <2>2. \A l \in Level : (l[1] = "bid" => l[2] \in BidPrice) /\ (l[1] = "ask" => l[2] \in AskPrice)
    BY DEF Level
  <2> QED BY <2>1, <2>2 DEF Prices
<1>3. PICK m \in Nat : \A x \in BidPrice : x <= m
  BY PriceAssumption, FiniteBounded
<1>4. Max(Prices(b, "bid")) \in Prices(b, "bid")
  <2>1. /\ Prices(b, "bid") \subseteq Nat /\ Prices(b, "bid") # {}
        /\ \A x \in Prices(b, "bid") : x <= m
    BY <1>2, <1>3, PriceAssumption DEF TwoSided
  <2> QED BY <2>1, MaxOfNats
<1>5. Min(Prices(b, "ask")) \in Prices(b, "ask")
  <2>1. Prices(b, "ask") \subseteq Nat /\ Prices(b, "ask") # {}
    BY <1>2, PriceAssumption DEF TwoSided
  <2> QED BY <2>1, MinOfNats
<1> QED BY <1>2, <1>4, <1>5 DEF BestBid, BestAsk

-----------------------------------------------------------------------------
(* Types.                                                                   *)

LEMMA RecordTypes ==
  /\ NoRecord = 0 /\ BadRecord \in Record
  /\ \A r \in Record, t \in Nat : LET c == [r EXCEPT !.at = t]
                                 IN  c \in Record /\ c.at = t
<1>1. EmptyDiff \in [{} -> Qty \cup {0}] BY DEF EmptyDiff
<1>2. EmptyDiff \in Diff BY <1>1 DEF Diff
<1>3. BadRecord \in Record BY <1>2 DEF BadRecord, Record, NoRecord
<1> QED BY <1>3 DEF Record, NoRecord

LEMMA LogRecords ==
  ASSUME log \in Seq(Record)
  PROVE  /\ Len(log) \in Nat
         /\ \A i \in 1 .. Len(log) : log[i] \in Record /\ log[i].ts \in Nat /\ log[i].at \in Nat
<1>1. \A i \in 1 .. Len(log) : log[i] \in Record OBVIOUS
<1>2. \A r \in Record : r.ts \in Nat /\ r.at \in Nat BY DEF Record
<1>3. Len(log) \in Nat OBVIOUS
<1> QED BY <1>1, <1>2, <1>3

LEMMA NextIdType ==
  ASSUME log \in Seq(Record)
  PROVE  1 + Max({0} \cup {log[i].id : i \in 1 .. Len(log)}) \in Nat
<1> DEFINE f == [i \in 1 .. Len(log) |-> log[i].id]
           S == {0} \cup {log[i].id : i \in 1 .. Len(log)}
<1>1. Len(log) \in Nat /\ \A i \in 1 .. Len(log) : f[i] \in Nat /\ f[i] = log[i].id
  <2>1. \A i \in 1 .. Len(log) : log[i] \in Record OBVIOUS
  <2>2. \A r \in Record : r.id \in Nat BY DEF Record
  <2> QED BY <2>1, <2>2
<1>2. PICK m \in Nat : \A i \in 1 .. Len(log) : f[i] <= m
  <2> HIDE DEF f
  <2> QED BY <1>1, BoundedFunction
<1>3. S \subseteq Nat /\ S # {} /\ \A x \in S : x <= m BY <1>1, <1>2
<1>4. Max(S) \in Nat
  <2> HIDE DEF S
  <2>1. Max(S) \in S BY <1>3, MaxOfNats
  <2> QED BY <1>3, <2>1
<1>5. \A k \in Nat : 1 + k \in Nat OBVIOUS
<1> QED BY <1>4, <1>5, Zenon

LEMMA RowType ==
  ASSUME TypeOK, AtRecord,
         NEW b \in Book, TwoSided(b)
  PROVE  RowOf(Current, b) \in Row
<1>1. Current \in Record BY DEF TypeOK, AtRecord, Current
<1> QED BY <1>1, BestPrices DEF RowOf, Row, Record, TypeOK

(* Data files appended to the table: their rows are in it, those it has not *)
(* had as often as the files have them, which is once.                      *)
LEMMA FilesAdded ==
  ASSUME IsABag(iceberg), NEW S
  PROVE  /\ IsABag(WithFiles(S)) /\ BagToSet(WithFiles(S)) = Rows \cup S
         /\ \A r \in Rows : r \notin S => WithFiles(S)[r] = iceberg[r]
         /\ \A r \in S : r \notin Rows => WithFiles(S)[r] = 1
<1> USE DEF IsABag, BagToSet, SetToBag, WithFiles, (+), Rows
<1>1. iceberg \in [DOMAIN iceberg -> {n \in Nat : n > 0}] OBVIOUS
<1>2. DOMAIN WithFiles(S) = Rows \cup S OBVIOUS
<1>3. \A r \in Rows : r \notin S => WithFiles(S)[r] = iceberg[r] BY <1>1
<1>4. \A r \in S : r \notin Rows => WithFiles(S)[r] = 1 BY <1>1
<1>5. \A r \in S \cap Rows : WithFiles(S)[r] = iceberg[r] + 1 BY <1>1
<1>6. \A r \in Rows \cup S : WithFiles(S)[r] \in {n \in Nat : n > 0}
  BY <1>1, <1>3, <1>4, <1>5
<1>7. WithFiles(S) \in [Rows \cup S -> {n \in Nat : n > 0}] BY <1>2, <1>6
<1> QED BY <1>2, <1>3, <1>4, <1>7

LEMMA TypeStep == TypeOK /\ NumbersInv /\ [Next]_vars => TypeOK'
<1> SUFFICES ASSUME TypeOK, NumbersInv, [Next]_vars PROVE TypeOK'
  OBVIOUS
<1> USE DEF TypeOK, externalVars, stateVars, sinkVars, ckptVars, tableVars, jobVars
<1>1. CASE Ingest
  <2>1. PICK d \in Diffs :
          log' = Append(log, [id |-> 1 + Max({0} \cup {log[i].id : i \in 1 .. Len(log)}),
                              ts |-> clock, at |-> clock, diff |-> d])
    BY <1>1 DEF Ingest
  <2>2. log' \in Seq(Record) /\ Len(log') = Len(log) + 1
    BY <2>1, NextIdType, BoundsAssumption DEF Record
  <2> QED BY <1>1, <2>2 DEF Ingest
<1>2. CASE ReplayCopy
  <2>1. PICK i \in 1 .. Len(log) : log' = Append(log, [log[i] EXCEPT !.at = clock])
    BY <1>2 DEF ReplayCopy
  <2>2. log[i] \in Record /\ [log[i] EXCEPT !.at = clock] \in Record
    BY LogRecords, RecordTypes
  <2>3. log' \in Seq(Record) /\ Len(log') = Len(log) + 1 BY <2>1, <2>2
  <2> QED BY <1>2, <2>3 DEF ReplayCopy
<1>3. CASE BadArrives
  <2>1. log' \in Seq(Record) /\ Len(log') = Len(log) + 1 BY <1>3, RecordTypes DEF BadArrives
  <2> QED BY <1>3, <2>1 DEF BadArrives
<1>4. CASE Tick BY <1>4 DEF Tick
<1>5. CASE DropDuplicate BY <1>5 DEF DropDuplicate, AtRecord
<1>6. CASE DropLate
  <2>1. Current \in Record BY <1>6 DEF DropLate, AtRecord, Current
  <2> QED BY <1>6, <2>1 DEF DropLate, AtRecord, Record
<1>7. CASE Apply
  <2>1. Current \in Record /\ offset' = offset + 1 /\ offset' \in 0 .. Len(log)
    BY <1>7 DEF Apply, AtRecord, Current
  <2>2. book' \in Book BY <1>7, <2>1, BookTypes DEF Apply, Record
  <2>3. TwoSided(book') => RowOf(Current, book') \in Row
    BY <1>7, <2>2, RowType DEF Apply
  <2>4. written' \subseteq Row /\ kafkaBuf' \in Seq(Row)
    <3>1. CASE ~ TwoSided(book') BY <1>7, <3>1 DEF Apply
    <3>2. CASE TwoSided(book')
      <4> DEFINE row == RowOf(Current, book')
      <4>1. written' = written \cup {row} /\ kafkaBuf' = Append(kafkaBuf, row)
        BY <1>7, <3>2 DEF Apply
      <4>2. row \in Row BY <2>3, <3>2
      <4> HIDE DEF row
      <4> QED BY <4>1, <4>2
    <3> QED BY <3>1, <3>2
  <2> QED BY <1>7, <2>1, <2>2, <2>4 DEF Apply, Record
<1>8. ASSUME Lose, crashes' \in Nat PROVE TypeOK'
  <2>1. NoCheckpoint \in Checkpoint BY BookTypes DEF NoCheckpoint, Checkpoint
  <2> QED BY <1>8, <2>1, BookTypes DEF Lose
<1>9. CASE KafkaAck BY <1>9 DEF KafkaAck
<1>10. CASE Barrier
  <2>1. inflight' \in Checkpoint BY <1>10 DEF Barrier, Checkpoint
  <2> QED BY <1>10, <2>1 DEF Barrier
<1>11. CASE Complete BY <1>11, BookTypes DEF Complete, NoCheckpoint, Checkpoint
<1>12. CASE Commit
  <2>1. IsABag(iceberg') /\ BagToSet(iceberg') \subseteq Row
    BY <1>12, FilesAdded DEF Commit, Rows
  <2> QED BY <1>12, <2>1 DEF Commit, PositionOf, Position, Checkpoint
<1>13. CASE Crash \/ BadRecordFails BY <1>8, <1>13 DEF Crash, BadRecordFails
<1>14. CASE Restore
  <2>1. ckpt.offset \in 0 .. Len(log) BY DEF NumbersInv, Checkpoint
  <2>2. ckpt.written \subseteq Row BY DEF Checkpoint
  <2>3. IsABag(iceberg') /\ BagToSet(iceberg') \subseteq Row
    BY <1>14, <2>2, FilesAdded DEF Restore, Rows
  <2> QED BY <1>14, <2>1, <2>3 DEF Restore, PositionOf, Position, Checkpoint
<1>15. CASE FailureExpires BY <1>15 DEF FailureExpires
<1>16. CASE UNCHANGED vars BY <1>16 DEF vars
<1> QED BY <1>1, <1>2, <1>3, <1>4, <1>5, <1>6, <1>7, <1>9, <1>10, <1>11, <1>12,
           <1>13, <1>14, <1>15, <1>16 DEF Next, External, Process, Checkpointing

-----------------------------------------------------------------------------
(* The inductive invariant.                                                 *)

LEMMA InitInv == Init => IInv
<1> SUFFICES ASSUME Init PROVE IInv OBVIOUS
<1>1. EmptyBook \in Book BY BookTypes
<1>2. NoCheckpoint \in Checkpoint BY <1>1 DEF NoCheckpoint, Checkpoint
<1>3. IsABag(iceberg) /\ Rows = {}
  BY DEF Init, EmptyBag, SetToBag, IsABag, BagToSet, Rows
<1>4. TypeOK BY <1>1, <1>2, <1>3 DEF Init, TypeOK, Position, Rows
<1>5. ArrivedInv /\ OnceInv BY <1>3 DEF Init, ArrivedInv, OnceInv
<1>6. NumbersInv BY DEF Init, NumbersInv, UnderWay, NoCheckpoint
<1>7. FilesInv BY DEF Init, FilesInv, UnderWay, NoCheckpoint, Uncommitted
<1>8. RowsInv BY <1>3 DEF Init, RowsInv, UnderWay, NoCheckpoint, Uncommitted, Sound
<1>9. FlushedInv BY <1>3 DEF Init, FlushedInv, NoCheckpoint
<1> QED BY <1>4, <1>5, <1>6, <1>7, <1>8, <1>9 DEF IInv

(* The steps that leave the job alone, but may let the log grow, by a       *)
(* record that arrives now, or the clock advance.                           *)
Aside == /\ UNCHANGED <<stateVars, sinkVars, ckptVars, tableVars, status, kafka>>
         /\ \/ log' = log /\ clock <= clock'
            \/ UNCHANGED clock /\ \E r \in Record : r.at <= clock /\ log' = Append(log, r)

LEMMA LogGrows ==
  ASSUME log \in Seq(Record), log' \in Seq(Record), clock \in Nat, clock' \in Nat, Aside
  PROVE  /\ Len(log) \in Nat /\ Len(log') \in Nat /\ Len(log) <= Len(log')
         /\ \A i \in 1 .. Len(log) : log'[i] = log[i]
         /\ clock <= clock'
         /\ log' # log => /\ Len(log') = Len(log) + 1 /\ SubSeq(log', 1, Len(log)) = log
                          /\ log'[Len(log) + 1].at <= clock /\ UNCHANGED clock
<1> USE DEF Aside
<1>1. CASE log' = log /\ clock <= clock' BY <1>1
<1>2. CASE UNCHANGED clock /\ \E r \in Record : r.at <= clock /\ log' = Append(log, r)
  <2>1. /\ Len(log) \in Nat /\ Len(log') = Len(log) + 1
        /\ \A i \in 1 .. Len(log) : log'[i] = log[i]
    BY <1>2
  <2>2. SubSeq(log', 1, Len(log)) = log BY <2>1
  <2>3. log'[Len(log) + 1].at <= clock BY <1>2
  <2>4. clock <= clock' /\ UNCHANGED clock BY <1>2
  <2>5. Len(log') \in Nat /\ Len(log) <= Len(log') BY <2>1
  <2> QED BY <2>1, <2>2, <2>3, <2>4, <2>5, Zenon
<1> QED BY <1>1, <1>2

(* The ways a step may change what the invariant speaks of.                 *)
LEMMA Steps ==
  ASSUME TypeOK, [Next]_vars, TypeOK'
  PROVE  \/ Aside
         \/ DropDuplicate \/ DropLate \/ Apply
         \/ KafkaAck \/ Barrier \/ Complete \/ Commit \/ Restore
         \/ status = "running" /\ Lose
<1> USE DEF TypeOK, Aside, externalVars, stateVars, sinkVars, ckptVars, tableVars, jobVars
<1>1. CASE Ingest
  <2>1. PICK d \in Diffs :
          log' = Append(log, [id |-> 1 + Max({0} \cup {log[i].id : i \in 1 .. Len(log)}),
                              ts |-> clock, at |-> clock, diff |-> d])
    BY <1>1 DEF Ingest
  <2> DEFINE k == 1 + Max({0} \cup {log[i].id : i \in 1 .. Len(log)})
             r == [id |-> k, ts |-> clock, at |-> clock, diff |-> d]
  <2>2. k \in Nat BY NextIdType
  <2>3. r \in Record /\ r.at <= clock
    <3> HIDE DEF k
    <3> QED BY <2>2, BoundsAssumption DEF Record
  <2> QED BY <1>1, <2>1, <2>3 DEF Ingest
<1>2. CASE ReplayCopy
  <2>1. PICK i \in 1 .. Len(log) : log' = Append(log, [log[i] EXCEPT !.at = clock])
    BY <1>2 DEF ReplayCopy
  <2> DEFINE r == [log[i] EXCEPT !.at = clock]
  <2>2. r \in Record /\ r.at = clock /\ clock \in Nat BY LogRecords, RecordTypes
  <2>3. r.at <= clock BY <2>2
  <2> QED BY <1>2, <2>1, <2>2, <2>3 DEF ReplayCopy
<1>3. CASE BadArrives BY <1>3, RecordTypes DEF BadArrives, BadRecord
<1>4. CASE Tick BY <1>4 DEF Tick
<1>5. CASE FailureExpires BY <1>5 DEF FailureExpires
<1>6. CASE UNCHANGED vars BY <1>6 DEF vars
<1>7. CASE BadRecordFails \/ Crash BY <1>7 DEF BadRecordFails, Crash
<1> QED BY <1>1, <1>2, <1>3, <1>4, <1>5, <1>6, <1>7 DEF Next, External, Process, Checkpointing

LEMMA NumbersStep ==
  ASSUME TypeOK, TypeOK', NumbersInv, [Next]_vars
  PROVE  NumbersInv'
<1>0. /\ Len(log) \in Nat /\ Len(log') \in Nat
      /\ offset \in Nat /\ lastSeen \in Nat /\ epoch \in Nat /\ icebergN \in Nat
      /\ lastSeen' \in Nat
      /\ ckpt.n \in Nat /\ ckpt.offset \in Nat /\ ckpt.lastSeen \in Nat
      /\ inflight.n \in Nat /\ inflight.offset \in Nat /\ inflight.lastSeen \in Nat
  <2>1. Len(log) \in Nat BY DEF TypeOK
  <2>2. Len(log') \in Nat BY DEF TypeOK
  <2> QED BY <2>1, <2>2 DEF TypeOK, Checkpoint
<1> USE DEF NumbersInv, UnderWay, externalVars, stateVars, sinkVars, ckptVars, tableVars, jobVars
<1>1. CASE Aside
  <2>1. Len(log) <= Len(log') BY <1>1, LogGrows DEF TypeOK
  <2> QED BY <1>0, <1>1, <2>1 DEF Aside
<1>2. CASE DropDuplicate BY <1>0, <1>2 DEF DropDuplicate, AtRecord
<1>3. CASE DropLate \/ Apply
  <2>1. lastSeen <= lastSeen' /\ offset' = offset + 1
    BY <1>0, <1>3 DEF DropLate, Apply, Duplicate
  <2>2. UNCHANGED <<externalVars, ckptVars, icebergN, status>> /\ status = "running"
    BY <1>3 DEF DropLate, Apply, AtRecord
  <2> QED BY <1>0, <2>1, <2>2
<1>4. CASE KafkaAck BY <1>0, <1>4 DEF KafkaAck
<1>5. CASE Barrier BY <1>0, <1>5 DEF Barrier, TypeOK
<1>6. CASE Complete BY <1>0, <1>6 DEF Complete, NoCheckpoint
<1>7. CASE Commit BY <1>0, <1>7 DEF Commit
<1>8. CASE Restore BY <1>0, <1>8 DEF Restore
<1>9. CASE status = "running" /\ Lose BY <1>0, <1>9 DEF Lose, NoCheckpoint
<1> QED BY <1>1, <1>2, <1>3, <1>4, <1>5, <1>6, <1>7, <1>8, <1>9, Steps


(* The row an Apply writes is of the checkpoint that comes next. *)
LEMMA ApplyRow ==
  ASSUME Apply
  PROVE  \/ written' = written /\ kafkaBuf' = kafkaBuf
         \/ \E r : /\ r.n = epoch /\ r.id = lastSeen' /\ r.off = offset'
                   /\ written' = written \cup {r} /\ kafkaBuf' = Append(kafkaBuf, r)
<1>1. CASE ~ TwoSided(book') BY <1>1 DEF Apply, sinkVars
<1>2. CASE TwoSided(book')
  <2> DEFINE r == RowOf(Current, book')
  <2>1. r.n = epoch /\ r.id = lastSeen' /\ r.off = offset' BY DEF RowOf, Apply
  <2>2. written' = written \cup {r} /\ kafkaBuf' = Append(kafkaBuf, r)
    BY <1>2 DEF Apply
  <2> QED BY <2>1, <2>2
<1> QED BY <1>1, <1>2

LEMMA NaturalNumbers ==
  ASSUME TypeOK
  PROVE  /\ epoch \in Nat /\ icebergN \in Nat /\ ckpt.n \in Nat /\ inflight.n \in Nat
         /\ lastSeen \in Nat /\ ckpt.lastSeen \in Nat /\ inflight.lastSeen \in Nat
         /\ offset \in Nat /\ ckpt.offset \in Nat /\ inflight.offset \in Nat
         /\ \A r \in Row : r.n \in Nat /\ r.id \in Nat
         /\ \A r \in written \cup Rows \cup ckpt.written \cup inflight.written :
               r.n \in Nat /\ r.id \in Nat
<1>1. \A r \in Row : r.n \in Nat /\ r.id \in Nat BY DEF Row
<1>2. /\ written \subseteq Row /\ Rows \subseteq Row
      /\ ckpt.written \subseteq Row /\ inflight.written \subseteq Row
  BY DEF TypeOK, Checkpoint, Rows
<1> QED BY <1>1, <1>2 DEF TypeOK, Checkpoint

LEMMA FilesStep ==
  ASSUME TypeOK, TypeOK', NumbersInv, FilesInv, [Next]_vars
  PROVE  FilesInv'
<1> USE NaturalNumbers DEF FilesInv, UnderWay, Uncommitted, stateVars, sinkVars, ckptVars,
        tableVars, jobVars
<1>1. CASE Aside \/ DropDuplicate \/ DropLate \/ KafkaAck
  BY <1>1 DEF Aside, DropDuplicate, DropLate, KafkaAck
<1>2. CASE Apply
  <2>1. UNCHANGED <<ckptVars, tableVars, status>> BY <1>2 DEF Apply
  <2>2. CASE written' = written BY <2>1, <2>2
  <2>3. CASE \E r : r.n = epoch /\ written' = written \cup {r}
    <3>1. PICK r : r.n = epoch /\ written' = written \cup {r} BY <2>3
    <3>2. ckpt.n < epoch /\ icebergN < epoch BY DEF NumbersInv
    <3>3. {q \in written' : q.n <= ckpt.n} = {q \in written : q.n <= ckpt.n}
      BY <3>1, <3>2
    <3>4. UnderWay => {q \in written' : q.n <= inflight.n} = {q \in written : q.n <= inflight.n}
      BY <3>1 DEF NumbersInv
    <3> QED BY <2>1, <3>1, <3>2, <3>3, <3>4
  <2> QED BY <1>2, <2>2, <2>3, ApplyRow
<1>3. CASE Barrier
  <2>1. inflight'.written = written /\ inflight'.n = epoch /\ epoch' = epoch + 1
    BY <1>3 DEF Barrier
  <2>2. UNCHANGED <<written, ckpt, icebergN, status>> BY <1>3 DEF Barrier
  <2>3. {r \in written : r.n <= epoch} = {r \in written : r.n > icebergN} OBVIOUS
  <2> QED BY <2>1, <2>2, <2>3
<1>4. CASE Complete
  <2>1. ckpt' = inflight /\ UNCHANGED <<written, icebergN, status, epoch>> /\ UnderWay
    BY <1>4 DEF Complete
  <2>2. inflight' = NoCheckpoint /\ NoCheckpoint.written = {}
    BY <1>4 DEF Complete, NoCheckpoint
  <2> QED BY <2>1, <2>2
<1>5. CASE Commit
  <2>1. /\ written' = {r \in written : r.n > ckpt.n} /\ icebergN' = ckpt.n
        /\ status = "running" /\ icebergN <= ckpt.n
    BY <1>5 DEF Commit, NumbersInv
  <2>2. UNCHANGED <<ckpt, inflight, epoch, status>> BY <1>5 DEF Commit
  <2>3. \A r \in written' : icebergN' < r.n /\ r.n <= epoch' BY <2>1, <2>2
  <2>4. {r \in written' : r.n <= ckpt.n} = {} /\ {r \in ckpt.written : r.n > ckpt.n} = {}
    BY <2>1
  <2>5. ASSUME UnderWay
        PROVE  {r \in written' : r.n <= inflight.n} = {r \in inflight.written : r.n > ckpt.n}
    <3>1. {r \in written : r.n <= inflight.n} = {r \in inflight.written : r.n > icebergN}
      BY <2>5
    <3> QED BY <2>1, <3>1
  <2> QED BY <2>1, <2>2, <2>3, <2>4, <2>5
<1>6. CASE Restore
  <2>1. /\ icebergN' = ckpt.n /\ written = {} /\ written' = {} /\ ~ UnderWay
        /\ UNCHANGED <<ckpt, inflight, epoch>>
    BY <1>6 DEF Restore, NumbersInv
  <2>2. {r \in ckpt.written : r.n > ckpt.n} = {} OBVIOUS
  <2> QED BY <2>1, <2>2
<1>7. CASE status = "running" /\ Lose
  <2>1. /\ written' = {} /\ inflight' = NoCheckpoint /\ status' # "running"
        /\ UNCHANGED <<ckpt, icebergN, epoch>>
    BY <1>7 DEF Lose
  <2>2. NoCheckpoint.written = {} BY DEF NoCheckpoint
  <2> QED BY <2>1, <2>2
<1> QED BY <1>1, <1>2, <1>3, <1>4, <1>5, <1>6, <1>7, Steps


(* A commit and a restore put the same rows into the table: those of the    *)
(* completed checkpoint it does not have.                                   *)
LEMMA CommitAdds ==
  ASSUME TypeOK, FilesInv, Commit
  PROVE  /\ iceberg' = WithFiles(Uncommitted(ckpt)) /\ icebergN' = ckpt.n
         /\ Rows' = Rows \cup Uncommitted(ckpt)
<1>1. {r \in written : r.n <= ckpt.n} = Uncommitted(ckpt) BY DEF Commit, FilesInv
<1>2. iceberg' = WithFiles(Uncommitted(ckpt)) /\ icebergN' = ckpt.n BY <1>1 DEF Commit
<1> QED BY <1>2, FilesAdded DEF TypeOK, Rows

LEMMA RestoreAdds ==
  ASSUME TypeOK, Restore
  PROVE  /\ iceberg' = WithFiles(Uncommitted(ckpt)) /\ icebergN' = ckpt.n
         /\ Rows' = Rows \cup Uncommitted(ckpt)
<1>1. iceberg' = WithFiles(Uncommitted(ckpt)) /\ icebergN' = ckpt.n
  BY DEF Restore, Uncommitted
<1> QED BY <1>1, FilesAdded DEF TypeOK, Rows

LEMMA ArrivedStep ==
  ASSUME TypeOK, TypeOK', ArrivedInv, [Next]_vars
  PROVE  ArrivedInv'
<1>1. CASE Aside
  <2>1. /\ Len(log) \in Nat /\ Len(log') \in Nat /\ clock \in Nat /\ clock' \in Nat
        /\ clock <= clock' /\ \A i \in 1 .. Len(log) : log'[i] = log[i]
        /\ log' # log => /\ Len(log') = Len(log) + 1
                         /\ log'[Len(log) + 1].at <= clock /\ UNCHANGED clock
    BY <1>1, LogGrows DEF TypeOK
  <2>2. \A i \in 1 .. Len(log) : log[i].at \in Nat /\ log[i].at <= clock'
    <3>1. \A i \in 1 .. Len(log) : log[i].at \in Nat BY LogRecords DEF TypeOK
    <3> QED BY <2>1, <3>1 DEF ArrivedInv
  <2>3. CASE log' = log BY <2>1, <2>2, <2>3 DEF ArrivedInv
  <2>4. CASE log' # log
    <3>1. \A i \in 1 .. Len(log') : i \in 1 .. Len(log) \/ i = Len(log) + 1 BY <2>1, <2>4
    <3> QED BY <2>1, <2>2, <2>4, <3>1 DEF ArrivedInv
  <2> QED BY <2>3, <2>4
<1>2. CASE UNCHANGED <<log, clock>> BY <1>2 DEF ArrivedInv
<1> QED BY <1>1, <1>2, Steps DEF externalVars, DropDuplicate, DropLate, Apply, KafkaAck,
           Barrier, Complete, Commit, Restore, Lose

LEMMA OnceStep ==
  ASSUME TypeOK, TypeOK', NumbersInv, FilesInv, OnceInv, [Next]_vars
  PROVE  OnceInv'
<1> USE DEF stateVars, sinkVars, ckptVars, tableVars, jobVars
<1>1. CASE Commit \/ Restore
  <2>1. /\ iceberg' = WithFiles(Uncommitted(ckpt)) /\ icebergN' = ckpt.n
        /\ Rows' = Rows \cup Uncommitted(ckpt)
    BY <1>1, CommitAdds, RestoreAdds
  <2>2. /\ icebergN \in Nat /\ ckpt.n \in Nat /\ icebergN <= ckpt.n
        /\ \A r \in Rows \cup ckpt.written : r.n \in Nat
    BY NaturalNumbers DEF NumbersInv
  <2>3. \A r \in Uncommitted(ckpt) : r.n > icebergN /\ r.n <= ckpt.n
    BY DEF Uncommitted, FilesInv
  <2>4. \A r \in Rows : r \notin Uncommitted(ckpt) BY <2>2, <2>3 DEF OnceInv
  <2>5. \A r \in Rows \cup Uncommitted(ckpt) : iceberg'[r] = 1
    BY <2>1, <2>4, FilesAdded DEF OnceInv, TypeOK
  <2>6. \A r \in Rows \cup Uncommitted(ckpt) : r.n <= ckpt.n BY <2>2, <2>3 DEF OnceInv
  <2> QED BY <2>1, <2>5, <2>6 DEF OnceInv
<1>2. CASE UNCHANGED <<iceberg, icebergN>> BY <1>2 DEF OnceInv, Rows
<1> QED BY <1>1, <1>2, Steps DEF Aside, DropDuplicate, DropLate, Apply, KafkaAck,
           Barrier, Complete, Lose

LEMMA SoundSubset ==
  ASSUME NEW R, NEW S, R \subseteq S, NEW i, NEW j,
         Sound(S, i), \A r \in S : r.id <= i => r.id <= j
  PROVE  Sound(R, j)
BY DEF Sound

LEMMA RowsStep ==
  ASSUME TypeOK, TypeOK', NumbersInv, FilesInv, RowsInv, [Next]_vars
  PROVE  RowsInv'
<1> USE NaturalNumbers DEF UnderWay, Uncommitted, stateVars, sinkVars, ckptVars, tableVars,
        jobVars
<1>1. CASE Aside \/ KafkaAck
  <2>1. UNCHANGED <<Rows, icebergN, ckpt, inflight, status, written, lastSeen>>
    BY <1>1 DEF Aside, KafkaAck, Rows
  <2> QED BY <2>1 DEF RowsInv, Sound
<1>2. CASE DropDuplicate \/ DropLate \/ Apply
  <2>1. UNCHANGED <<Rows, icebergN, ckpt, inflight, status>> /\ status = "running"
    BY <1>2 DEF DropDuplicate, DropLate, Apply, AtRecord, Rows
  <2>0. lastSeen \in Nat /\ lastSeen' \in Nat BY DEF TypeOK
  <2>2. lastSeen' = lastSeen \/ ~ (lastSeen' <= lastSeen)
    BY <1>2 DEF DropDuplicate, DropLate, Apply, Duplicate
  <2>3. lastSeen <= lastSeen' /\ lastSeen' \in Nat BY <2>0, <2>2
  <2>4. Sound(Rows \cup written', lastSeen')
    <3>1. CASE written' = written
      BY <2>1, <2>3, <3>1 DEF RowsInv, Sound
    <3>2. CASE /\ lastSeen < lastSeen'
               /\ \E r : r.id = lastSeen' /\ written' = written \cup {r}
      BY <2>1, <2>3, <3>2 DEF RowsInv, Sound
    <3>3. CASE Apply
      <4>1. ~ (lastSeen' <= lastSeen) BY <3>3 DEF Apply, Duplicate
      <4>2. lastSeen < lastSeen' BY <2>0, <4>1
      <4> QED BY <3>1, <3>2, <3>3, <4>2, ApplyRow
    <3> QED BY <1>2, <3>1, <3>3 DEF DropDuplicate, DropLate
  <2> QED BY <2>1, <2>4 DEF RowsInv, Sound
<1>3. CASE Barrier
  <2>1. /\ inflight'.written = written /\ inflight'.lastSeen = lastSeen
        /\ UNCHANGED <<Rows, icebergN, ckpt, status, written, lastSeen>>
        /\ status = "running"
    BY <1>3 DEF Barrier, Rows
  <2>2. {r \in inflight'.written : r.n > icebergN} = written BY <2>1 DEF FilesInv
  <2> QED BY <2>1, <2>2 DEF RowsInv, Sound
<1>4. CASE Complete
  BY <1>4 DEF Complete, RowsInv, Sound, Rows
<1>5. CASE Commit
  <2>1. /\ Rows' = Rows \cup {r \in ckpt.written : r.n > icebergN} /\ icebergN' = ckpt.n
        /\ written' = {r \in written : r.n > ckpt.n} /\ icebergN <= ckpt.n
        /\ UNCHANGED <<ckpt, inflight, status, lastSeen>> /\ status = "running"
    BY <1>5, CommitAdds DEF Commit, FilesInv
  <2>2. {r \in ckpt.written : r.n > icebergN} \subseteq written BY <2>1 DEF FilesInv
  <2>3. {r \in ckpt.written : r.n > ckpt.n} = {} BY DEF FilesInv
  <2>4. Rows' \cup written' \subseteq Rows \cup written BY <2>1, <2>2
  <2>5. ASSUME UnderWay
        PROVE  Rows' \cup {r \in inflight.written : r.n > ckpt.n}
                 \subseteq Rows \cup {r \in inflight.written : r.n > icebergN}
    <3>1. {r \in written : r.n <= ckpt.n} \subseteq {r \in written : r.n <= inflight.n}
      BY <2>5 DEF NumbersInv
    <3>2. {r \in ckpt.written : r.n > icebergN} \subseteq {r \in inflight.written : r.n > icebergN}
      BY <2>1, <2>5, <3>1 DEF FilesInv
    <3> QED BY <2>1, <3>2
  <2> QED BY <2>1, <2>3, <2>4, <2>5 DEF RowsInv, Sound
<1>6. CASE Restore
  <2>1. /\ Rows' = Rows \cup {r \in ckpt.written : r.n > icebergN} /\ icebergN' = ckpt.n
        /\ written' = {} /\ ~ UnderWay /\ lastSeen' = ckpt.lastSeen
        /\ UNCHANGED <<ckpt, inflight>>
    BY <1>6, RestoreAdds DEF Restore, NumbersInv
  <2>2. {r \in ckpt.written : r.n > ckpt.n} = {} BY DEF FilesInv
  <2> QED BY <2>1, <2>2 DEF RowsInv, Sound
<1>7. CASE status = "running" /\ Lose
  <2>1. /\ inflight' = NoCheckpoint /\ status' # "running"
        /\ UNCHANGED <<ckpt, icebergN, Rows>>
    BY <1>7 DEF Lose, Rows
  <2> QED BY <2>1 DEF RowsInv, Sound
<1> QED BY <1>1, <1>2, <1>3, <1>4, <1>5, <1>6, <1>7, Steps

LEMMA FlushedStep ==
  ASSUME TypeOK, TypeOK', NumbersInv, FilesInv, FlushedInv, [Next]_vars
  PROVE  FlushedInv'
<1> USE DEF UnderWay, Uncommitted, stateVars, sinkVars, ckptVars, tableVars, jobVars
<1>0. kafka \in Seq(Row) /\ kafkaBuf \in Seq(Row) BY DEF TypeOK
<1>1. CASE Aside \/ DropDuplicate \/ DropLate \/ Complete \/ (status = "running" /\ Lose)
  <2>1. UNCHANGED kafka BY <1>1 DEF Aside, DropDuplicate, DropLate, Complete, Lose
  <2>2. NoCheckpoint.written = {} BY DEF NoCheckpoint
  <2>3. /\ Rows' \cup ckpt'.written \cup inflight'.written
             \subseteq Rows \cup ckpt.written \cup inflight.written
        /\ written' = {} \/ UNCHANGED <<written, kafkaBuf>>
    BY <1>1, <2>2 DEF Aside, DropDuplicate, DropLate, Complete, Lose, Rows
  <2> QED BY <2>1, <2>3 DEF FlushedInv, InKafka
<1>2. CASE Apply
  <2>1. UNCHANGED <<kafka, Rows, ckpt, inflight>> BY <1>2 DEF Apply, Rows
  <2>2. CASE UNCHANGED <<written, kafkaBuf>> BY <2>1, <2>2 DEF FlushedInv, InKafka
  <2>3. CASE \E r : written' = written \cup {r} /\ kafkaBuf' = Append(kafkaBuf, r)
    <3>1. PICK r : written' = written \cup {r} /\ kafkaBuf' = Append(kafkaBuf, r) BY <2>3
    <3>2. /\ Len(kafkaBuf') = Len(kafkaBuf) + 1 /\ kafkaBuf'[Len(kafkaBuf) + 1] = r
          /\ \A i \in 1 .. Len(kafkaBuf) : kafkaBuf'[i] = kafkaBuf[i]
      BY <1>0, <3>1
    <3>3. Len(kafkaBuf) \in Nat BY <1>0
    <3> QED BY <2>1, <3>1, <3>2, <3>3 DEF FlushedInv, InKafka
  <2> QED BY <1>2, <2>2, <2>3, ApplyRow
<1>3. CASE KafkaAck
  <2>1. /\ kafka' = Append(kafka, Head(kafkaBuf)) /\ kafkaBuf' = Tail(kafkaBuf)
        /\ kafkaBuf # <<>> /\ UNCHANGED <<written, Rows, ckpt, inflight>>
    BY <1>3 DEF KafkaAck, Rows
  <2>2. /\ Len(kafka') = Len(kafka) + 1 /\ kafka'[Len(kafka) + 1] = kafkaBuf[1]
        /\ \A i \in 1 .. Len(kafka) : kafka'[i] = kafka[i]
    BY <1>0, <2>1
  <2>3. /\ Len(kafkaBuf') = Len(kafkaBuf) - 1
        /\ \A i \in 1 .. Len(kafkaBuf') : kafkaBuf'[i] = kafkaBuf[i + 1]
    BY <1>0, <2>1
  <2>4. Len(kafka) \in Nat /\ Len(kafkaBuf) \in Nat BY <1>0
  <2>5. \A r : InKafka(r) => InKafka(r)' BY <2>2, <2>4 DEF InKafka
  <2>6. ASSUME NEW r, NEW i \in 1 .. Len(kafkaBuf), kafkaBuf[i].id = r.id
        PROVE  InKafka(r)' \/ \E j \in 1 .. Len(kafkaBuf') : kafkaBuf'[j].id = r.id
    <3>1. CASE i = 1 BY <2>2, <2>4, <2>6, <3>1 DEF InKafka
    <3>2. CASE i # 1
      <4>1. i - 1 \in 1 .. Len(kafkaBuf') /\ kafkaBuf'[i - 1] = kafkaBuf[i]
        BY <2>3, <2>4, <3>2
      <4> QED BY <2>6, <4>1
    <3> QED BY <3>1, <3>2
  <2>7. \A r \in Rows' \cup ckpt'.written \cup inflight'.written : InKafka(r)'
    BY <2>1, <2>5 DEF FlushedInv
  <2>8. \A r \in written' : InKafka(r)' \/ \E j \in 1 .. Len(kafkaBuf') : kafkaBuf'[j].id = r.id
    BY <2>1, <2>5, <2>6 DEF FlushedInv
  <2> QED BY <2>7, <2>8 DEF FlushedInv
<1>4. CASE Barrier
  <2>1. /\ kafka' = kafka \o kafkaBuf /\ kafkaBuf' = <<>> /\ inflight'.written = written
        /\ UNCHANGED <<written, Rows, ckpt>>
    BY <1>4 DEF Barrier, Rows
  <2>2. /\ Len(kafka') = Len(kafka) + Len(kafkaBuf)
        /\ \A i \in 1 .. Len(kafka) : kafka'[i] = kafka[i]
        /\ \A i \in 1 .. Len(kafkaBuf) : kafka'[Len(kafka) + i] = kafkaBuf[i]
    BY <1>0, <2>1
  <2>3. Len(kafka) \in Nat /\ Len(kafkaBuf) \in Nat BY <1>0
  <2>4. \A r : InKafka(r) => InKafka(r)' BY <2>2, <2>3 DEF InKafka
  <2>5. ASSUME NEW r, NEW i \in 1 .. Len(kafkaBuf), kafkaBuf[i].id = r.id
        PROVE  InKafka(r)'
    <3>1. Len(kafka) + i \in 1 .. Len(kafka') BY <2>2, <2>3
    <3> QED BY <2>2, <2>5, <3>1 DEF InKafka
  <2>6. \A r \in written : InKafka(r)' BY <2>4, <2>5 DEF FlushedInv
  <2> QED BY <2>1, <2>4, <2>6 DEF FlushedInv
<1>5. CASE Commit \/ Restore
  <2>1. /\ Rows' = Rows \cup {r \in ckpt.written : r.n > icebergN}
        /\ written' \subseteq written /\ UNCHANGED <<kafka, kafkaBuf, ckpt, inflight>>
    BY <1>5, CommitAdds, RestoreAdds DEF Commit, Restore
  <2> QED BY <2>1 DEF FlushedInv, InKafka
<1> QED BY <1>1, <1>2, <1>3, <1>4, <1>5, Steps

THEOREM InductiveInvariant == Spec => []IInv
<1>1. IInv /\ [Next]_vars => IInv'
  BY TypeStep, ArrivedStep, NumbersStep, FilesStep, RowsStep, OnceStep, FlushedStep DEF IInv
<1> QED BY InitInv, <1>1, PTL DEF Spec


(* The job's variables keep their types: the best prices exist whenever a   *)
(* row is written, and no restore puts the offset beyond the log.           *)
THEOREM TypeCorrectness == Spec => []TypeOK
<1>1. IInv => TypeOK BY DEF IInv
<1> QED BY <1>1, InductiveInvariant, PTL

(* No crash between barrier, completion and commit, and no replayed record, *)
(* gives the silver table two rows of one update id: not by a record taken  *)
(* again, nor by a commit of files that the table has already.              *)
THEOREM OneRow == Spec => []OneRowPerUpdate
<1>1. IInv => OneRowPerUpdate BY DEF IInv, RowsInv, OnceInv, Rows, Sound, OneRowPerUpdate
<1> QED BY <1>1, InductiveInvariant, PTL

(* The Kafka sink is never behind the silver table.                         *)
THEOREM KafkaAhead == Spec => []KafkaCoversIceberg
<1>1. IInv => KafkaCoversIceberg
  BY DEF IInv, FlushedInv, InKafka, KafkaCoversIceberg, Ids, Rows
<1> QED BY <1>1, InductiveInvariant, PTL


-----------------------------------------------------------------------------
(* How the records between two positions lead from one to the other.        *)

Reached(p, rows) == [seen |-> p.lastSeen, book |-> p.book, rows |-> rows]

(* What may have been found of a record's lateness by time t: it was, only  *)
(* if it is old by now; it was not, only if it was not old when it arrived. *)
MayBe(r, t, isLate) ==
  /\ isLate => Silver!Old(r, t)
  /\ Silver!Old(r, r.at) => isLate

Follows(st, lg, t, late, lo, hi) ==
  \A i \in (lo + 1) .. hi :
     /\ lg[i].id # NoRecord /\ MayBe(lg[i], t, i \in late)
     /\ st[i] = Silver!Take(st[i - 1], i, lg[i], i \in late)

(* From position a, taking the records of lg up to that of b, some of them  *)
(* late, has led to b and the rows by time t. *)
Leads(lg, t, a, b, rows) ==
  /\ a.offset <= b.offset /\ b.offset <= Len(lg)
  /\ \E late, st : /\ st[a.offset] = Reached(a, {}) /\ st[b.offset] = Reached(b, rows)
                   /\ Follows(st, lg, t, late, a.offset, b.offset)

Bare(r) == [off |-> r.off, id |-> r.id, bid |-> r.bid, ask |-> r.ask]

BareRows(S) == {Bare(r) : r \in S}

(* What TickerTable's Take does, in the job's own operators. *)
LEMMA TakeIs ==
  ASSUME NEW st, NEW i, NEW r, NEW late
  PROVE  Silver!Take(st, i, r, late) =
           LET b == ApplyDepthDiff(st.book, r.diff)
           IN  IF r.id <= st.seen THEN st
               ELSE IF late THEN [st EXCEPT !.seen = r.id]
               ELSE [seen |-> r.id, book |-> b,
                     rows |-> st.rows \cup
                                (IF TwoSided(b)
                                 THEN {[off |-> i, id |-> r.id,
                                        bid |-> BestBid(b), ask |-> BestAsk(b)]}
                                 ELSE {})]
<1>1. \A b, d : Silver!ApplyDepthDiff(b, d) = ApplyDepthDiff(b, d)
  BY DEF Silver!ApplyDepthDiff, ApplyDepthDiff, Silver!ApplyDiff, ApplyDiff
<1>2. \A b, s : Silver!Prices(b, s) = Prices(b, s) BY DEF Silver!Prices, Prices
<1>3. \A b : /\ Silver!TwoSided(b) <=> TwoSided(b)
             /\ Silver!BestBid(b) = BestBid(b) /\ Silver!BestAsk(b) = BestAsk(b)
  BY <1>2 DEF Silver!TwoSided, TwoSided, Silver!BestBid, BestBid, Silver!BestAsk, BestAsk,
              Silver!Max, Silver!Min, Max, Min
<1> QED BY <1>1, <1>3 DEF Silver!Take, Silver!Row

(* Rows that are already there do not matter to it. *)
Plus(st, more) == [seen |-> st.seen, book |-> st.book, rows |-> more \cup st.rows]

LEMMA TakeRows ==
  ASSUME NEW p, NEW rows, NEW more, NEW i, NEW r, NEW late
  PROVE  Silver!Take(Plus(Reached(p, rows), more), i, r, late)
           = Plus(Silver!Take(Reached(p, rows), i, r, late), more)
BY TakeIs DEF Reached, Plus

LEMMA LeadsNowhere ==
  ASSUME NEW lg, NEW t, NEW a, NEW b, a.offset \in Nat, a.offset <= Len(lg),
         b.offset = a.offset, b.lastSeen = a.lastSeen, b.book = a.book
  PROVE  Leads(lg, t, a, b, {})
<1> DEFINE st == [i \in {a.offset} |-> Reached(a, {})]
<1>1. st[a.offset] = Reached(a, {}) /\ st[b.offset] = Reached(b, {}) BY DEF Reached
<1>2. Follows(st, lg, t, {}, a.offset, b.offset) BY DEF Follows
<1> QED BY <1>1, <1>2 DEF Leads

(* The log may grow and the clock advance. *)
LEMMA LeadsGrown ==
  ASSUME NEW lg, NEW lh, NEW t \in Nat, NEW u \in Nat, NEW a, NEW b, NEW rows,
         a.offset \in Nat, b.offset \in Nat, Len(lg) \in Nat, Len(lh) \in Nat,
         t <= u, \A i \in 1 .. Len(lg) : lg[i].ts \in Nat,
         Len(lg) <= Len(lh), \A i \in 1 .. Len(lg) : lh[i] = lg[i],
         Leads(lg, t, a, b, rows)
  PROVE  Leads(lh, u, a, b, rows)
<1>1. PICK late, st : /\ st[a.offset] = Reached(a, {}) /\ st[b.offset] = Reached(b, rows)
                      /\ Follows(st, lg, t, late, a.offset, b.offset)
  BY DEF Leads
<1>2. a.offset <= b.offset /\ b.offset <= Len(lg) BY DEF Leads
<1>3. ASSUME NEW i \in (a.offset + 1) .. b.offset, NEW isLate \in BOOLEAN,
             MayBe(lg[i], t, isLate)
      PROVE  MayBe(lh[i], u, isLate)
  <2>0. LateAfter \in Nat BY BoundsAssumption
  <2>1. i \in 1 .. Len(lg) BY <1>2
  <2>2. lh[i] = lg[i] /\ lg[i].ts \in Nat BY <2>1
  <2>3. Silver!Old(lg[i], t) => Silver!Old(lg[i], u) BY <2>0, <2>2 DEF Silver!Old
  <2> QED BY <1>3, <2>2, <2>3 DEF MayBe
<1>4. \A i \in (a.offset + 1) .. b.offset : lh[i] = lg[i] BY <1>2
<1>5. Follows(st, lh, u, late, a.offset, b.offset)
  <2>1. \A i \in (a.offset + 1) .. b.offset : (i \in late) \in BOOLEAN OBVIOUS
  <2> QED BY <1>1, <1>3, <1>4, <2>1 DEF Follows
<1> QED BY <1>1, <1>2, <1>5 DEF Leads

(* One record more. *)
LEMMA LeadsOn ==
  ASSUME NEW lg, NEW t, NEW a, NEW b, NEW c, NEW rows, NEW rows2, NEW isLate \in BOOLEAN,
         a.offset \in Nat, b.offset \in Nat, Len(lg) \in Nat,
         Leads(lg, t, a, b, rows),
         c.offset = b.offset + 1, c.offset <= Len(lg), lg[c.offset].id # NoRecord,
         MayBe(lg[c.offset], t, isLate),
         Silver!Take(Reached(b, rows), c.offset, lg[c.offset], isLate) = Reached(c, rows2)
  PROVE  Leads(lg, t, a, c, rows2)
<1>1. PICK late, st : /\ st[a.offset] = Reached(a, {}) /\ st[b.offset] = Reached(b, rows)
                      /\ Follows(st, lg, t, late, a.offset, b.offset)
  BY DEF Leads
<1>2. a.offset <= b.offset BY DEF Leads
<1> DEFINE later == IF isLate THEN late \cup {c.offset} ELSE late \ {c.offset}
           on == [i \in a.offset .. c.offset |-> IF i = c.offset THEN Reached(c, rows2) ELSE st[i]]
<1>3. on[a.offset] = Reached(a, {}) /\ on[c.offset] = Reached(c, rows2) BY <1>1, <1>2
<1>4. ASSUME NEW i \in (a.offset + 1) .. c.offset
      PROVE  /\ lg[i].id # NoRecord /\ MayBe(lg[i], t, i \in later)
             /\ on[i] = Silver!Take(on[i - 1], i, lg[i], i \in later)
  <2>1. CASE i = c.offset
    <3>1. on[i - 1] = Reached(b, rows) BY <1>1, <1>2, <2>1
    <3>2. (i \in later) = isLate BY <2>1
    <3> QED BY <1>3, <2>1, <3>1, <3>2
  <2>2. CASE i # c.offset
    <3>1. i \in (a.offset + 1) .. b.offset BY <1>2, <2>2
    <3>2. on[i] = st[i] /\ on[i - 1] = st[i - 1] BY <1>2, <3>1
    <3>3. (i \in later) = (i \in late) BY <2>2
    <3>4. /\ lg[i].id # NoRecord /\ MayBe(lg[i], t, i \in late)
          /\ st[i] = Silver!Take(st[i - 1], i, lg[i], i \in late)
      BY <1>1, <3>1 DEF Follows
    <3> QED BY <3>2, <3>3, <3>4
  <2> QED BY <2>1, <2>2
<1>5. Follows(on, lg, t, later, a.offset, c.offset)
  <2> HIDE DEF on, later
  <2> QED BY <1>4 DEF Follows
<1> QED
  <2> HIDE DEF on, later
  <2>1. a.offset <= c.offset BY <1>2
  <2> QED BY <1>3, <1>5, <2>1 DEF Leads


LEMMA TakeShape ==
  ASSUME NEW p, NEW rows, NEW i, NEW r, NEW late
  PROVE  \E q, rows2 : Silver!Take(Reached(p, rows), i, r, late) = Reached(q, rows2)
<1> DEFINE b == ApplyDepthDiff(p.book, r.diff)
           q1 == [lastSeen |-> r.id, book |-> p.book]
           q2 == [lastSeen |-> r.id, book |-> b]
           more == rows \cup (IF TwoSided(b)
                              THEN {[off |-> i, id |-> r.id, bid |-> BestBid(b), ask |-> BestAsk(b)]}
                              ELSE {})
<1>1. \/ Silver!Take(Reached(p, rows), i, r, late) = Reached(p, rows)
      \/ Silver!Take(Reached(p, rows), i, r, late) = Reached(q1, rows)
      \/ Silver!Take(Reached(p, rows), i, r, late) = Reached(q2, more)
  BY TakeIs DEF Reached
<1> HIDE DEF q1, q2, more
<1> QED BY <1>1

(* One leg after another. *)
LEMMA LeadsThrough ==
  ASSUME NEW lg, NEW t, NEW a, NEW b, NEW c, NEW rows, NEW rows2,
         a.offset \in Nat, b.offset \in Nat, c.offset \in Nat, Len(lg) \in Nat,
         Leads(lg, t, a, b, rows), Leads(lg, t, b, c, rows2)
  PROVE  Leads(lg, t, a, c, rows \cup rows2)
<1>1. PICK late, st : /\ st[a.offset] = Reached(a, {}) /\ st[b.offset] = Reached(b, rows)
                      /\ Follows(st, lg, t, late, a.offset, b.offset)
  BY DEF Leads
<1>2. PICK late2, st2 : /\ st2[b.offset] = Reached(b, {}) /\ st2[c.offset] = Reached(c, rows2)
                        /\ Follows(st2, lg, t, late2, b.offset, c.offset)
  BY DEF Leads
<1>3. a.offset <= b.offset /\ b.offset <= c.offset /\ c.offset <= Len(lg) BY DEF Leads
<1> DEFINE lateBoth == {i \in late : i <= b.offset} \cup {i \in late2 : i > b.offset}
           on == [i \in a.offset .. c.offset |-> IF i <= b.offset THEN st[i] ELSE Plus(st2[i], rows)]
           Shaped == {i \in b.offset .. c.offset : \E p, R : st2[i] = Reached(p, R)}
<1>4. \A i \in b.offset .. c.offset : i \in Shaped
  <2>1. b.offset \in Shaped BY <1>2, <1>3
  <2>2. ASSUME NEW i \in (b.offset + 1) .. c.offset, i - 1 \in Shaped PROVE i \in Shaped
    <3>1. PICK p, R : st2[i - 1] = Reached(p, R) BY <2>2
    <3>2. st2[i] = Silver!Take(Reached(p, R), i, lg[i], i \in late2) BY <1>2, <3>1 DEF Follows
    <3>3. \E q, R2 : st2[i] = Reached(q, R2) BY <3>2, TakeShape
    <3> QED BY <3>3
  <2> HIDE DEF Shaped
  <2> QED BY <2>1, <2>2, Induction
<1>6. \A i \in b.offset .. c.offset : on[i] = Plus(st2[i], rows)
  <2>1. Plus(Reached(b, {}), rows) = Reached(b, rows) BY DEF Reached, Plus
  <2> QED BY <1>1, <1>2, <1>3, <2>1
<1>7. on[a.offset] = Reached(a, {}) BY <1>1, <1>3
<1>8. on[c.offset] = Reached(c, rows \cup rows2)
  <2>1. on[c.offset] = Plus(Reached(c, rows2), rows)
    <3>1. c.offset \in b.offset .. c.offset BY <1>3
    <3> HIDE DEF on
    <3> QED BY <1>2, <1>6, <3>1
  <2> HIDE DEF on
  <2> QED BY <2>1 DEF Reached, Plus
<1>9. ASSUME NEW i \in (a.offset + 1) .. c.offset
      PROVE  /\ lg[i].id # NoRecord /\ MayBe(lg[i], t, i \in lateBoth)
             /\ on[i] = Silver!Take(on[i - 1], i, lg[i], i \in lateBoth)
  <2>1. CASE i <= b.offset
    <3>1. on[i] = st[i] /\ on[i - 1] = st[i - 1] BY <1>3, <2>1
    <3>2. (i \in lateBoth) = (i \in late) BY <2>1
    <3>3. /\ lg[i].id # NoRecord /\ MayBe(lg[i], t, i \in late)
          /\ st[i] = Silver!Take(st[i - 1], i, lg[i], i \in late)
      BY <1>1, <2>1 DEF Follows
    <3> HIDE DEF on, lateBoth
    <3> QED BY <3>1, <3>2, <3>3
  <2>2. CASE i > b.offset
    <3>0. i \in b.offset .. c.offset /\ i - 1 \in b.offset .. c.offset /\ i \in (b.offset + 1) .. c.offset
      BY <1>3, <2>2
    <3>1. PICK p, R : st2[i - 1] = Reached(p, R)
      <4>1. i - 1 \in Shaped
        <5> HIDE DEF Shaped
        <5> QED BY <1>4, <3>0
      <4> QED BY <4>1
    <3>2. /\ lg[i].id # NoRecord /\ MayBe(lg[i], t, i \in late2)
          /\ st2[i] = Silver!Take(Reached(p, R), i, lg[i], i \in late2)
      BY <1>2, <3>0, <3>1 DEF Follows
    <3>3. Silver!Take(Plus(Reached(p, R), rows), i, lg[i], i \in late2) = Plus(st2[i], rows)
      BY <3>2, TakeRows
    <3>4. on[i] = Plus(st2[i], rows) /\ on[i - 1] = Plus(Reached(p, R), rows)
      <4> HIDE DEF on
      <4> QED BY <1>6, <3>0, <3>1
    <3>5. (i \in lateBoth) = (i \in late2) BY <2>2
    <3> HIDE DEF on, lateBoth
    <3> QED BY <3>2, <3>3, <3>4, <3>5
  <2> QED BY <1>3, <2>1, <2>2
<1>10. Follows(on, lg, t, lateBoth, a.offset, c.offset)
  <2> HIDE DEF on, lateBoth
  <2> QED BY <1>9 DEF Follows
<1> QED
  <2> HIDE DEF on, lateBoth
  <2>1. a.offset <= c.offset BY <1>3
  <2> QED BY <1>3, <1>7, <1>8, <1>10, <2>1 DEF Leads


(* From the position of the last commit, that is TickerTable's TakeAll. *)
LEMMA LeadsTakeAll ==
  ASSUME NEW b, NEW rows, committed.offset \in Nat, b.offset \in Nat, Len(log) \in Nat,
         Leads(log, clock, committed, b, rows)
  PROVE  /\ \A i \in (committed.offset + 1) .. b.offset : log[i].id # NoRecord
         /\ \E late \in Silver!LateSets(b.offset) :
               Silver!TakeAll(b.offset, late) = Reached(b, rows)
<1> DEFINE lo == committed.offset
           hi == b.offset
<1>1. PICK any, st : /\ st[lo] = Reached(committed, {}) /\ st[hi] = Reached(b, rows)
                     /\ Follows(st, log, clock, any, lo, hi)
  BY DEF Leads
<1>2. lo <= hi BY DEF Leads
<1> DEFINE late == any \cap ((lo + 1) .. hi)
           Step(f) == [i \in lo .. hi |->
                         IF i = lo THEN [seen |-> committed.lastSeen, book |-> committed.book,
                                         rows |-> {}]
                         ELSE Silver!Take(f[i - 1], i, log[i], i \in late)]
           ch == CHOOSE f : f = Step(f)
           known == [i \in lo .. hi |-> st[i]]
<1>3. Silver!TakeAll(hi, late) = ch[hi] BY DEF Silver!TakeAll
<1>4. known = Step(known)
  <2>1. ASSUME NEW i \in lo .. hi PROVE known[i] = Step(known)[i]
    <3>1. CASE i = lo BY <1>1, <3>1 DEF Reached
    <3>2. CASE i # lo
      <4>1. i \in (lo + 1) .. hi /\ i - 1 \in lo .. hi BY <2>1, <3>2
      <4>2. st[i] = Silver!Take(st[i - 1], i, log[i], i \in any) BY <1>1, <4>1 DEF Follows
      <4>3. (i \in late) = (i \in any) BY <4>1
      <4> QED BY <3>2, <4>1, <4>2, <4>3
    <3> QED BY <3>1, <3>2
  <2> QED BY <2>1
<1>5. ch = Step(ch)
  <2> HIDE DEF known, Step
  <2> QED BY <1>4
<1>6. ch[hi] = known[hi]
  <2> DEFINE Same == {i \in lo .. hi : ch[i] = known[i]}
  <2>1. lo \in Same
    <3>1. ch[lo] = Step(ch)[lo] /\ known[lo] = Step(known)[lo]
      <4> HIDE DEF ch, known, Step
      <4> QED BY <1>4, <1>5
    <3> HIDE DEF ch, known
    <3> QED BY <1>2, <3>1
  <2>2. ASSUME NEW i \in (lo + 1) .. hi, i - 1 \in Same PROVE i \in Same
    <3>1. ch[i] = Step(ch)[i] /\ known[i] = Step(known)[i]
      <4> HIDE DEF ch, known, Step
      <4> QED BY <1>4, <1>5
    <3>2. ch[i - 1] = known[i - 1] /\ i \in lo .. hi /\ i # lo BY <2>2
    <3> HIDE DEF ch, known
    <3> QED BY <3>1, <3>2
  <2>3. hi \in Same
    <3> HIDE DEF Same
    <3>1. \A i \in lo .. hi : i \in Same BY <1>2, <2>1, <2>2, Induction
    <3> QED BY <1>2, <3>1
  <2> QED BY <2>3
<1>7. Silver!TakeAll(hi, late) = Reached(b, rows)
  <2>1. known[hi] = st[hi] BY <1>2
  <2> HIDE DEF ch, known, late
  <2> QED BY <1>1, <1>3, <1>6, <2>1
<1>8. late \in Silver!LateSets(hi)
  <2>1. \A i \in (lo + 1) .. hi : MayBe(log[i], clock, i \in any) BY <1>1 DEF Follows
  <2>2. \A i \in (lo + 1) .. hi : (i \in any => Silver!Old(log[i], clock))
                               /\ (Silver!Old(log[i], log[i].at) => i \in any)
    BY <2>1 DEF MayBe
  <2> QED BY <2>2 DEF Silver!LateSets
<1> HIDE DEF late
<1> QED BY <1>1, <1>7, <1>8 DEF Follows


-----------------------------------------------------------------------------
(* The refinement of TickerTable.                                           *)

Here == [offset |-> offset, lastSeen |-> lastSeen, book |-> book]

(* The newest checkpoint a barrier has passed. *)
Base == IF UnderWay THEN inflight ELSE ckpt

(* The log leads from the last commit to the last checkpoint, from there to *)
(* the one under way, and from there to where the job is; the files of each *)
(* leg hold the rows it gives.                                              *)
PrefixInv ==
  /\ icebergN < ckpt.n => /\ committed.offset < ckpt.offset
                          /\ Leads(log, clock, committed, ckpt, BareRows(Uncommitted(ckpt)))
  /\ icebergN = ckpt.n => committed = PositionOf(ckpt)
  /\ UnderWay
       => Leads(log, clock, ckpt, inflight, BareRows({r \in inflight.written : r.n > ckpt.n}))
  /\ status = "running"
       => Leads(log, clock, Base, Here, BareRows({r \in written : r.n > Base.n}))

LEMMA LeadsFields ==
  ASSUME NEW lg, NEW t, NEW a, NEW b, NEW c, NEW d, NEW rows,
         c.offset = a.offset, c.lastSeen = a.lastSeen, c.book = a.book,
         d.offset = b.offset, d.lastSeen = b.lastSeen, d.book = b.book,
         Leads(lg, t, a, b, rows)
  PROVE  Leads(lg, t, c, d, rows)
BY DEF Leads, Reached

LEMMA InitPrefix == Init => PrefixInv
<1> SUFFICES ASSUME Init PROVE PrefixInv OBVIOUS
<1>1. ckpt = NoCheckpoint /\ ~ UnderWay BY DEF Init, UnderWay
<1>2. committed = PositionOf(ckpt) BY <1>1 DEF Init, PositionOf, NoCheckpoint
<1>3. Base = ckpt /\ BareRows({r \in written : r.n > Base.n}) = {}
  BY <1>1 DEF Base, Init, BareRows
<1>4. /\ ckpt.offset = 0 /\ Len(log) = 0 /\ Here.offset = ckpt.offset
      /\ Here.lastSeen = ckpt.lastSeen /\ Here.book = ckpt.book
  BY <1>1 DEF Init, NoCheckpoint, Here
<1>5. Leads(log, clock, ckpt, Here, {}) BY <1>4, LeadsNowhere
<1>6. icebergN = 0 /\ ckpt.n = 0 BY <1>1 DEF Init, NoCheckpoint
<1> QED BY <1>1, <1>2, <1>3, <1>5, <1>6 DEF PrefixInv

(* One record consumed: the leg to where the job is grows by it. *)
LEMMA ConsumeStep ==
  ASSUME IInv, PrefixInv, DropDuplicate \/ DropLate \/ Apply
  PROVE  Leads(log, clock, Base, Here', BareRows({r \in written' : r.n > Base.n}))
<1> DEFINE S == {r \in written : r.n > Base.n}
           T == {r \in written' : r.n > Base.n}
           r == log[offset + 1]
<1>1. /\ offset \in Nat /\ Len(log) \in Nat /\ offset + 1 <= Len(log) /\ r.id # NoRecord
      /\ offset' = offset + 1
  BY DEF IInv, TypeOK, DropDuplicate, DropLate, Apply, AtRecord, Current
<1>2. Base.offset \in Nat BY DEF IInv, TypeOK, Base, Checkpoint
<1>3. Leads(log, clock, Base, Here, BareRows(S))
  BY DEF PrefixInv, DropDuplicate, DropLate, Apply, AtRecord
<1>4. /\ Here.offset = offset /\ Here.lastSeen = lastSeen /\ Here.book = book
      /\ Here'.offset = offset' /\ Here'.lastSeen = lastSeen' /\ Here'.book = book'
  BY DEF Here
<1>5. ASSUME NEW isLate \in BOOLEAN,
             MayBe(r, clock, isLate),
             Silver!Take(Reached(Here, BareRows(S)), offset + 1, r, isLate)
               = Reached(Here', BareRows(T))
      PROVE  Leads(log, clock, Base, Here', BareRows(T))
  <2> DEFINE R1 == BareRows(S)
             R2 == BareRows(T)
  <2>1. Leads(log, clock, Base, Here, R1) BY <1>3
  <2>2. Silver!Take(Reached(Here, R1), Here'.offset, log[Here'.offset], isLate) = Reached(Here', R2)
    BY <1>1, <1>4, <1>5
  <2>3. /\ Here'.offset = Here.offset + 1 /\ Here'.offset <= Len(log) /\ Here.offset \in Nat
        /\ log[Here'.offset].id # NoRecord /\ MayBe(log[Here'.offset], clock, isLate)
    BY <1>1, <1>4, <1>5
  <2>4. Leads(log, clock, Base, Here', R2)
    <3> HIDE DEF R1, R2, S, T, r
    <3> QED BY <1>1, <1>2, <2>1, <2>2, <2>3, LeadsOn
  <2> QED BY <2>4
<1>9. /\ r.ts \in Nat /\ r.at \in Nat /\ clock \in Nat /\ LateAfter \in Nat
      /\ r.at <= clock
  <2>1. offset + 1 \in 1 .. Len(log) BY <1>1
  <2>2. r.ts \in Nat /\ r.at \in Nat BY <2>1, LogRecords DEF IInv, TypeOK
  <2>3. r.at <= clock BY <2>1 DEF IInv, ArrivedInv
  <2>4. LateAfter \in Nat BY BoundsAssumption
  <2>5. clock \in Nat BY DEF IInv, TypeOK
  <2> HIDE DEF r
  <2> QED BY <2>2, <2>3, <2>4, <2>5
<1>6. CASE DropDuplicate
  <2>1. r.id <= lastSeen /\ lastSeen' = lastSeen /\ book' = book /\ written' = written
    BY <1>6 DEF DropDuplicate, Duplicate, Current, sinkVars
  <2> DEFINE old == Silver!Old(r, r.at)
  <2>2. Silver!Take(Reached(Here, BareRows(S)), offset + 1, r, old) = Reached(Here', BareRows(T))
    <3> HIDE DEF old
    <3> QED BY <1>4, <2>1, TakeIs DEF Reached
  <2>3. old \in BOOLEAN /\ MayBe(r, clock, old) BY <1>9 DEF Silver!Old, MayBe
  <2> HIDE DEF old
  <2> QED BY <1>5, <2>2, <2>3
<1>7. CASE DropLate
  <2>1. ~ (r.id <= lastSeen) /\ lastSeen' = r.id /\ book' = book /\ written' = written
    BY <1>7 DEF DropLate, Duplicate, Current, sinkVars
  <2>2. Silver!Take(Reached(Here, BareRows(S)), offset + 1, r, TRUE) = Reached(Here', BareRows(T))
    BY <1>4, <2>1, TakeIs DEF Reached
  <2>3. MayBe(r, clock, TRUE) BY <1>7 DEF DropLate, Late, Current, Silver!Old, MayBe
  <2> QED BY <1>5, <2>2, <2>3
<1>8. CASE Apply
  <2>1. ~ (r.id <= lastSeen) /\ lastSeen' = r.id /\ book' = ApplyDepthDiff(book, r.diff)
    BY <1>8 DEF Apply, Duplicate, Current
  <2> DEFINE row == RowOf(r, book')
  <2>2. BareRows(T) = BareRows(S) \cup (IF TwoSided(book')
                                        THEN {[off |-> offset + 1, id |-> r.id,
                                               bid |-> BestBid(book'), ask |-> BestAsk(book')]}
                                        ELSE {})
    <3>1. CASE ~ TwoSided(book') BY <1>8, <3>1 DEF Apply, sinkVars
    <3>2. CASE TwoSided(book')
      <4>1. written' = written \cup {row} BY <1>8, <3>2 DEF Apply, Current
      <4>2. row.n > Base.n
        <5>1. row.n = epoch BY DEF RowOf
        <5>2. Base.n \in Nat /\ epoch \in Nat /\ Base.n < epoch
          BY DEF Base, IInv, TypeOK, NumbersInv, Checkpoint
        <5> QED BY <5>1, <5>2
      <4>3. T = S \cup {row}
        <5> HIDE DEF row
        <5> QED BY <4>1, <4>2
      <4>4. Bare(row) = [off |-> offset + 1, id |-> r.id,
                         bid |-> BestBid(book'), ask |-> BestAsk(book')]
        BY DEF RowOf, Bare
      <4>5. BareRows(T) = BareRows(S) \cup {Bare(row)}
        <5> HIDE DEF row, S, T
        <5> QED BY <4>3 DEF BareRows
      <4> QED BY <3>2, <4>4, <4>5
    <3> QED BY <3>1, <3>2
  <2>3. Silver!Take(Reached(Here, BareRows(S)), offset + 1, r, FALSE) = Reached(Here', BareRows(T))
    BY <1>4, <2>1, <2>2, TakeIs DEF Reached
  <2>4. MayBe(r, clock, FALSE) BY <1>8, <1>9 DEF Apply, Late, Current, Silver!Old, MayBe
  <2> QED BY <1>5, <2>3, <2>4
<1> QED BY <1>6, <1>7, <1>8


LEMMA PrefixStep ==
  ASSUME IInv, IInv', PrefixInv, [Next]_vars
  PROVE  PrefixInv'
<1> USE DEF UnderWay, Uncommitted, stateVars, sinkVars, ckptVars, tableVars, jobVars,
            externalVars
<1> DEFINE Leg1 == BareRows({r \in ckpt.written : r.n > icebergN})
           Leg2 == BareRows({r \in inflight.written : r.n > ckpt.n})
           Leg3 == BareRows({r \in written : r.n > Base.n})
<1>0. /\ TypeOK /\ TypeOK' /\ NumbersInv /\ FilesInv /\ Len(log) \in Nat
      /\ committed.offset \in Nat /\ ckpt.offset \in Nat /\ inflight.offset \in Nat
      /\ offset \in Nat /\ Base.offset \in Nat /\ Here.offset = offset
      /\ icebergN \in Nat /\ ckpt.n \in Nat /\ inflight.n \in Nat /\ epoch \in Nat \ {0}
      /\ \A r \in written \cup ckpt.written \cup inflight.written : r.n \in Nat
  <2>1. TypeOK /\ TypeOK' /\ NumbersInv /\ FilesInv BY DEF IInv
  <2>2. Len(log) \in Nat BY <2>1 DEF TypeOK
  <2> QED BY <2>1, <2>2, NaturalNumbers DEF TypeOK, Checkpoint, Position, Base, Here
<1>1. CASE Aside
  <2>1. /\ UNCHANGED <<committed, ckpt, icebergN, inflight, written, status>>
        /\ Base' = Base /\ Here' = Here
    BY <1>1 DEF Aside, Base, Here
  <2>2. /\ Len(log') \in Nat /\ Len(log) <= Len(log') /\ clock \in Nat /\ clock' \in Nat
        /\ \A i \in 1 .. Len(log) : log[i].ts \in Nat /\ log'[i] = log[i]
        /\ clock <= clock'
    BY <1>0, <1>1, LogGrows, LogRecords DEF TypeOK
  <2>3. icebergN < ckpt.n => Leads(log', clock', committed, ckpt, Leg1)
    <3> HIDE DEF Leg1
    <3>1. icebergN < ckpt.n => Leads(log, clock, committed, ckpt, Leg1) BY DEF PrefixInv, Leg1
    <3> QED BY <1>0, <2>2, <3>1, LeadsGrown
  <2>4. UnderWay => Leads(log', clock', ckpt, inflight, Leg2)
    <3> HIDE DEF Leg2
    <3>1. UnderWay => Leads(log, clock, ckpt, inflight, Leg2) BY DEF PrefixInv, Leg2
    <3> QED BY <1>0, <2>2, <3>1, LeadsGrown
  <2>5. status = "running" => Leads(log', clock', Base, Here, Leg3)
    <3> HIDE DEF Leg3
    <3>1. status = "running" => Leads(log, clock, Base, Here, Leg3) BY DEF PrefixInv, Leg3
    <3> QED BY <1>0, <2>2, <3>1, LeadsGrown
  <2> QED BY <2>1, <2>3, <2>4, <2>5 DEF PrefixInv, PositionOf
<1>2. CASE DropDuplicate \/ DropLate \/ Apply
  <2>1. UNCHANGED <<log, clock, committed, ckpt, icebergN, inflight, status>>
    BY <1>2 DEF DropDuplicate, DropLate, Apply
  <2>2. Base' = Base BY <2>1 DEF Base
  <2>3. Leads(log, clock, Base, Here', BareRows({r \in written' : r.n > Base.n})) BY <1>2, ConsumeStep
  <2> QED BY <2>1, <2>2, <2>3 DEF PrefixInv, PositionOf
<1>3. CASE KafkaAck
  <2>1. /\ UNCHANGED <<log, clock, committed, ckpt, icebergN, inflight, written, status>>
        /\ Base' = Base /\ Here' = Here
    BY <1>3 DEF KafkaAck, Base, Here
  <2> QED BY <2>1 DEF PrefixInv, PositionOf
<1>4. CASE Barrier
  <2>1. /\ UNCHANGED <<log, clock, committed, ckpt, icebergN, written, status>> /\ Here' = Here
        /\ status = "running" /\ ~ UnderWay
        /\ inflight' = [n |-> epoch, offset |-> offset, lastSeen |-> lastSeen,
                        book |-> book, written |-> written]
    BY <1>4 DEF Barrier, Here
  <2>2. inflight'.n = epoch /\ NoCheckpoint.n = 0 BY <2>1 DEF NoCheckpoint
  <2>3. Base = ckpt /\ Base' = inflight' BY <1>0, <2>1, <2>2 DEF Base
  <2>4. Leads(log, clock, ckpt, inflight', Leg3)
    <3>1. Leads(log, clock, ckpt, Here, Leg3) BY <2>1, <2>3 DEF PrefixInv
    <3>2. /\ inflight'.offset = Here.offset /\ inflight'.lastSeen = Here.lastSeen
          /\ inflight'.book = Here.book
      BY <2>1 DEF Here
    <3> HIDE DEF Leg3
    <3> QED BY <3>1, <3>2, LeadsFields
  <2>5. BareRows({r \in written' : r.n > Base'.n}) = {}
    <3>1. {r \in written' : r.n > Base'.n} = {} BY <1>0, <2>1, <2>2, <2>3 DEF FilesInv
    <3> QED BY <3>1 DEF BareRows
  <2>6. Leads(log, clock, Base', Here', {})
    <3>1. /\ Base'.offset \in Nat /\ Base'.offset <= Len(log) /\ Here'.offset = Base'.offset
          /\ Here'.lastSeen = Base'.lastSeen /\ Here'.book = Base'.book
      BY <1>0, <2>1, <2>3 DEF TypeOK, Here
    <3> QED BY <3>1, LeadsNowhere
  <2> QED BY <2>1, <2>3, <2>4, <2>5, <2>6 DEF PrefixInv, PositionOf
<1>5. CASE Complete
  <2>1. /\ UnderWay /\ ckpt' = inflight /\ ~ UnderWay' /\ status = "running"
        /\ UNCHANGED <<log, clock, committed, icebergN, written, status>> /\ Here' = Here
    BY <1>0, <1>5 DEF Complete, Here, NumbersInv
  <2>2. Base = inflight /\ Base' = inflight BY <2>1 DEF Base
  <2>3. icebergN < inflight.n /\ icebergN <= ckpt.n /\ ckpt.n < inflight.n
        /\ ckpt.offset < inflight.offset
    BY <1>0, <2>1 DEF NumbersInv
  <2>4. Leads(log, clock, ckpt, inflight, Leg2) BY <2>1 DEF PrefixInv
  <2> DEFINE Both == BareRows({r \in inflight.written : r.n > icebergN})
  <2>5. committed.offset < inflight.offset /\ Leads(log, clock, committed, inflight, Both)
    <3>1. CASE icebergN < ckpt.n
      <4>1. committed.offset < ckpt.offset /\ Leads(log, clock, committed, ckpt, Leg1)
        BY <3>1 DEF PrefixInv
      <4>2. {r \in inflight.written : r.n > icebergN}
              = {r \in ckpt.written : r.n > icebergN} \cup {r \in inflight.written : r.n > ckpt.n}
        <5>1. {r \in written : r.n <= ckpt.n} = {r \in ckpt.written : r.n > icebergN}
          BY <1>0, <2>1 DEF FilesInv
        <5>2. {r \in written : r.n <= inflight.n} = {r \in inflight.written : r.n > icebergN}
          BY <1>0, <2>1 DEF FilesInv
        <5>3. {r \in written : r.n <= ckpt.n} \subseteq {r \in written : r.n <= inflight.n}
          BY <1>0, <2>3
        <5>4. \A r \in {q \in inflight.written : q.n > icebergN} :
                 r.n > ckpt.n \/ r \in {q \in written : q.n <= ckpt.n}
          BY <1>0, <5>2
        <5> QED BY <1>0, <2>3, <5>1, <5>2, <5>3, <5>4
      <4>3. Both = Leg1 \cup Leg2 BY <4>2 DEF BareRows
      <4>4. Leads(log, clock, committed, inflight, Leg1 \cup Leg2)
        <5> HIDE DEF Leg1, Leg2
        <5> QED BY <1>0, <2>4, <4>1, LeadsThrough
      <4> HIDE DEF Both, Leg1, Leg2
      <4> QED BY <1>0, <2>3, <4>1, <4>3, <4>4
    <3>2. CASE icebergN = ckpt.n
      <4>1. committed = PositionOf(ckpt) BY <3>2 DEF PrefixInv
      <4>2. Both = Leg2 BY <3>2
      <4>3. /\ committed.offset = ckpt.offset /\ committed.lastSeen = ckpt.lastSeen
            /\ committed.book = ckpt.book
        BY <4>1 DEF PositionOf
      <4>4. Leads(log, clock, committed, inflight, Leg2)
        <5> HIDE DEF Leg2
        <5> QED BY <2>4, <4>3, LeadsFields
      <4> HIDE DEF Both, Leg2
      <4> QED BY <2>3, <4>2, <4>3, <4>4
    <3> QED BY <1>0, <2>3, <3>1, <3>2
  <2> QED BY <1>0, <2>1, <2>2, <2>3, <2>5 DEF PrefixInv
<1>6. CASE Commit
  <2>1. /\ written' = {r \in written : r.n > ckpt.n} /\ icebergN' = ckpt.n
        /\ committed' = PositionOf(ckpt)
        /\ UNCHANGED <<log, clock, ckpt, inflight, status>> /\ Here' = Here
    BY <1>6 DEF Commit, Here
  <2>2. Base' = Base /\ Base.n \in Nat /\ ckpt.n <= Base.n
    BY <1>0, <2>1 DEF Base, NumbersInv
  <2>3. {r \in written' : r.n > Base.n} = {r \in written : r.n > Base.n}
    BY <1>0, <2>1, <2>2
  <2>4. ~ (icebergN' < ckpt'.n) /\ committed' = PositionOf(ckpt)' BY <1>0, <2>1 DEF PositionOf
  <2>5. UnderWay' => Leads(log, clock, ckpt', inflight', BareRows({r \in inflight'.written : r.n > ckpt'.n}))
    BY <2>1 DEF PrefixInv
  <2>6. status' = "running"
          => Leads(log', clock', Base', Here', BareRows({r \in written' : r.n > Base'.n}))
    BY <2>1, <2>2, <2>3 DEF PrefixInv
  <2> HIDE DEF UnderWay
  <2> QED BY <2>1, <2>4, <2>5, <2>6 DEF PrefixInv
<1>7. CASE Restore
  <2>1. /\ written' = {} /\ icebergN' = ckpt.n /\ committed' = PositionOf(ckpt) /\ ~ UnderWay'
        /\ UNCHANGED <<log, clock, ckpt, inflight>>
        /\ offset' = ckpt.offset /\ lastSeen' = ckpt.lastSeen /\ book' = ckpt.book
    BY <1>0, <1>7 DEF Restore, NumbersInv
  <2>2. Base' = ckpt /\ BareRows({r \in written' : r.n > Base'.n}) = {}
    BY <2>1 DEF Base, BareRows
  <2>3. Leads(log, clock, ckpt, Here', {})
    <3>1. /\ Here'.offset = ckpt.offset /\ Here'.lastSeen = ckpt.lastSeen
          /\ Here'.book = ckpt.book /\ ckpt.offset <= Len(log)
      BY <1>0, <2>1 DEF Here, NumbersInv
    <3> QED BY <1>0, <3>1, LeadsNowhere
  <2>4. ~ (icebergN' < ckpt'.n) /\ committed' = PositionOf(ckpt)' BY <1>0, <2>1 DEF PositionOf
  <2>5. Leads(log', clock', Base', Here', BareRows({r \in written' : r.n > Base'.n}))
    BY <2>1, <2>2, <2>3
  <2> HIDE DEF UnderWay
  <2> QED BY <2>1, <2>4, <2>5 DEF PrefixInv
<1>8. CASE status = "running" /\ Lose
  <2>1. /\ ~ UnderWay' /\ status' # "running"
        /\ UNCHANGED <<log, clock, committed, ckpt, icebergN>>
    BY <1>8 DEF Lose
  <2> QED BY <2>1 DEF PrefixInv, PositionOf
<1> QED BY <1>0, <1>1, <1>2, <1>3, <1>4, <1>5, <1>6, <1>7, <1>8, Steps


(* What TickerTable's Advance asks of a commit of the checkpoint's files. *)
LEMMA CommitAdvances ==
  ASSUME IInv, PrefixInv, icebergN < ckpt.n, UNCHANGED <<log, clock>>, committed' = PositionOf(ckpt),
         Rows' = Rows \cup Uncommitted(ckpt)
  PROVE  Silver!Advance
<1>1. /\ committed.offset \in Nat /\ ckpt.offset \in Nat /\ Len(log) \in Nat
      /\ ckpt.offset <= Len(log)
  BY DEF IInv, TypeOK, NumbersInv, Checkpoint, Position
<1> DEFINE new == BareRows(Uncommitted(ckpt))
<1>2. committed.offset < ckpt.offset /\ Leads(log, clock, committed, ckpt, new) BY DEF PrefixInv
<1>3. /\ \A i \in (committed.offset + 1) .. ckpt.offset : log[i].id # NoRecord
      /\ \E late \in Silver!LateSets(ckpt.offset) :
            Silver!TakeAll(ckpt.offset, late) = Reached(ckpt, new)
  <2> HIDE DEF new
  <2> QED BY <1>1, <1>2, LeadsTakeAll
<1>4. PICK late \in Silver!LateSets(ckpt.offset) :
         Silver!TakeAll(ckpt.offset, late) = Reached(ckpt, new)
  BY <1>3
<1>5. ckpt.offset \in (committed.offset + 1) .. Len(log) BY <1>1, <1>2
<1>6. /\ committed'.offset = ckpt.offset /\ committed'.lastSeen = ckpt.lastSeen
      /\ committed'.book = ckpt.book
  BY DEF PositionOf
<1>7. BareRows(Rows)' = BareRows(Rows) \cup new BY DEF BareRows
<1>8. LET st == Silver!TakeAll(ckpt.offset, late)
      IN  /\ committed'.lastSeen = st.seen /\ committed'.book = st.book
          /\ BareRows(Rows)' = BareRows(Rows) \cup st.rows
  <2>1. Reached(ckpt, new).seen = ckpt.lastSeen /\ Reached(ckpt, new).book = ckpt.book
        /\ Reached(ckpt, new).rows = new
    BY DEF Reached
  <2> HIDE DEF new
  <2> QED BY <1>4, <1>6, <1>7, <2>1
<1>9. BareRows(Rows) = {[off |-> r.off, id |-> r.id, bid |-> r.bid, ask |-> r.ask] : r \in BagToSet(iceberg)}
  BY DEF BareRows, Bare, Rows
<1>10. BareRows(Rows)' = {[off |-> r.off, id |-> r.id, bid |-> r.bid, ask |-> r.ask] : r \in BagToSet(iceberg')}
  BY DEF BareRows, Bare, Rows
<1> QED BY <1>3, <1>5, <1>6, <1>8, <1>9, <1>10 DEF Silver!Advance

LEMMA RefinementStep ==
  ASSUME IInv, IInv', PrefixInv, [Next]_vars
  PROVE  [Silver!Next]_(Silver!vars)
<1> USE DEF stateVars, sinkVars, ckptVars, tableVars, jobVars, externalVars, Uncommitted
<1>0. TypeOK /\ TypeOK' /\ NumbersInv /\ FilesInv BY DEF IInv
<1>1. CASE UNCHANGED <<log, clock, committed, iceberg>>
  BY <1>1 DEF Silver!vars
<1>2. CASE Aside
  <2>1. UNCHANGED <<committed, iceberg>> BY <1>2 DEF Aside
  <2>2. /\ clock <= clock' /\ clock \in Nat /\ clock' \in Nat
        /\ log' # log => /\ Len(log') = Len(log) + 1 /\ SubSeq(log', 1, Len(log)) = log
                         /\ UNCHANGED clock
    BY <1>0, <1>2, LogGrows DEF TypeOK
  <2>3. log' # log => Silver!Arrive BY <2>1, <2>2 DEF Silver!Arrive
  <2>4. log' = log => Silver!Tick BY <2>1, <2>2 DEF Silver!Tick
  <2> QED BY <2>3, <2>4 DEF Silver!Next
<1>3. CASE Commit
  <2>1. icebergN < ckpt.n /\ UNCHANGED <<log, clock>> /\ committed' = PositionOf(ckpt)
    BY <1>3 DEF Commit
  <2>2. Rows' = Rows \cup Uncommitted(ckpt) BY <1>0, <1>3, CommitAdds
  <2> QED BY <2>1, <2>2, CommitAdvances DEF Silver!Next
<1>4. CASE Restore
  <2>1. UNCHANGED <<log, clock>> /\ committed' = PositionOf(ckpt)
        /\ Rows' = Rows \cup Uncommitted(ckpt)
    BY <1>0, <1>4, RestoreAdds DEF Restore
  <2>2. CASE icebergN < ckpt.n
    BY <2>1, <2>2, CommitAdvances DEF Silver!Next
  <2>3. CASE icebergN = ckpt.n
    <3>1. committed' = committed BY <2>1, <2>3 DEF PrefixInv
    <3>2. {r \in ckpt.written : r.n > icebergN} = {}
      BY <1>0, <2>3, NaturalNumbers DEF FilesInv
    <3>3. Rows' = Rows BY <2>1, <3>2
    <3> QED BY <2>1, <3>1, <3>3 DEF Silver!vars, Rows
  <2>4. icebergN < ckpt.n \/ icebergN = ckpt.n BY <1>0, NaturalNumbers DEF NumbersInv
  <2> QED BY <2>2, <2>3, <2>4
<1>5. CASE DropDuplicate \/ DropLate \/ Apply \/ KafkaAck \/ Barrier \/ Complete \/ Lose
  BY <1>1, <1>5 DEF DropDuplicate, DropLate, Apply, KafkaAck, Barrier, Complete, Lose
<1> QED BY <1>0, <1>2, <1>3, <1>4, <1>5, Steps

(* The silver table and the position of its last commit move along the raw  *)
(* topic as TickerTable says, whatever the job goes through in between.     *)
THEOREM Refinement == Spec => ImplementsTickerTable
<1>1. Init => Silver!Init
  BY DEF Init, Silver!Init, Silver!EmptyBook, EmptyBook, EmptyBag, SetToBag, BagToSet
<1>2. IInv /\ IInv' /\ PrefixInv /\ [Next]_vars => PrefixInv' BY PrefixStep
<1>3. IInv /\ IInv' /\ PrefixInv /\ [Next]_vars => [Silver!Next]_(Silver!vars)
  BY RefinementStep
<1> QED BY InitPrefix, InductiveInvariant, <1>1, <1>2, <1>3, PTL
        DEF Spec, ImplementsTickerTable, Silver!Spec

=============================================================================
