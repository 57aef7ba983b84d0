---------------------------- MODULE NormalizeJob ----------------------------
(***************************************************************************)
(* Flink job 1, flink/jobs/normalize.py, for one key exchange#symbol: the  *)
(* Kafka source, the keyed OrderBookProcessor, the Iceberg sink and the    *)
(* Kafka sink of the SQL files, under Flink's EXACTLY_ONCE checkpoints and *)
(* the failure-rate restart strategy that main() configures.               *)
(*                                                                         *)
(* Covered: every path of process_element, records that cannot be keyed,   *)
(* the checkpoint as barrier, completion and commit, crashes between any   *)
(* two of these, restore, and giving up after too many failures.           *)
(* Not covered: the derived metrics of a row (spread, mid, imbalance),     *)
(* several keys in one operator, rescaling, checkpoints of an idle job     *)
(* (they change nothing).                                                  *)
(***************************************************************************)
EXTENDS Ticker, Sequences, Bags

CONSTANTS
    Diffs,          \* the diffs records may carry
    LateAfter,      \* Config.LATE_THRESHOLD_SECONDS, in clock ticks
    MaxFailures,    \* failures within failure_interval that are tolerated
    MaxLog,         \* bound of the checks: records in the raw topic
    MaxCopies,      \* bound of the checks: records replayed into the raw topic
    MaxBad,         \* bound of the checks: records that are not valid JSON
    MaxClock,       \* bound of the checks: clock ticks
    MaxCrashes,     \* bound of the checks: crashes other than by a bad record
    MaxExpired      \* bound of the checks: failures that leave the interval

ASSUME BoundsAssumption ==
    /\ Diffs \subseteq Diff
    /\ {LateAfter, MaxFailures, MaxLog, MaxCopies, MaxBad, MaxClock, MaxCrashes,
     MaxExpired}
          \subseteq Nat

VARIABLES
    log,        \* market.raw.orderbook: the partition of this symbol
    clock,      \* wall clock
    status,     \* of the job: "running", "restarting", "failed"
    failures,   \* failures within the last failure_interval
    expired,    \* failures before that
    crashes,    \* failures that a bad record did not cause
    offset,     \* Kafka source: records consumed
    lastSeen,   \* keyed state last_update_id; 0 is None
    book,       \* keyed state book
    epoch,      \* number of the checkpoint that comes next
    written,    \* Iceberg sink: rows not committed, in data files or a manifest
    kafkaBuf,   \* Kafka sink: rows handed to the producer, not acknowledged
    inflight,   \* the checkpoint whose barrier has passed, before completion
    ckpt,       \* the last completed checkpoint
    iceberg,    \* normalized.book_ticker: how often each row is committed
    icebergN,   \* flink.max-committed-checkpoint-id in the table's metadata
    kafka,      \* market.normalized.book_ticker: acknowledged rows
    committed   \* history: offset, last id and book of the last commit

externalVars == <<log, clock>>
stateVars    == <<offset, lastSeen, book>>
sinkVars     == <<written, kafkaBuf>>
ckptVars     == <<epoch, inflight, ckpt>>
tableVars    == <<iceberg, icebergN, committed>>
jobVars      == <<status, failures, expired, crashes>>
vars == <<externalVars, stateVars, sinkVars, ckptVars, tableVars, jobVars, kafka>>

-----------------------------------------------------------------------------
(* Records, rows and checkpoints.                                           *)

(* A bad record has no id: json.loads raises on it.                         *)
NoRecord == 0
EmptyDiff == [l \in {} |-> 0]
BadRecord == [id |-> NoRecord, ts |-> 0, at |-> 0, diff |-> EmptyDiff]

(* ts is the event time, at the time the record was appended to the topic.  *)
Record == [id : Nat, ts : Nat, at : Nat, diff : Diff]

(* A row of the sinks: the checkpoint it belongs to, the Kafka offset and   *)
(* update id of its record, the best prices.  The files of one checkpoint   *)
(* hold a row once: nothing rewinds the offset without emptying written.    *)
(* The table is a bag: committing a file again repeats its rows.            *)
Row == [n : Nat, off : Nat, id : Nat, bid : BidPrice, ask : AskPrice]

Checkpoint == [n : Nat, offset : Nat, lastSeen : Nat, book : Book, written : SUBSET Row]

(* Before the first checkpoint: earliest-offset and no keyed state.         *)
NoCheckpoint == [n |-> 0, offset |-> 0, lastSeen |-> 0, book |-> EmptyBook, written |-> {}]

Position == [offset : Nat, lastSeen : Nat, book : Book]

Ids(S) == {r.id : r \in S}

(* The table after an append of data files with these rows. *)
WithFiles(rows) == iceberg (+) SetToBag(rows)

Init ==
    /\ log = <<>> /\ clock = 0
    /\ status = "running" /\ failures = 0 /\ expired = 0 /\ crashes = 0
    /\ offset = 0 /\ lastSeen = 0 /\ book = EmptyBook
    /\ epoch = 1 /\ written = {} /\ kafkaBuf = <<>>
    /\ inflight = NoCheckpoint /\ ckpt = NoCheckpoint
    /\ iceberg = EmptyBag /\ icebergN = 0 /\ kafka = <<>>
    /\ committed = [offset |-> 0, lastSeen |-> 0, book |-> EmptyBook]

-----------------------------------------------------------------------------
(* The raw topic and the clock.                                             *)

(* The ingest client appends the next event; ids only grow. *)
Ingest ==
    /\ Len(log) < MaxLog
    /\ \E d \in Diffs :
          log' = Append(log, [id |-> 1 + Max({0} \cup {log[i].id : i \in 1 .. Len(log)}),
                              ts |-> clock, at |-> clock, diff |-> d])
    /\ UNCHANGED <<clock, stateVars, sinkVars, ckptVars, tableVars, jobVars, kafka>>

Copies == {i \in 1 .. Len(log) : \E j \in 1 .. (i - 1) : log[j].id = log[i].id}

(* A replay produces an earlier record again, with its event time. *)
ReplayCopy ==
    /\ Len(log) < MaxLog
    /\ Cardinality(Copies) < MaxCopies
    /\ \E i \in 1 .. Len(log) :
          /\ log[i].id # NoRecord
          /\ log' = Append(log, [log[i] EXCEPT !.at = clock])
    /\ UNCHANGED <<clock, stateVars, sinkVars, ckptVars, tableVars, jobVars, kafka>>

(* Something that is not an order-book event reaches the topic. *)
BadArrives ==
    /\ Len(log) < MaxLog
    /\ Cardinality({i \in 1 .. Len(log) : log[i].id = NoRecord}) < MaxBad
    /\ log' = Append(log, BadRecord)
    /\ UNCHANGED <<clock, stateVars, sinkVars, ckptVars, tableVars, jobVars, kafka>>

Tick ==
    /\ clock < MaxClock
    /\ clock' = clock + 1
    /\ UNCHANGED <<log, stateVars, sinkVars, ckptVars, tableVars, jobVars, kafka>>

-----------------------------------------------------------------------------
(* OrderBookProcessor.process_element().                                    *)

Current == log[offset + 1]

(* A record is at hand, and json.loads and _kafka_key accept it. *)
AtRecord ==
    /\ status = "running"
    /\ offset < Len(log)
    /\ Current.id # NoRecord

(* Mutant of Duplicate: "<" for "<=", an id equal to the last one passes.   *)
DuplicateStrict(r) == r.id < lastSeen

(* Step 1: last_update_id <= last_seen (None is 0, ids start at 1).         *)
Duplicate(r) == r.id <= lastSeen

(* Mutant of Late: ">=" for ">".                                             *)
LateAtThreshold(r) == clock - r.ts >= LateAfter

(* Step 2: lag_s > LATE_THRESHOLD_SECONDS, by the clock of this attempt.    *)
Late(r) == clock - r.ts > LateAfter

RowOf(r, b) == [n |-> epoch, off |-> offset + 1, id |-> r.id,
                bid |-> BestBid(b), ask |-> BestAsk(b)]

DropDuplicate ==
    /\ AtRecord
    /\ Duplicate(Current)
    /\ offset' = offset + 1
    /\ UNCHANGED <<externalVars, lastSeen, book, sinkVars, ckptVars, tableVars, jobVars, kafka>>

(* The id is recorded before the record is found late: it is gone for good. *)
DropLate ==
    /\ AtRecord
    /\ ~ Duplicate(Current)
    /\ Late(Current)
    /\ offset' = offset + 1
    /\ lastSeen' = Current.id
    /\ UNCHANGED <<externalVars, book, sinkVars, ckptVars, tableVars, jobVars, kafka>>

(* Steps 3 and 4: apply the diff; a row goes to both sinks of insert.sql    *)
(* once both sides have a level.                                            *)
Apply ==
    /\ AtRecord
    /\ ~ Duplicate(Current)
    /\ ~ Late(Current)
    /\ offset' = offset + 1
    /\ lastSeen' = Current.id
    /\ book' = ApplyDepthDiff(book, Current.diff)
    /\ \/ /\ ~ TwoSided(book')
          /\ UNCHANGED sinkVars
       \/ /\ TwoSided(book')
          /\ written' = written \cup {RowOf(Current, book')}
          /\ kafkaBuf' = Append(kafkaBuf, RowOf(Current, book'))
    /\ UNCHANGED <<externalVars, ckptVars, tableVars, jobVars, kafka>>

(* The Kafka producer sends in the background, in order. *)
KafkaAck ==
    /\ status = "running"
    /\ kafkaBuf # <<>>
    /\ kafka' = Append(kafka, Head(kafkaBuf))
    /\ kafkaBuf' = Tail(kafkaBuf)
    /\ UNCHANGED <<externalVars, stateVars, written, ckptVars, tableVars, jobVars>>

-----------------------------------------------------------------------------
(* Checkpoints.                                                             *)

(* Mutant of Barrier: sink.delivery-guarantee = none, nothing is flushed.   *)
BarrierNoFlush ==
    /\ status = "running"
    /\ inflight = NoCheckpoint
    /\ offset > ckpt.offset
    /\ inflight' = [n |-> epoch, offset |-> offset, lastSeen |-> lastSeen,
                    book |-> book, written |-> written]
    /\ epoch' = epoch + 1
    /\ UNCHANGED <<externalVars, stateVars, sinkVars, ckpt, tableVars, jobVars, kafka>>

(* Mutant of Barrier: env.enable_checkpointing() is not called. *)
BarrierNever == FALSE /\ UNCHANGED vars

(* The barrier passes through the job: the offset, the keyed state and the  *)
(* uncommitted files form the checkpoint, and the at-least-once Kafka sink  *)
(* waits for what it has sent.                                              *)
Barrier ==
    /\ status = "running"
    /\ inflight = NoCheckpoint
    /\ offset > ckpt.offset
    /\ inflight' = [n |-> epoch, offset |-> offset, lastSeen |-> lastSeen,
                    book |-> book, written |-> written]
    /\ epoch' = epoch + 1
    /\ kafka' = kafka \o kafkaBuf
    /\ kafkaBuf' = <<>>
    /\ UNCHANGED <<externalVars, stateVars, written, ckpt, tableVars, jobVars>>

(* All operators have acknowledged: from here a restore starts at inflight. *)
Complete ==
    /\ inflight # NoCheckpoint
    /\ ckpt' = inflight
    /\ inflight' = NoCheckpoint
    /\ UNCHANGED <<externalVars, stateVars, sinkVars, epoch, tableVars, jobVars, kafka>>

PositionOf(c) == [offset |-> c.offset, lastSeen |-> c.lastSeen, book |-> c.book]

(* notifyCheckpointComplete: the Iceberg committer commits the files of the *)
(* completed checkpoint and of any before it.                               *)
Commit ==
    /\ status = "running"
    /\ icebergN < ckpt.n
    /\ iceberg' = WithFiles({r \in written : r.n <= ckpt.n})
    /\ written' = {r \in written : r.n > ckpt.n}
    /\ icebergN' = ckpt.n
    /\ committed' = PositionOf(ckpt)
    /\ UNCHANGED <<externalVars, stateVars, kafkaBuf, ckptVars, jobVars, kafka>>

-----------------------------------------------------------------------------
(* Failure and restore.                                                     *)

(* Everything outside checkpoint storage and the sinks' tables is lost. *)
Lose ==
    /\ failures' = failures + 1
    /\ status' = IF failures + 1 > MaxFailures THEN "failed" ELSE "restarting"
    /\ offset' = 0 /\ lastSeen' = 0 /\ book' = EmptyBook
    /\ written' = {} /\ kafkaBuf' = <<>>
    /\ inflight' = NoCheckpoint
    /\ UNCHANGED <<externalVars, epoch, ckpt, tableVars, expired, kafka>>

(* A TaskManager dies, or a sink throws. *)
Crash ==
    /\ status = "running"
    /\ crashes < MaxCrashes
    /\ crashes' = crashes + 1
    /\ Lose

(* _kafka_key() raises on the record: nothing in main() filters it. *)
BadRecordFails ==
    /\ status = "running"
    /\ offset < Len(log)
    /\ Current.id = NoRecord
    /\ crashes' = crashes
    /\ Lose

(* Mutant of Restore: the files of a checkpoint whose commit a crash        *)
(* preceded are not committed again.                                        *)
RestoreForgetsFiles ==
    /\ status = "restarting"
    /\ status' = "running"
    /\ offset' = ckpt.offset /\ lastSeen' = ckpt.lastSeen /\ book' = ckpt.book
    /\ icebergN' = ckpt.n
    /\ committed' = PositionOf(ckpt)
    /\ UNCHANGED <<externalVars, sinkVars, ckptVars, iceberg, failures, expired, crashes, kafka>>

(* Mutant of Restore: the keyed state is not restored with the offset. *)
RestoreNoKeyedState ==
    /\ status = "restarting"
    /\ status' = "running"
    /\ offset' = ckpt.offset
    /\ iceberg' = WithFiles({r \in ckpt.written : r.n > icebergN})
    /\ icebergN' = ckpt.n
    /\ committed' = PositionOf(ckpt)
    /\ UNCHANGED <<externalVars, lastSeen, book, sinkVars, ckptVars, failures, expired, crashes, kafka>>

(* Mutant of Restore: the committer does not ask the table what it has.     *)
RestoreCommitsAgain ==
    /\ status = "restarting"
    /\ status' = "running"
    /\ offset' = ckpt.offset /\ lastSeen' = ckpt.lastSeen /\ book' = ckpt.book
    /\ iceberg' = WithFiles(ckpt.written)
    /\ icebergN' = ckpt.n
    /\ committed' = PositionOf(ckpt)
    /\ UNCHANGED <<externalVars, sinkVars, ckptVars, failures, expired, crashes, kafka>>

(* The job restarts from the last completed checkpoint.  The Iceberg        *)
(* committer commits the files it finds there, except those of a checkpoint *)
(* the table says it already has.                                           *)
Restore ==
    /\ status = "restarting"
    /\ status' = "running"
    /\ offset' = ckpt.offset /\ lastSeen' = ckpt.lastSeen /\ book' = ckpt.book
    /\ iceberg' = WithFiles({r \in ckpt.written : r.n > icebergN})
    /\ icebergN' = ckpt.n
    /\ committed' = PositionOf(ckpt)
    /\ UNCHANGED <<externalVars, sinkVars, ckptVars, failures, expired, crashes, kafka>>

(* A failure is more than failure_interval ago. *)
FailureExpires ==
    /\ failures > 0 /\ status # "failed"
    /\ expired < MaxExpired
    /\ failures' = failures - 1 /\ expired' = expired + 1
    /\ UNCHANGED <<externalVars, stateVars, sinkVars, ckptVars, tableVars, status, crashes, kafka>>

-----------------------------------------------------------------------------
External == Ingest \/ ReplayCopy \/ BadArrives \/ Tick

Process == DropDuplicate \/ DropLate \/ Apply \/ BadRecordFails

Checkpointing == Barrier \/ Complete \/ Commit

Next == External \/ Process \/ KafkaAck \/ Checkpointing \/ Crash \/ Restore
        \/ FailureExpires

Spec == Init /\ [][Next]_vars

(***************************************************************************)
(* Flink runs the source, triggers a checkpoint every                      *)
(* checkpoint_interval_ms, notifies the committer and restarts a failed    *)
(* job: each goes on as long as the job is not failed.  Nothing is assumed *)
(* of the topic, the clock or crashes.                                     *)
(***************************************************************************)
FairSpec == Spec /\ WF_vars(Process) /\ WF_vars(Barrier) /\ WF_vars(Complete)
                 /\ WF_vars(Commit) /\ WF_vars(Restore)

-----------------------------------------------------------------------------
(* Properties.                                                              *)

(* The types of the job's state and of what it has stored. *)
TypeOK ==
    /\ log \in Seq(Record) /\ clock \in Nat
    /\ status \in {"running", "restarting", "failed"}
    /\ failures \in Nat /\ expired \in Nat /\ crashes \in Nat
    /\ offset \in 0 .. Len(log) /\ lastSeen \in Nat /\ book \in Book
    /\ epoch \in Nat \ {0} /\ written \subseteq Row /\ kafkaBuf \in Seq(Row)
    /\ inflight \in Checkpoint /\ ckpt \in Checkpoint
    /\ IsABag(iceberg) /\ BagToSet(iceberg) \subseteq Row /\ icebergN \in Nat /\ kafka \in Seq(Row)
    /\ committed \in Position

(* sink_iceberg.sql: "one row per (exchange, symbol, last_update_id)".  No  *)
(* crash between barrier, completion and commit, and no replayed record,    *)
(* puts a second row of an update id into the silver table: neither another *)
(* row, nor the same one by a second commit of the files that hold it.      *)
OneRowPerUpdate ==
    \A r \in BagToSet(iceberg) :
        /\ iceberg[r] = 1
        /\ \A s \in BagToSet(iceberg) : r.id = s.id => r = s

(* What is in the silver table has been acknowledged by Kafka: the Kafka    *)
(* sink may be ahead of the table, never behind it.                         *)
KafkaCoversIceberg ==
    Ids(BagToSet(iceberg)) \subseteq {kafka[i].id : i \in 1 .. Len(kafka)}

(* The silver table, with the position its last commit stands for, moves    *)
(* along the raw topic as TickerTable says: from one prefix to a longer     *)
(* one, each row computed from the book of the records before it, none      *)
(* missing but the duplicates and those found late, and none found late     *)
(* that was within the threshold.                                           *)
Silver == INSTANCE TickerTable WITH
              upto  <- committed.offset,
              seen  <- committed.lastSeen,
              book  <- committed.book,
              table <- {[off |-> r.off, id |-> r.id, bid |-> r.bid, ask |-> r.ask] :
                            r \in BagToSet(iceberg)}

ImplementsTickerTable == Silver!Spec

(* When the raw topic stops growing, wherever that is, every record is      *)
(* accounted for in the silver table, unless the job has failed for good.   *)
(* (MaxLog stops it: no behaviour of the instance grows it for ever.)       *)
EveryRecordCommitted == []<>(committed.offset = Len(log) \/ status = "failed")

(* "Malformed input: routed to DLQ, not crashed": the job gets past every   *)
(* record.                                                                  *)
MalformedIsPassed ==
    \A k \in 1 .. MaxLog : Len(log) >= k ~> offset >= k
=============================================================================
