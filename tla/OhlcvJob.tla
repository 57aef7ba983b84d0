------------------------------ MODULE OhlcvJob ------------------------------
(***************************************************************************)
(* Flink job 2, flink/jobs/ohlcv_1m.py: event-time windows of one minute    *)
(* over market.normalized.book_ticker, for one exchange and symbol.  The    *)
(* topic has several partitions and its producer, job 1, no key and         *)
(* at-least-once delivery; the watermark trails the slowest partition; the  *)
(* Iceberg sink commits with the checkpoints.                               *)
(*                                                                         *)
(* Not covered: prices and volumes (a bar is the records it is made of),    *)
(* several symbols (they share the watermark and nothing else).             *)
(***************************************************************************)
EXTENDS Integers, Sequences, FiniteSetsExt

CONSTANTS
    Partition,     \* partitions of market.normalized.book_ticker
    Width,         \* of a window
    Delay,         \* of the watermark
    Ticks,         \* event time and price of the ticks there are
    MaxFailures,   \* failures within failure_interval that are tolerated
    MaxTicks,      \* bound of the checks: ticks of job 1
    MaxRepeats,    \* bound of the checks: ticks job 1 produces again
    MaxCrashes     \* bound of the checks: crashes of this job

ASSUME PartitionAssumption == Partition # {} /\ IsFiniteSet(Partition)
ASSUME TimeAssumption == Width \in Nat \ {0} /\ Delay \in Nat
ASSUME TickAssumption == Ticks \subseteq [ts : Nat, priced : BOOLEAN]
ASSUME BoundAssumption ==
    {MaxFailures, MaxTicks, MaxRepeats, MaxCrashes} \subseteq Nat

VARIABLES
    topic,      \* by partition
    ticks,      \* ticks job 1 has made; the next one has this number
    repeats,    \* records that repeat one
    status,     \* of the job: "running", "restarting", "failed"
    failures,   \* failures within failure_interval
    offset,     \* by partition: records consumed
    maxTs,      \* by partition: latest event time since the job started
    wm,         \* watermark of the window operator
    open,       \* records in windows that have not fired
    late,       \* history: records the operator has dropped
    written,    \* bars in data files since the last barrier
    saved,      \* the checkpoint under way
    ckpt,       \* the last completed checkpoint
    pending,    \* its bars are not committed yet
    bars        \* normalized.ohlcv_1m

topicVars == <<topic, ticks, repeats>>
jobVars   == <<status, failures>>
stateVars == <<offset, wm, open, late>>
ckptVars  == <<saved, ckpt>>
tableVars == <<pending, bars>>
vars == <<topicVars, jobVars, stateVars, maxTs, written, ckptVars, tableVars>>

Tick == [id : Nat, ts : Nat, priced : BOOLEAN]
Ref  == Partition \X (Nat \ {0})   \* a record: its partition and place

Record(r) == topic[r[1]][r[2]]

(* TUMBLE(..., INTERVAL '1' MINUTE) *)
WindowOf(r) == Record(r).ts \div Width
WindowEnd(w) == (w + 1) * Width

Bar == [window : Nat, records : SUBSET Ref]

NoTs == -1
NoWatermark == -Delay - 1

(* earliest-offset and no state *)
NoCheckpoint == [offset |-> [p \in Partition |-> 0], wm |-> NoWatermark,
                 open |-> {}, late |-> {}, bars |-> <<>>]
NotUnderWay == [NoCheckpoint EXCEPT !.wm = NoWatermark - 1]

Init ==
    /\ topic = [p \in Partition |-> <<>>] /\ ticks = 0 /\ repeats = 0
    /\ status = "running" /\ failures = 0
    /\ offset = NoCheckpoint.offset /\ maxTs = [p \in Partition |-> NoTs]
    /\ wm = NoWatermark /\ open = {} /\ late = {}
    /\ written = <<>> /\ saved = NotUnderWay /\ ckpt = NoCheckpoint
    /\ pending = FALSE /\ bars = <<>>

-----------------------------------------------------------------------------
(* The topic.  Without a key a record may go to every partition.            *)

Records == {r \in Partition \X (1 .. MaxTicks + MaxRepeats) : r[2] \in DOMAIN topic[r[1]]}

Produce ==
    /\ ticks < MaxTicks
    /\ \E p \in Partition, t \in Ticks :
          topic' = [topic EXCEPT ![p] =
                       Append(@, [id |-> ticks, ts |-> t.ts, priced |-> t.priced])]
    /\ ticks' = ticks + 1
    /\ UNCHANGED <<repeats, jobVars, stateVars, maxTs, written, ckptVars, tableVars>>

(* Job 1 restarts from its checkpoint: its Kafka sink is at-least-once. *)
ProduceAgain ==
    /\ repeats < MaxRepeats
    /\ \E p \in Partition, r \in Records : topic' = [topic EXCEPT ![p] = Append(@, Record(r))]
    /\ repeats' = repeats + 1
    /\ UNCHANGED <<ticks, jobVars, stateVars, maxTs, written, ckptVars, tableVars>>

-----------------------------------------------------------------------------
(* The job.                                                                 *)

(* Window w has been closed when the watermark is mark. *)
Fired(w, mark) == mark >= WindowEnd(w) - 1

(* Mutant of Consume: a record behind the watermark opens its window again. *)
ConsumeLate(p) ==
    /\ status = "running"
    /\ offset[p] < Len(topic[p])
    /\ offset' = [offset EXCEPT ![p] = @ + 1]
    /\ LET r == <<p, offset[p] + 1>>
       IN  /\ maxTs' = [maxTs EXCEPT ![p] = Max({@, Record(r).ts})]
           /\ open' = IF Record(r).priced THEN open \cup {r} ELSE open
    /\ UNCHANGED <<topicVars, jobVars, wm, late, written, ckptVars, tableVars>>

(* A record reaches the operator: without a mid_price it is filtered out,   *)
(* behind the watermark it is dropped. *)
Consume(p) ==
    /\ status = "running"
    /\ offset[p] < Len(topic[p])
    /\ offset' = [offset EXCEPT ![p] = @ + 1]
    /\ LET r == <<p, offset[p] + 1>>
           isLate == Fired(WindowOf(r), wm)
       IN  /\ maxTs' = [maxTs EXCEPT ![p] = Max({@, Record(r).ts})]
           /\ late' = IF Record(r).priced /\ isLate THEN late \cup {r} ELSE late
           /\ open' = IF Record(r).priced /\ ~ isLate THEN open \cup {r} ELSE open
    /\ UNCHANGED <<topicVars, jobVars, wm, written, ckptVars, tableVars>>

(* Mutant of SourceMark: the fastest partition leads. *)
FastestMark == Max({maxTs[p] : p \in Partition}) - Delay

(* Mutant of SourceMark: one less, as forBoundedOutOfOrderness() has it. *)
EarlierMark == Min({maxTs[p] : p \in Partition}) - Delay - 1

(* exchange_event_ts - INTERVAL '5' SECOND, of the slowest partition.  There *)
(* is no idle timeout: a partition that has shown nothing holds it back.     *)
SourceMark == Min({maxTs[p] : p \in Partition}) - Delay

(* A sequence of all the windows, the earliest first. *)
InOrder(seq, windows) ==
    /\ {seq[i] : i \in DOMAIN seq} = windows
    /\ \A i, j \in DOMAIN seq : i < j => seq[i] < seq[j]

(* The watermark moves and every window it has passed gives its bar. *)
EmitWatermark ==
    /\ status = "running"
    /\ SourceMark > wm
    /\ wm' = SourceMark
    /\ LET of(w) == {r \in open : WindowOf(r) = w}
           due == {w \in {WindowOf(r) : r \in open} : Fired(w, wm')}
       IN  /\ \E fired \in [1 .. Cardinality(due) -> due] :
                 /\ InOrder(fired, due)
                 /\ written' = written \o [i \in DOMAIN fired |->
                                              [window |-> fired[i], records |-> of(fired[i])]]
           /\ open' = {r \in open : WindowOf(r) \notin due}
    /\ UNCHANGED <<topicVars, jobVars, offset, maxTs, late, ckptVars, tableVars>>

-----------------------------------------------------------------------------
(* Checkpoints.                                                             *)

State == [offset |-> offset, wm |-> wm, open |-> open, late |-> late, bars |-> written]

(* Mutant of Barrier: the file writer keeps its list of files. *)
BarrierKeepsFiles ==
    /\ status = "running" /\ saved = NotUnderWay /\ ~ pending
    /\ State # [ckpt EXCEPT !.bars = <<>>]
    /\ saved' = State
    /\ UNCHANGED <<topicVars, jobVars, stateVars, maxTs, written, ckpt, tableVars>>

(* The aligned barrier cuts the sources and the operator at one point.  A   *)
(* checkpoint without anything new is left out.  A committer has heard of   *)
(* the last one before: that was a checkpoint interval ago.                 *)
Barrier ==
    /\ status = "running" /\ saved = NotUnderWay /\ ~ pending
    /\ State # [ckpt EXCEPT !.bars = <<>>]
    /\ saved' = State
    /\ written' = <<>>
    /\ UNCHANGED <<topicVars, jobVars, stateVars, maxTs, ckpt, tableVars>>

Complete ==
    /\ saved # NotUnderWay
    /\ ckpt' = saved /\ saved' = NotUnderWay
    /\ pending' = TRUE
    /\ UNCHANGED <<topicVars, jobVars, stateVars, maxTs, written, bars>>

(* On notifyCheckpointComplete, or from the restored state if the table     *)
(* does not have this checkpoint. *)
Commit ==
    /\ status # "failed"
    /\ pending
    /\ bars' = bars \o ckpt.bars
    /\ pending' = FALSE
    /\ UNCHANGED <<topicVars, jobVars, stateVars, maxTs, written, ckptVars>>

-----------------------------------------------------------------------------
(* Failures.                                                                *)

Crash ==
    /\ status = "running"
    /\ failures < MaxCrashes
    /\ failures' = failures + 1
    /\ status' = IF failures + 1 > MaxFailures THEN "failed" ELSE "restarting"
    /\ offset' = NoCheckpoint.offset /\ maxTs' = [p \in Partition |-> NoTs]
    /\ wm' = NoWatermark /\ open' = {} /\ late' = {}
    /\ written' = <<>> /\ saved' = NotUnderWay
    /\ UNCHANGED <<topicVars, ckpt, tableVars>>

(* Mutant of Restore: the window operator's state is not restored. *)
RestoreOffsets ==
    /\ status = "restarting" /\ ~ pending
    /\ status' = "running"
    /\ offset' = ckpt.offset
    /\ UNCHANGED <<topicVars, failures, maxTs, wm, open, late, written, ckptVars, tableVars>>

(* The operator keeps its watermark; the partitions start without one. *)
Restore ==
    /\ status = "restarting" /\ ~ pending
    /\ status' = "running"
    /\ offset' = ckpt.offset /\ wm' = ckpt.wm
    /\ open' = ckpt.open /\ late' = ckpt.late
    /\ UNCHANGED <<topicVars, failures, maxTs, written, ckptVars, tableVars>>

-----------------------------------------------------------------------------
Next == \/ Produce \/ ProduceAgain
        \/ \E p \in Partition : Consume(p)
        \/ EmitWatermark \/ Barrier \/ Complete \/ Commit \/ Crash \/ Restore

Spec == Init /\ [][Next]_vars

(* The job goes on: it reads every partition, watermarks are emitted each   *)
(* 200 ms, checkpoints are triggered and notified, and Flink restarts it.   *)
(* Nothing is assumed of job 1.                                             *)
FairSpec ==
    /\ Spec
    /\ \A p \in Partition : WF_vars(Consume(p))
    /\ WF_vars(EmitWatermark)
    /\ WF_vars(Barrier) /\ WF_vars(Complete) /\ WF_vars(Commit) /\ WF_vars(Restore)

-----------------------------------------------------------------------------
(* Properties.                                                              *)

(* The types, and what is open has not been closed. *)
TypeOK ==
    /\ topic \in [Partition -> Seq(Tick)] /\ ticks \in Nat /\ repeats \in Nat
    /\ status \in {"running", "restarting", "failed"} /\ failures \in Nat
    /\ offset \in [Partition -> Nat] /\ maxTs \in [Partition -> Nat \cup {NoTs}]
    /\ \A p \in Partition : offset[p] <= Len(topic[p])
    /\ wm \in Int /\ open \subseteq Records /\ late \subseteq Records
    /\ \A r \in open : ~ Fired(WindowOf(r), wm)
    /\ written \in Seq(Bar) /\ bars \in Seq(Bar)
    /\ DOMAIN saved = DOMAIN ckpt /\ pending \in BOOLEAN

RecordsOf(someBars) == UNION {someBars[i].records : i \in DOMAIN someBars}

(* The table has one bar for a window, though its primary key is not        *)
(* enforced: no crash, repeated checkpoint or late tick makes a second.     *)
OneBarPerWindow ==
    \A i, j \in DOMAIN bars : bars[i].window = bars[j].window => i = j

(* What the last commit stands for is complete: each record with a price    *)
(* before the checkpoint's offsets is in a bar of the table, in a window    *)
(* the checkpoint holds, or was dropped as late - in one of the three.      *)
TicksAccounted ==
    ~ pending =>
        LET read == {r \in Records : r[2] <= ckpt.offset[r[1]] /\ Record(r).priced}
        IN  /\ read = RecordsOf(bars) \cup ckpt.open \cup ckpt.late
            /\ RecordsOf(bars) \cap (ckpt.open \cup ckpt.late) = {}
            /\ ckpt.open \cap ckpt.late = {}

(* A tick is dropped only if its own partition had shown one that is over   *)
(* Delay later than the end of its window; how far the other partitions     *)
(* are ahead does not count, before or after a restart.                     *)
LateInOwnPartition ==
    \A r \in late : \E i \in 1 .. r[2] - 1 :
        Fired(WindowOf(r), topic[r[1]][i].ts - Delay)

(* A partition that has been read to its end without a tick that closes w,  *)
(* since the job was last started. *)
Held(w) ==
    \E p \in Partition : /\ offset[p] = Len(topic[p])
                         /\ ~ Fired(w, maxTs[p] - Delay)

(* A tick gets into a bar of the table, unless it was dropped, a partition  *)
(* that has no newer tick holds its window, or the job is given up.         *)
Settled(r) == \/ ~ Record(r).priced
              \/ r \in RecordsOf(bars) \cup late
              \/ Held(WindowOf(r))
              \/ status = "failed"

BarsAppear == []<>(\A r \in Records : Settled(r))
=============================================================================
