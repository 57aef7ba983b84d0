------------------------------- MODULE Replay -------------------------------
(***************************************************************************)
(* One run of the replay CLI (replay/src/replay): find the offsets of a    *)
(* time window, in Iceberg or else by Kafka timestamps, read them with an  *)
(* ephemeral consumer and produce each record again, to the topic it was   *)
(* read from unless told otherwise, while that topic goes on growing.      *)
(*                                                                         *)
(* Covered: both lookups with the log growing between their requests, the  *)
(* stop conditions of the read loop, the budget over partitions, the       *)
(* producer's background delivery and its failures, both finally clauses.  *)
(* Not covered: Iceberg rows of before the lineage fix (offset -1, skipped *)
(* by the reader), logging, the printed summary.                           *)
(***************************************************************************)
EXTENDS Integers, Sequences, FiniteSetsExt

CONSTANTS
    Symbol,         \* symbols as the topic and the table spell them
    Partition,      \* partitions of the topic
    Home,           \* the partition of each symbol
    StartTs, EndTs, \* the window of the run
    MaxOffset,      \* 2**63 - 1, more than any offset
    Brokers,        \* addresses at which Kafka can be reached
    SourceTopic,    \* settings.source_topic
    Targets,        \* what settings.target_topic may be
    Asked,          \* what --symbol may be given as
    Budget,         \* what --events may be given as
    NoSymbol, NoBudget,  \* the options left out
    MaxLog,         \* bound of the checks: records of a partition
    MaxClock        \* bound of the checks: clock ticks

ASSUME WindowAssumption == StartTs \in Nat /\ EndTs \in Nat /\ StartTs < EndTs
ASSUME TopicAssumption == /\ Partition \subseteq Nat /\ IsFiniteSet(Partition)
                          /\ Home \in [Symbol -> Partition]
ASSUME OptionAssumption == Budget \subseteq Int \cup {NoBudget} /\ NoBudget \notin Int
ASSUME BoundAssumption == MaxLog \in [Partition -> 0 .. MaxOffset - 1] /\ MaxClock \in Nat
                          /\ MaxOffset \in Nat

VARIABLES
    log,        \* the source topic; offset o is at index o + 1
    clock,      \* wall clock
    table,      \* normalized.book_ticker: the <<partition, offset>> of its rows
    args,       \* the command line
    pc,         \* where run_replay() is
    firsts,     \* start_offsets of _kafka_time_offset_ranges()
    todo,       \* offset ranges not yet replayed, the current one first
    pos,        \* consumer position in the current partition
    total,      \* stats.events_read: records read from the partitions done
    read,       \* events_read: records read from the current one
    remaining,  \* the max_events that _replay_partition() was given
    pending,    \* records sent, with the time, not yet delivered by the producer
    out,        \* history: offsets of the records that reached the target
    taken,      \* history: records read
    wanted      \* history: the records of the window by the time of the lookup

worldVars  == <<log, clock, table>>
countVars  == <<total, read, remaining>>
lookupVars == <<firsts, wanted>>
loopVars   == <<todo, pos, countVars, taken>>
sendVars   == <<pending, out>>
vars == <<worldVars, args, pc, lookupVars, loopVars, sendVars>>

(* Event time and Kafka timestamp; copy is history: produced by this run. *)
Record == [sym : Symbol, ets : Nat, ts : Nat, copy : BOOLEAN]

(* The options, and the target of the environment. *)
Args == [sym : Asked, budget : Budget, dry : BOOLEAN, target : Targets]

OffsetRange == [p : Partition, from : Nat, to : Nat]

PC == {"lookup", "start_times", "end_times", "resolved", "next", "reading",
       "stopping", "raising", "done", "raised"}

(* The records of partition p, by offset. *)
Offsets(p) == 0 .. (Len(log[p]) - 1)

At(p, o) == log[p][o + 1]

InWindow(t) == StartTs <= t /\ t < EndTs

Init ==
    /\ log = [p \in Partition |-> <<>>]
    /\ clock = 0
    /\ table = {}
    /\ args \in Args
    /\ pc = "lookup"
    /\ firsts = [p \in Partition |-> MaxOffset]
    /\ todo = <<>> /\ pos = 0 /\ total = 0 /\ read = 0 /\ remaining = NoBudget
    /\ pending = [p \in Partition |-> <<>>]
    /\ out = [p \in Partition |-> <<>>]
    /\ taken = {} /\ wanted = {}

-----------------------------------------------------------------------------
(* The pipeline around the run.                                             *)

Ingest ==
    /\ \E s \in Symbol, t \in 0 .. clock :
          /\ Len(log[Home[s]]) < MaxLog[Home[s]]
          /\ log' = [log EXCEPT ![Home[s]] =
                        Append(@, [sym |-> s, ets |-> t, ts |-> clock, copy |-> FALSE])]
    /\ UNCHANGED <<clock, table, args, pc, lookupVars, loopVars, sendVars>>

Tick ==
    /\ clock < MaxClock
    /\ clock' = clock + 1
    /\ UNCHANGED <<log, table, args, pc, lookupVars, loopVars, sendVars>>

(* The normalize job commits a row; it drops copies as duplicates.  Only    *)
(* the lookup reads the table: what is committed after it is left out.      *)
Normalized ==
    /\ pc = "lookup"
    /\ \E p \in Partition : \E o \in Offsets(p) :
          /\ ~ At(p, o).copy
          /\ <<p, o>> \notin table
          /\ table' = table \cup {<<p, o>>}
    /\ UNCHANGED <<log, clock, args, pc, lookupVars, loopVars, sendVars>>

-----------------------------------------------------------------------------
(* read_offset_range() and _kafka_time_offset_ranges().                     *)

(* The rows the scan returns: by event time, and by symbol if one is asked. *)
Rows == {r \in table : /\ InWindow(At(r[1], r[2]).ets)
                       /\ args.sym \in {NoSymbol, At(r[1], r[2]).sym}}

(* Mutant of IcebergRange: the last row is left out.                        *)
IcebergRangeShort(p) ==
    LET offs == {r[2] : r \in {r \in Rows : r[1] = p}}
    IN  [p |-> p, from |-> Min(offs), to |-> Max(offs)]

IcebergRange(p) ==
    LET offs == {r[2] : r \in {r \in Rows : r[1] = p}}
    IN  [p |-> p, from |-> Min(offs), to |-> Max(offs) + 1]

(* A sequence of all the ranges, in the order of their partitions. *)
InOrder(seq, ranges) ==
    /\ {seq[i] : i \in DOMAIN seq} = ranges
    /\ \A i, j \in DOMAIN seq : i < j => seq[i].p < seq[j].p

ReadIceberg ==
    /\ pc = "lookup"
    /\ Rows # {}
    /\ LET ranges == {IcebergRange(r[1]) : r \in Rows}
       IN  /\ todo' \in [1 .. Cardinality(ranges) -> ranges]
           /\ InOrder(todo', ranges)
    /\ wanted' = Rows
    /\ pc' = "resolved"
    /\ UNCHANGED <<worldVars, args, firsts, pos, countVars, taken, sendVars>>

(* No row in the window, or the catalog or the scan fails. *)
IcebergHasNothing ==
    /\ pc = "lookup"
    /\ pc' = "start_times"
    /\ UNCHANGED <<worldVars, args, lookupVars, loopVars, sendVars>>

(* offsets_for_times(): the first offset at or after t; MaxOffset is None. *)
OffsetForTime(p, t) == Min({o \in Offsets(p) : At(p, o).ts >= t} \cup {MaxOffset})

StartOffsets ==
    /\ pc = "start_times"
    /\ firsts' = [p \in Partition |-> OffsetForTime(p, StartTs)]
    /\ pc' = "end_times"
    /\ UNCHANGED <<worldVars, args, wanted, loopVars, sendVars>>

(* Mutant of KafkaRange: the end offset is taken for the last to read.      *)
KafkaRangeShort(p) == [p |-> p, from |-> firsts[p], to |-> OffsetForTime(p, EndTs) - 1]

(* A second request, when the log may have grown.  With no record at or     *)
(* after end_ts the range has no end.                                       *)
KafkaRange(p) == [p |-> p, from |-> firsts[p], to |-> OffsetForTime(p, EndTs)]

(* The records of the window that are in partition p by then: none where the*)
(* first request found no start, as the loop skips that partition.          *)
InTime(p) == {<<p, o>> : o \in {o \in Offsets(p) : firsts[p] < MaxOffset /\ InWindow(At(p, o).ts)}}

EndOffsets ==
    /\ pc = "end_times"
    /\ LET ranges == {r \in {KafkaRange(p) : p \in Partition} : r.from < r.to}
       IN  /\ todo' \in [1 .. Cardinality(ranges) -> ranges]
           /\ InOrder(todo', ranges)
    /\ wanted' = UNION {InTime(p) : p \in Partition}
    /\ pc' = "resolved"
    /\ UNCHANGED <<worldVars, args, firsts, pos, countVars, taken, sendVars>>

-----------------------------------------------------------------------------
(* run_replay().                                                            *)

NothingToReplay ==
    /\ pc = "resolved"
    /\ todo = <<>>
    /\ pc' = "done"
    /\ UNCHANGED <<worldVars, args, lookupVars, loopVars, sendVars>>

(* The producer is given the target topic as its bootstrap server. *)
ProducerStarts ==
    /\ pc = "resolved"
    /\ todo # <<>>
    /\ args.dry \/ args.target \in Brokers
    /\ pc' = "next"
    /\ UNCHANGED <<worldVars, args, lookupVars, loopVars, sendVars>>

(* producer.start() raises outside the try. *)
ProducerCannotStart ==
    /\ pc = "resolved"
    /\ todo # <<>>
    /\ ~ args.dry /\ args.target \notin Brokers
    /\ pc' = "raised"
    /\ UNCHANGED <<worldVars, args, lookupVars, loopVars, sendVars>>

(* What --events leaves for the partitions that are not done. *)
Remaining == IF args.budget = NoBudget THEN NoBudget ELSE args.budget - total

NothingLeft == Remaining # NoBudget /\ Remaining <= 0

(* Mutant of NextPartition: every partition is given the whole of --events. *)
NextWholeBudget ==
    /\ pc = "next"
    /\ todo # <<>> /\ ~ NothingLeft
    /\ pos' = Head(todo).from
    /\ read' = 0 /\ remaining' = args.budget
    /\ pc' = "reading"
    /\ UNCHANGED <<worldVars, args, lookupVars, todo, total, taken, sendVars>>

NextPartition ==
    /\ pc = "next"
    /\ todo # <<>> /\ ~ NothingLeft
    /\ pos' = Head(todo).from
    /\ read' = 0 /\ remaining' = Remaining
    /\ pc' = "reading"
    /\ UNCHANGED <<worldVars, args, lookupVars, todo, total, taken, sendVars>>

NoMorePartitions ==
    /\ pc = "next"
    /\ todo = <<>> \/ NothingLeft
    /\ pc' = "stopping"
    /\ UNCHANGED <<worldVars, args, lookupVars, loopVars, sendVars>>

-----------------------------------------------------------------------------
(* _replay_partition(): "async for record in consumer".  Both stop          *)
(* conditions are looked at only with a record in hand.                     *)

Here == Head(todo)

HasRecord == pc = "reading" /\ pos < Len(log[Here.p])

(* Mutant of PastEnd: the end offset itself is read. *)
PastEndLate == pos > Here.to

PastEnd == pos >= Here.to

(* events_read >= max_events: of this partition, of what was left for it.   *)
Spent == remaining # NoBudget /\ read >= remaining

(* Mutant of PartitionDone: the outer loop is not reached. *)
ReadsOn ==
    /\ todo' = Tail(todo)
    /\ total' = total + read
    /\ UNCHANGED <<worldVars, args, pc, lookupVars, pos, read, remaining, taken, sendVars>>

(* _replay_partition() returns, and run_replay() adds up.                   *)
PartitionDone ==
    /\ todo' = Tail(todo)
    /\ total' = total + read
    /\ pc' = "next"
    /\ UNCHANGED <<worldVars, args, lookupVars, pos, read, remaining, taken, sendVars>>

(* Mutant of EndReached: continue for break, the next record is awaited.    *)
EndSkipped ==
    /\ HasRecord
    /\ PastEnd
    /\ pos' = pos + 1
    /\ UNCHANGED <<worldVars, args, pc, lookupVars, todo, countVars, taken, sendVars>>

EndReached ==
    /\ HasRecord
    /\ PastEnd
    /\ PartitionDone

BudgetReached ==
    /\ HasRecord
    /\ ~ PastEnd /\ Spent
    /\ PartitionDone

(* "await producer.send()" returns when the record is in the accumulator;   *)
(* the future of its delivery is dropped.                                   *)
ReadAndSend ==
    /\ HasRecord
    /\ ~ PastEnd /\ ~ Spent
    /\ read' = read + 1
    /\ pos' = pos + 1
    /\ taken' = taken \cup {<<Here.p, pos>>}
    /\ pending' = IF args.dry THEN pending
                  ELSE [pending EXCEPT ![Here.p] = Append(@, [o |-> pos, ts |-> clock])]
    /\ UNCHANGED <<worldVars, args, pc, lookupVars, todo, total, remaining, out>>

(* The consumer or send() raises; the finally clauses run. *)
LoopRaises ==
    /\ pc = "reading"
    /\ pc' = "raising"
    /\ UNCHANGED <<worldVars, args, lookupVars, loopVars, sendVars>>

-----------------------------------------------------------------------------
(* The producer's sender task, and producer.stop().                         *)

Reaches(p) ==
    LET sent == Head(pending[p])
        copy == [At(p, sent.o) EXCEPT !.ts = sent.ts, !.copy = TRUE]
    IN  /\ out' = [out EXCEPT ![p] = Append(@, sent.o)]
        /\ IF args.target # SourceTopic
              THEN UNCHANGED log
              ELSE /\ Len(log[p]) < MaxLog[p]
                   /\ log' = [log EXCEPT ![p] = Append(@, copy)]

(* Mutant of Delivered: enable_idempotence is off, a retry repeats it. *)
DeliveredTwice ==
    /\ \E p \in Partition :
          /\ pending[p] # <<>>
          /\ Reaches(p)
          /\ pending' \in {pending, [pending EXCEPT ![p] = Tail(@)]}
    /\ UNCHANGED <<clock, table, args, pc, lookupVars, loopVars>>

Delivered ==
    /\ \E p \in Partition :
          /\ pending[p] # <<>>
          /\ Reaches(p)
          /\ pending' = [pending EXCEPT ![p] = Tail(@)]
    /\ UNCHANGED <<clock, table, args, pc, lookupVars, loopVars>>

(* The batch expires: nobody waits for its future, the run goes on. *)
DeliveryFails ==
    /\ \E p \in Partition :
          /\ pending[p] # <<>>
          /\ pending' = [pending EXCEPT ![p] = Tail(@)]
    /\ UNCHANGED <<worldVars, args, pc, lookupVars, loopVars, out>>

(* producer.stop() flushes first; then run_replay() returns or raises. *)
ProducerStopped ==
    /\ pc \in {"stopping", "raising"}
    /\ \A p \in Partition : pending[p] = <<>>
    /\ pc' = IF pc = "stopping" THEN "done" ELSE "raised"
    /\ UNCHANGED <<worldVars, args, lookupVars, loopVars, sendVars>>

-----------------------------------------------------------------------------
World == Ingest \/ Tick \/ Normalized

Lookup == ReadIceberg \/ IcebergHasNothing \/ StartOffsets \/ EndOffsets

Control == NothingToReplay \/ ProducerStarts \/ ProducerCannotStart
             \/ NextPartition \/ NoMorePartitions \/ ProducerStopped

Loop == EndReached \/ BudgetReached \/ ReadAndSend

Sender == Delivered \/ DeliveryFails

Next == World \/ Lookup \/ Control \/ Loop \/ LoopRaises \/ Sender

Spec == Init /\ [][Next]_vars

(* The run's own steps and its sender task go on; nothing is assumed of the *)
(* topic: it may stop growing.                                              *)
FairSpec == Spec /\ WF_vars(Lookup \/ Control \/ Loop) /\ WF_vars(Sender)

-----------------------------------------------------------------------------
(* Properties.                                                              *)

(* The types; the current partition is the head of todo while reading. *)
TypeOK ==
    /\ log \in [Partition -> Seq(Record)] /\ clock \in Nat
    /\ table \subseteq Partition \X Nat /\ \A r \in table : r[2] \in Offsets(r[1])
    /\ args \in Args /\ pc \in PC
    /\ firsts \in [Partition -> Nat]
    /\ todo \in Seq(OffsetRange) /\ (pc = "reading" => todo # <<>>)
    /\ pos \in Nat /\ total \in Nat /\ read \in Nat /\ remaining \in Int \cup {NoBudget}
    /\ pending \in [Partition -> Seq([o : Nat, ts : Nat])]
    /\ out \in [Partition -> Seq(Nat)]
    /\ taken \subseteq Partition \X Nat /\ wanted \subseteq Partition \X Nat

(* A run that returns has read every record that was in the window by the   *)
(* time of the lookup, whatever was appended between its two requests and   *)
(* after them, or as many records as --events asks for.                     *)
WindowCovered ==
    pc = "done" =>
        \/ wanted \subseteq taken
        \/ args.budget # NoBudget /\ Cardinality(taken) >= args.budget

(* No record is copied twice, and the copies of a partition keep its order, *)
(* though the run reads its own copies and the sender works on its own.     *)
CopiedOnceInOrder ==
    \A p \in Partition : \A i, j \in 1 .. Len(out[p]) : i < j => out[p][i] < out[p][j]

(* With an end in the log, from Iceberg or from Kafka, a run reads none of  *)
(* the copies it has itself appended.                                       *)
NoFeedback ==
    pc = "reading" /\ Here.to < MaxOffset =>
        \A t \in taken : t[1] = Here.p => ~ At(t[1], t[2]).copy

(* --events is a limit on the records read over all partitions, though each *)
(* is read under a limit and with a count of its own.                       *)
WithinBudget ==
    args.budget # NoBudget => taken = {} \/ Cardinality(taken) <= args.budget

(* Once the topic goes on beyond the ends of the ranges that are left, the  *)
(* run ends, through all of its partitions and with nothing unsent.         *)
EndsBeyondWindow ==
    /\ pc \in {"resolved", "next", "reading"}
    /\ \A k \in 1 .. Len(todo) : todo[k].to < Len(log[todo[k].p])
    ~> pc \in {"done", "raised"} /\ \A p \in Partition : pending[p] = <<>>

(* producer.py: "Read records up to end_offset (or max_events limit)": the  *)
(* run ends.                                                                *)
RunEnds == <>(pc \in {"done", "raised"})
=============================================================================
