---------------------------- MODULE Replay_proofs ----------------------------
(***************************************************************************)
(* What holds of a replay run for all partitions, windows, options and     *)
(* bounds: its types, the budget, that the window is covered, that no      *)
(* record is copied twice or out of order, and that it reads none of its   *)
(* own copies.                                                             *)
(***************************************************************************)
EXTENDS Replay, Lemmas

Early == pc \in {"lookup", "start_times", "end_times"}

(* The ranges not yet begun. *)
Ahead == {k \in 1 .. Len(todo) : \/ pc \in {"resolved", "next"}
                                 \/ pc = "reading" /\ k # 1}

(* Before there are ranges, no copy is in the log, and its records are in   *)
(* the order of their times; the offsets of the first request are in front  *)
(* of every record at or after start_ts, those appended since included.     *)
EarlyInv ==
    /\ Early => /\ todo = <<>> /\ total = 0 /\ read = 0 /\ taken = {}
                /\ \A p \in Partition : pending[p] = <<>> /\ out[p] = <<>>
                /\ \A p \in Partition : \A o \in Offsets(p) :
                      /\ ~ At(p, o).copy /\ At(p, o).ts <= clock
                      /\ \A o2 \in Offsets(p) : o <= o2 => At(p, o).ts <= At(p, o2).ts
    /\ pc = "end_times" =>
          \A p \in Partition : firsts[p] < MaxOffset =>
             /\ firsts[p] \in Offsets(p)
             /\ \A o \in Offsets(p) : At(p, o).ts >= StartTs => firsts[p] <= o

(* The log keeps to its bound.  A range that has an end lies in the log, in *)
(* front of any copy, and no two ranges are of one partition.               *)
RangesInv ==
    /\ \A p \in Partition : Len(log[p]) <= MaxLog[p]
    /\ \A i, j \in 1 .. Len(todo) : i < j => todo[i].p < todo[j].p
    /\ \A k \in 1 .. Len(todo) :
          todo[k].to < MaxOffset => /\ todo[k].to <= Len(log[todo[k].p])
                                    /\ \A o \in 0 .. (todo[k].to - 1) : ~ At(todo[k].p, o).copy

(* Nothing is read twice: what has been read of the current partition is    *)
(* in front of pos and of the end, and nothing of those ahead.              *)
ReadInv ==
    /\ \A t \in taken : t[2] < Len(log[t[1]])
    /\ pc = "reading" => \A t \in taken : t[1] = Here.p => t[2] < Here.to /\ t[2] < pos
    /\ \A k \in Ahead : \A t \in taken : t[1] # todo[k].p

(* What has reached the target, then what is on the way, is in the order of *)
(* the offsets, all of it read.                                             *)
SentInv ==
    \A p \in Partition :
       /\ \A i, j \in 1 .. Len(out[p]) : i < j => out[p][i] < out[p][j]
       /\ \A i, j \in 1 .. Len(pending[p]) : i < j => pending[p][i].o < pending[p][j].o
       /\ \A i \in 1 .. Len(out[p]), j \in 1 .. Len(pending[p]) : out[p][i] < pending[p][j].o
       /\ \A i \in 1 .. Len(out[p]) : <<p, out[p][i]>> \in taken
       /\ \A i \in 1 .. Len(pending[p]) : <<p, pending[p][i].o>> \in taken

(* As many records as --events asks for. *)
Full == args.budget # NoBudget /\ Cardinality(taken) >= args.budget

(* The two counters and the limit they are held against: what has been read *)
(* is what the partitions done and the current one have counted, and the    *)
(* current one was given what those before it left.                         *)
BudgetInv ==
    /\ IsFiniteSet(taken)
    /\ Cardinality(taken) = total + (IF pc \in {"next", "stopping", "done"} THEN 0 ELSE read)
    /\ pc = "resolved" => read = 0
    /\ pc = "reading" => remaining = Remaining /\ ~ NothingLeft
    /\ WithinBudget

(* Short of --events, a record of the window that has not been read is in a *)
(* range ahead, or ahead in the current one.                                *)
CoverInv ==
    ~ Full =>
       /\ pc \in {"resolved", "next", "reading"} =>
             \A w \in wanted \ taken :
                \E k \in 1 .. Len(todo) :
                   /\ todo[k].p = w[1] /\ todo[k].from <= w[2] /\ w[2] < todo[k].to
                   /\ k \in Ahead \/ pos <= w[2]
       /\ pc \in {"stopping", "done"} => wanted \subseteq taken

IInv == TypeOK /\ EarlyInv /\ RangesInv /\ ReadInv /\ SentInv /\ BudgetInv /\ CoverInv
-----------------------------------------------------------------------------
(* Offsets and ranges.                                                      *)

LEMMA LogTypes ==
  ASSUME TypeOK, NEW p \in Partition
  PROVE  /\ Len(log[p]) \in Nat /\ log[p] \in Seq(Record)
         /\ \A o \in Offsets(p) : /\ o \in Nat /\ o + 1 \in 1 .. Len(log[p])
                                  /\ At(p, o) \in Record /\ At(p, o).ts \in Nat
<1>1. log[p] \in Seq(Record) BY DEF TypeOK
<1>2. Len(log[p]) \in Nat BY <1>1
<1>3. ASSUME NEW o \in Offsets(p)
      PROVE  o \in Nat /\ o + 1 \in 1 .. Len(log[p]) /\ At(p, o) \in Record /\ At(p, o).ts \in Nat
  <2>1. o \in Nat /\ o + 1 \in 1 .. Len(log[p]) BY <1>2, <1>3 DEF Offsets
  <2>2. log[p][o + 1] \in Record BY <1>1, <2>1
  <2> QED BY <2>1, <2>2 DEF At, Record
<1> QED BY <1>1, <1>2, <1>3

(* offsets_for_times() returns the first offset at or after the time. *)
LEMMA OffsetForTimeIs ==
  ASSUME TypeOK, NEW p \in Partition, NEW t
  PROVE  /\ OffsetForTime(p, t) \in Nat
         /\ OffsetForTime(p, t) <= MaxOffset
         /\ \A o \in Offsets(p) : At(p, o).ts >= t => OffsetForTime(p, t) <= o
         /\ OffsetForTime(p, t) < MaxOffset => /\ OffsetForTime(p, t) \in Offsets(p)
                                               /\ At(p, OffsetForTime(p, t)).ts >= t
<1> DEFINE S == {o \in Offsets(p) : At(p, o).ts >= t} \cup {MaxOffset}
<1>1. \A x \in S : x \in Nat BY LogTypes, BoundAssumption
<1>2. S \subseteq Nat /\ S # {} BY <1>1
<1>3. Min(S) \in S /\ \A x \in S : Min(S) <= x
  <2> HIDE DEF S
  <2> QED BY <1>2, MinOfNats
<1>4. OffsetForTime(p, t) = Min(S) BY DEF OffsetForTime
<1>5. \A o \in Offsets(p) : At(p, o).ts >= t => o \in S OBVIOUS
<1>6. MaxOffset \in S /\ MaxOffset \in Nat BY BoundAssumption
<1>7. \A x \in S : x < MaxOffset => x \in Offsets(p) /\ At(p, x).ts >= t BY <1>6
<1> HIDE DEF S
<1> QED BY <1>1, <1>3, <1>4, <1>5, <1>6, <1>7

(* The Iceberg range of a partition holds its rows and ends in the log. *)
LEMMA IcebergRangeIs ==
  ASSUME TypeOK, NEW r0 \in Rows
  PROVE  LET range == IcebergRange(r0[1])
         IN  /\ range \in OffsetRange /\ range.p = r0[1]
             /\ range.from <= r0[2] /\ r0[2] < range.to
             /\ range.to <= Len(log[range.p])
<1> DEFINE p == r0[1]
           S == {r[2] : r \in {r \in Rows : r[1] = p}}
<1>1. p \in Partition /\ r0[2] \in S /\ Len(log[p]) \in Nat
  <2>1. p \in Partition BY DEF Rows, TypeOK
  <2> QED BY <2>1, LogTypes
<1>2. \A x \in S : x \in Nat /\ x <= Len(log[p]) /\ x < Len(log[p])
  <2>1. \A r \in Rows : r[1] = p => r[2] \in Offsets(p) BY DEF Rows, TypeOK
  <2>2. \A x \in S : x \in Offsets(p) BY <2>1
  <2> HIDE DEF S
  <2> QED BY <1>1, <2>2 DEF Offsets
<1>3. S \subseteq Nat /\ S # {} BY <1>1, <1>2
<1>4. /\ Min(S) \in S /\ \A x \in S : Min(S) <= x
      /\ Max(S) \in S /\ \A x \in S : x <= Max(S)
  <2> HIDE DEF S
  <2> QED BY <1>1, <1>2, <1>3, MinOfNats, MaxOfNats
<1>5. IcebergRange(p) = [p |-> p, from |-> Min(S), to |-> Max(S) + 1]
  BY DEF IcebergRange
<1>6. /\ Min(S) \in Nat /\ Max(S) \in Nat /\ Max(S) + 1 \in Nat
      /\ Min(S) <= r0[2] /\ r0[2] < Max(S) + 1 /\ Max(S) + 1 <= Len(log[p])
  <2> HIDE DEF S
  <2> QED BY <1>1, <1>2, <1>4
<1> HIDE DEF S
<1> QED BY <1>1, <1>5, <1>6 DEF OffsetRange

(* A sequence of the ranges, by partition, is one of OffsetRanges. *)
LEMMA InOrderIs ==
  ASSUME NEW S, IsFiniteSet(S), NEW seq \in [1 .. Cardinality(S) -> S], InOrder(seq, S)
  PROVE  /\ seq \in Seq(S) /\ \A k \in 1 .. Len(seq) : seq[k] \in S
         /\ \A r \in S : \E k \in 1 .. Len(seq) : seq[k] = r
         /\ \A i, j \in 1 .. Len(seq) : i < j => seq[i].p < seq[j].p
<1>1. Cardinality(S) \in Nat BY FS_CardinalityType
<1>2. seq \in Seq(S) /\ Len(seq) = Cardinality(S) /\ DOMAIN seq = 1 .. Len(seq) BY <1>1
<1> QED BY <1>2 DEF InOrder

(* Either lookup puts the ranges it found into todo, each once. *)
LEMMA LookedUp ==
  ASSUME NEW S, IsFiniteSet(S), S \subseteq OffsetRange,
         todo' \in [1 .. Cardinality(S) -> S], InOrder(todo', S)
  PROVE  /\ todo' \in Seq(OffsetRange)
         /\ \A k \in 1 .. Len(todo') : todo'[k] \in S
         /\ \A r \in S : \E k \in 1 .. Len(todo') : todo'[k] = r
         /\ \A i, j \in 1 .. Len(todo') : i < j => todo'[i].p < todo'[j].p
<1>1. /\ todo' \in Seq(S) /\ \A k \in 1 .. Len(todo') : todo'[k] \in S
      /\ \A r \in S : \E k \in 1 .. Len(todo') : todo'[k] = r
      /\ \A i, j \in 1 .. Len(todo') : i < j => todo'[i].p < todo'[j].p
  BY InOrderIs
<1>2. todo' \in Seq(OffsetRange) BY <1>1
<1> QED BY <1>1, <1>2

LEMMA IcebergLookedUp ==
  ASSUME TypeOK, ReadIceberg
  PROVE  /\ todo' \in Seq(OffsetRange)
         /\ \A k \in 1 .. Len(todo') : \E r \in Rows : todo'[k] = IcebergRange(r[1])
         /\ \A r \in Rows : \E k \in 1 .. Len(todo') : todo'[k] = IcebergRange(r[1])
         /\ \A i, j \in 1 .. Len(todo') : i < j => todo'[i].p < todo'[j].p
<1> DEFINE S == {IcebergRange(r[1]) : r \in Rows}
           P == {r[1] : r \in Rows}
           f == [p \in P |-> IcebergRange(p)]
<1>1. P \in SUBSET Partition BY DEF Rows, TypeOK
<1>2. S = {f[p] : p \in P} OBVIOUS
<1>3. IsFiniteSet({f[p] : p \in P})
  <2>1. f = [p \in P |-> f[p]] OBVIOUS
  <2>2. IsFiniteSet(P) BY <1>1, TopicAssumption, FS_Subset
  <2> HIDE DEF f, P
  <2> QED BY <2>1, <2>2, ImageFinite
<1>4. IsFiniteSet(S) BY <1>2, <1>3
<1>5. S \subseteq OffsetRange BY IcebergRangeIs
<1>6. todo' \in [1 .. Cardinality(S) -> S] /\ InOrder(todo', S) BY DEF ReadIceberg
<1>7. /\ todo' \in Seq(OffsetRange)
      /\ \A k \in 1 .. Len(todo') : todo'[k] \in S
      /\ \A r \in S : \E k \in 1 .. Len(todo') : todo'[k] = r
      /\ \A i, j \in 1 .. Len(todo') : i < j => todo'[i].p < todo'[j].p
  <2> HIDE DEF S
  <2> QED BY <1>4, <1>5, <1>6, LookedUp
<1> QED BY <1>7

LEMMA KafkaLookedUp ==
  ASSUME TypeOK, EndOffsets
  PROVE  /\ todo' \in Seq(OffsetRange)
         /\ \A k \in 1 .. Len(todo') : \E p \in Partition : todo'[k] = KafkaRange(p)
         /\ \A p \in Partition : KafkaRange(p).from < KafkaRange(p).to =>
                \E k \in 1 .. Len(todo') : todo'[k] = KafkaRange(p)
         /\ \A i, j \in 1 .. Len(todo') : i < j => todo'[i].p < todo'[j].p
<1> DEFINE S == {r \in {KafkaRange(p) : p \in Partition} : r.from < r.to}
           f == [p \in Partition |-> KafkaRange(p)]
           T == {f[p] : p \in Partition}
<1>1. IsFiniteSet(T)
  <2>1. f = [p \in Partition |-> f[p]] OBVIOUS
  <2>2. IsFiniteSet({f[p] : p \in Partition})
    <3> HIDE DEF f
    <3> QED BY <2>1, TopicAssumption, ImageFinite
  <2> QED BY <2>2
<1>2. S \in SUBSET T OBVIOUS
<1>3. IsFiniteSet(S)
  <2> HIDE DEF S, T
  <2> QED BY <1>1, <1>2, FS_Subset
<1>4. S \subseteq OffsetRange
  <2>1. \A p \in Partition : KafkaRange(p) \in OffsetRange
    BY OffsetForTimeIs DEF KafkaRange, OffsetRange, TypeOK
  <2> QED BY <2>1
<1>5. todo' \in [1 .. Cardinality(S) -> S] /\ InOrder(todo', S) BY DEF EndOffsets
<1>6. /\ todo' \in Seq(OffsetRange)
      /\ \A k \in 1 .. Len(todo') : todo'[k] \in S
      /\ \A r \in S : \E k \in 1 .. Len(todo') : todo'[k] = r
      /\ \A i, j \in 1 .. Len(todo') : i < j => todo'[i].p < todo'[j].p
  <2> HIDE DEF S
  <2> QED BY <1>3, <1>4, <1>5, LookedUp
<1> QED BY <1>6


-----------------------------------------------------------------------------
(* Types.                                                                   *)

LEMMA InitInv == Init => IInv
<1> SUFFICES ASSUME Init PROVE IInv OBVIOUS
<1>1. TypeOK
  <2>1. log \in [Partition -> Seq(Record)] /\ \A p \in Partition : log[p] = <<>> BY DEF Init
  <2>2. firsts \in [Partition -> Nat] BY BoundAssumption DEF Init
  <2>3. pending \in [Partition -> Seq([o : Nat, ts : Nat])] /\ out \in [Partition -> Seq(Nat)]
    BY DEF Init
  <2> QED BY <2>1, <2>2, <2>3 DEF Init, TypeOK, PC
<1>2. EarlyInv BY DEF Init, EarlyInv, Offsets
<1>3. RangesInv BY BoundAssumption DEF Init, RangesInv
<1>4. ReadInv BY DEF Init, ReadInv
<1>5. SentInv BY DEF Init, SentInv
<1>6. CoverInv BY DEF Init, CoverInv
<1>7. BudgetInv BY FS_EmptySet DEF Init, BudgetInv, WithinBudget
<1> QED BY <1>1, <1>2, <1>3, <1>4, <1>5, <1>6, <1>7 DEF IInv

(* A record the producer still holds is one of the log. *)
LEMMA HeldIs ==
  ASSUME TypeOK, ReadInv, SentInv, NEW p \in Partition, NEW i \in 1 .. Len(pending[p])
  PROVE  /\ pending[p][i].o \in Offsets(p) /\ pending[p][i].ts \in Nat
         /\ At(p, pending[p][i].o) \in Record
<1>1. pending[p] \in Seq([o : Nat, ts : Nat]) BY DEF TypeOK
<1>2. pending[p][i] \in [o : Nat, ts : Nat]
  <2> DEFINE Held == [o : Nat, ts : Nat]
  <2>1. pending[p] \in Seq(Held) BY <1>1
  <2>2. pending[p][i] \in Held
    <3> HIDE DEF Held
    <3> QED BY <2>1
  <2> QED BY <2>2
<1>3. <<p, pending[p][i].o>> \in taken BY DEF SentInv
<1>4. pending[p][i].o < Len(log[p]) BY <1>3 DEF ReadInv
<1>5. pending[p][i].o \in Offsets(p) BY <1>2, <1>4, LogTypes DEF Offsets
<1> QED BY <1>2, <1>5, LogTypes

(* The log changes only by a record appended to one partition, and by a     *)
(* copy only once the ranges are known.                                     *)
LEMMA LogSteps ==
  ASSUME TypeOK, EarlyInv, ReadInv, SentInv, [Next]_vars
  PROVE  \/ UNCHANGED log
         \/ \E p \in Partition, r \in Record :
               /\ Len(log[p]) < MaxLog[p] /\ log' = [log EXCEPT ![p] = Append(@, r)]
               /\ (Ingest /\ ~ r.copy /\ r.ts = clock) \/ (Delivered /\ ~ Early)
<1> USE DEF worldVars, lookupVars, loopVars, countVars, sendVars
<1>1. CASE Ingest
  <2>1. PICK s \in Symbol, t \in 0 .. clock :
           /\ Len(log[Home[s]]) < MaxLog[Home[s]]
           /\ log' = [log EXCEPT ![Home[s]] =
                        Append(@, [sym |-> s, ets |-> t, ts |-> clock, copy |-> FALSE])]
    BY <1>1 DEF Ingest
  <2>2. Home[s] \in Partition BY TopicAssumption
  <2>3. [sym |-> s, ets |-> t, ts |-> clock, copy |-> FALSE] \in Record
    BY DEF Record, TypeOK
  <2> DEFINE r == [sym |-> s, ets |-> t, ts |-> clock, copy |-> FALSE]
  <2>4. ~ r.copy /\ r.ts = clock OBVIOUS
  <2> HIDE DEF r
  <2> QED BY <1>1, <2>1, <2>2, <2>3, <2>4 DEF r
<1>2. CASE Delivered
  <2>1. PICK p \in Partition : pending[p] # <<>> /\ Reaches(p) BY <1>2 DEF Delivered
  <2>2. ~ Early BY <2>1 DEF EarlyInv
  <2>3. CASE args.target # SourceTopic BY <2>1, <2>3 DEF Reaches
  <2>4. CASE args.target = SourceTopic
    <3> DEFINE sent == Head(pending[p])
               copy == [At(p, sent.o) EXCEPT !.ts = sent.ts, !.copy = TRUE]
    <3>1. Len(log[p]) < MaxLog[p] /\ log' = [log EXCEPT ![p] = Append(@, copy)]
      BY <2>1, <2>4 DEF Reaches
    <3>2. 1 \in 1 .. Len(pending[p]) /\ sent = pending[p][1]
      <4>1. pending[p] \in Seq([o : Nat, ts : Nat]) BY DEF TypeOK
      <4> QED BY <2>1, <4>1
    <3>3. sent.ts \in Nat /\ At(p, sent.o) \in Record BY <3>2, HeldIs
    <3>4. copy \in Record BY <3>3 DEF Record
    <3> QED BY <1>2, <2>2, <3>1, <3>4
  <2> QED BY <2>3, <2>4
<1>3. CASE UNCHANGED log BY <1>3
<1> QED BY <1>1, <1>2, <1>3 DEF Next, World, Lookup, Control, Loop, Sender, vars, Tick, Normalized,
     ReadIceberg, IcebergHasNothing, StartOffsets, EndOffsets, NothingToReplay, ProducerStarts,
     ProducerCannotStart, NextPartition, NoMorePartitions, EndReached, BudgetReached, PartitionDone,
     ReadAndSend, LoopRaises, DeliveryFails, ProducerStopped


LEMMA LogGrows ==
  ASSUME TypeOK, EarlyInv, RangesInv, ReadInv, SentInv, [Next]_vars
  PROVE  /\ log' \in [Partition -> Seq(Record)]
         /\ \A p \in Partition :
               /\ Len(log[p]) \in Nat /\ Len(log'[p]) \in Nat
               /\ Len(log[p]) <= Len(log'[p]) /\ Len(log'[p]) <= MaxLog[p]
               /\ \A o \in Offsets(p) : o \in Offsets(p)' /\ At(p, o)' = At(p, o)
<1>0. \A p \in Partition : MaxLog[p] \in Nat BY BoundAssumption
<1>1. CASE UNCHANGED log
  <2>1. \A p \in Partition : Len(log[p]) \in Nat /\ Len(log[p]) <= MaxLog[p]
    BY LogTypes DEF RangesInv
  <2> QED BY <1>1, <2>1 DEF TypeOK, Offsets, At
<1>2. CASE \E q \in Partition, r \in Record :
              Len(log[q]) < MaxLog[q] /\ log' = [log EXCEPT ![q] = Append(@, r)]
  <2>1. PICK q \in Partition, r \in Record :
           Len(log[q]) < MaxLog[q] /\ log' = [log EXCEPT ![q] = Append(@, r)]
    BY <1>2
  <2>2. ASSUME NEW p \in Partition
        PROVE  /\ log'[p] \in Seq(Record)
               /\ Len(log[p]) \in Nat /\ Len(log'[p]) \in Nat
               /\ Len(log[p]) <= Len(log'[p]) /\ Len(log'[p]) <= MaxLog[p]
               /\ \A o \in Offsets(p) : o \in Offsets(p)' /\ At(p, o)' = At(p, o)
    <3>1. log[p] \in Seq(Record) /\ Len(log[p]) \in Nat /\ Len(log[p]) <= MaxLog[p]
      BY LogTypes DEF RangesInv
    <3>2. CASE p = q
      <4>1. log'[p] = Append(log[p], r) BY <2>1, <3>2 DEF TypeOK
      <4>2. /\ log'[p] \in Seq(Record) /\ Len(log'[p]) = Len(log[p]) + 1
            /\ \A i \in 1 .. Len(log[p]) : log'[p][i] = log[p][i]
        BY <3>1, <4>1
      <4> QED BY <1>0, <2>1, <3>1, <3>2, <4>2 DEF Offsets, At
    <3>3. CASE p # q
      <4>1. log'[p] = log[p] BY <2>1, <3>3 DEF TypeOK
      <4> QED BY <3>1, <4>1 DEF Offsets, At
    <3> QED BY <3>2, <3>3
  <2>3. log' = [p \in Partition |-> log'[p]] BY <2>1 DEF TypeOK
  <2> QED BY <2>2, <2>3
<1> QED BY <1>1, <1>2, LogSteps

(* What is left of --events is a number, or the option is left out. *)
LEMMA BudgetTypes ==
  ASSUME TypeOK
  PROVE  /\ args.budget = NoBudget => Remaining = NoBudget
         /\ args.budget # NoBudget => /\ args.budget \in Int /\ Remaining = args.budget - total
                                      /\ Remaining \in Int /\ Remaining # NoBudget
<1>1. args.budget \in Budget /\ total \in Nat BY DEF TypeOK, Args
<1>2. args.budget # NoBudget => args.budget \in Int BY <1>1, OptionAssumption
<1>3. \A n \in Int : n # NoBudget BY OptionAssumption
<1>4. \A n \in Int : n - total \in Int BY <1>1
<1>5. args.budget # NoBudget => Remaining = args.budget - total BY DEF Remaining
<1>6. args.budget = NoBudget => Remaining = NoBudget BY DEF Remaining
<1> QED BY <1>2, <1>3, <1>4, <1>5, <1>6

LEMMA TypeStep ==
  ASSUME TypeOK, EarlyInv, RangesInv, ReadInv, SentInv, [Next]_vars
  PROVE  TypeOK'
<1> USE DEF worldVars, lookupVars, loopVars, countVars, sendVars
<1> DEFINE Rest == /\ args \in Args /\ pc \in PC
                   /\ firsts \in [Partition -> Nat]
                   /\ todo \in Seq(OffsetRange) /\ (pc = "reading" => todo # <<>>)
                   /\ pos \in Nat /\ total \in Nat /\ read \in Nat
                   /\ remaining \in Int \cup {NoBudget}
                   /\ pending \in [Partition -> Seq([o : Nat, ts : Nat])]
                   /\ out \in [Partition -> Seq(Nat)]
                   /\ taken \subseteq Partition \X Nat /\ wanted \subseteq Partition \X Nat
<1>1. log' \in [Partition -> Seq(Record)] BY LogGrows
<1>2. clock' \in Nat
  BY DEF TypeOK, Next, World, Lookup, Control, Loop, Sender, vars, Ingest, Tick, Normalized,
     ReadIceberg, IcebergHasNothing, StartOffsets, EndOffsets, NothingToReplay, ProducerStarts,
     ProducerCannotStart, NextPartition, NoMorePartitions, EndReached, BudgetReached, PartitionDone,
     ReadAndSend, LoopRaises, Delivered, DeliveryFails, ProducerStopped
<1>3. table' \subseteq Partition \X Nat /\ \A r \in table' : r[2] \in Offsets(r[1])'
  <2>1. \A r \in table : r[1] \in Partition /\ r[2] \in Offsets(r[1])' BY LogGrows DEF TypeOK
  <2>2. CASE UNCHANGED table BY <2>1, <2>2 DEF TypeOK
  <2>3. CASE Normalized
    <3>1. PICK p \in Partition : \E o \in Offsets(p) : table' = table \cup {<<p, o>>}
      BY <2>3 DEF Normalized
    <3>2. PICK o \in Offsets(p) : table' = table \cup {<<p, o>>} BY <3>1
    <3>3. o \in Nat /\ o \in Offsets(p)' BY LogTypes, LogGrows
    <3> QED BY <2>1, <3>2, <3>3 DEF TypeOK
  <2> QED BY <2>2, <2>3 DEF Next, World, Lookup, Control, Loop, Sender, vars, Ingest, Tick,
     ReadIceberg, IcebergHasNothing, StartOffsets, EndOffsets, NothingToReplay, ProducerStarts,
     ProducerCannotStart, NextPartition, NoMorePartitions, EndReached, BudgetReached, PartitionDone,
     ReadAndSend, LoopRaises, Delivered, DeliveryFails, ProducerStopped
<1>4. Rest'
  <2> USE DEF TypeOK, PC
  <2>1. CASE World \/ UNCHANGED vars BY <2>1 DEF World, Ingest, Tick, Normalized, vars
  <2>2. CASE ReadIceberg
    <3>1. wanted' \subseteq Partition \X Nat BY <2>2 DEF ReadIceberg, Rows
    <3>2. todo' \in Seq(OffsetRange) BY <2>2, IcebergLookedUp
    <3> QED BY <2>2, <3>1, <3>2 DEF ReadIceberg
  <2>3. CASE IcebergHasNothing BY <2>3 DEF IcebergHasNothing
  <2>4. CASE StartOffsets
    <3>1. firsts' \in [Partition -> Nat] BY <2>4, OffsetForTimeIs DEF StartOffsets
    <3> QED BY <2>4, <3>1 DEF StartOffsets
  <2>5. CASE EndOffsets
    <3>1. todo' \in Seq(OffsetRange) BY <2>5, KafkaLookedUp
    <3>2. wanted' \subseteq Partition \X Nat
      <4>1. \A p \in Partition : \A o \in Offsets(p) : o \in Nat BY LogTypes
      <4> QED BY <2>5, <4>1 DEF EndOffsets, InTime
    <3> QED BY <2>5, <3>1, <3>2 DEF EndOffsets
  <2>6. CASE NothingToReplay \/ ProducerStarts \/ ProducerCannotStart \/ NoMorePartitions
               \/ ProducerStopped \/ LoopRaises
    BY <2>6 DEF NothingToReplay, ProducerStarts, ProducerCannotStart, NoMorePartitions,
                ProducerStopped, LoopRaises
  <2>7. CASE NextPartition
    <3>1. Head(todo) \in OffsetRange BY <2>7 DEF NextPartition
    <3>2. Head(todo).from \in Nat BY <3>1 DEF OffsetRange
    <3>3. Remaining \in Int \cup {NoBudget} BY BudgetTypes
    <3> QED BY <2>7, <3>2, <3>3 DEF NextPartition
  <2>8. CASE EndReached \/ BudgetReached
    <3>1. Tail(todo) \in Seq(OffsetRange) BY <2>8 DEF EndReached, BudgetReached, HasRecord
    <3>2. total + read \in Nat OBVIOUS
    <3>3. /\ todo' = Tail(todo) /\ total' = total + read /\ pc' = "next"
          /\ UNCHANGED <<args, firsts, pos, read, remaining, pending, out, taken, wanted>>
      BY <2>8 DEF EndReached, BudgetReached, PartitionDone
    <3> QED BY <3>1, <3>2, <3>3
  <2>9. CASE ReadAndSend
    <3>1. Here \in OffsetRange BY <2>9 DEF ReadAndSend, HasRecord, Here
    <3>2. Here.p \in Partition BY <3>1 DEF OffsetRange
    <3>3. pending' \in [Partition -> Seq([o : Nat, ts : Nat])] BY <2>9, <3>2 DEF ReadAndSend
    <3>4. taken' \subseteq Partition \X Nat BY <2>9, <3>2 DEF ReadAndSend
    <3>5. /\ UNCHANGED <<args, pc, firsts, wanted, todo, out, total, remaining>>
          /\ pos' = pos + 1 /\ read' = read + 1
      BY <2>9 DEF ReadAndSend
    <3> QED BY <3>3, <3>4, <3>5
  <2>10. CASE Delivered \/ DeliveryFails
    <3>1. PICK p \in Partition : pending[p] # <<>> /\ pending' = [pending EXCEPT ![p] = Tail(@)]
      BY <2>10 DEF Delivered, DeliveryFails
    <3>2. pending' \in [Partition -> Seq([o : Nat, ts : Nat])] BY <3>1
    <3>3. out' \in [Partition -> Seq(Nat)]
      <4>1. CASE DeliveryFails BY <4>1 DEF DeliveryFails
      <4>2. CASE Delivered
        <5>1. PICK q \in Partition : pending[q] # <<>> /\ out' = [out EXCEPT ![q] = Append(@, Head(pending[q]).o)]
          BY <4>2 DEF Delivered, Reaches
        <5>2. 1 \in 1 .. Len(pending[q]) /\ Head(pending[q]) = pending[q][1] BY <5>1
        <5>3. Head(pending[q]).o \in Nat BY <5>2, HeldIs, LogTypes
        <5> QED BY <5>1, <5>3
      <4> QED BY <2>10, <4>1, <4>2
    <3> QED BY <2>10, <3>2, <3>3 DEF Delivered, DeliveryFails
  <2> QED BY <2>1, <2>2, <2>3, <2>4, <2>5, <2>6, <2>7, <2>8, <2>9, <2>10
          DEF Next, Lookup, Control, Loop, Sender
<1> QED BY <1>1, <1>2, <1>3, <1>4 DEF TypeOK


-----------------------------------------------------------------------------
(* The inductive invariant.                                                 *)

LEMMA EarlyStep ==
  ASSUME TypeOK, EarlyInv, RangesInv, ReadInv, SentInv, [Next]_vars
  PROVE  EarlyInv'
<1> USE DEF Early, worldVars, lookupVars, loopVars, countVars, sendVars
<1> DEFINE Quiet(lg, ck) ==
             \A p \in Partition : \A o \in 0 .. (Len(lg[p]) - 1) :
                /\ ~ lg[p][o + 1].copy /\ lg[p][o + 1].ts <= ck
                /\ \A o2 \in 0 .. (Len(lg[p]) - 1) :
                      o <= o2 => lg[p][o + 1].ts <= lg[p][o2 + 1].ts
           Found(lg, f) ==
             \A p \in Partition : f[p] < MaxOffset =>
                /\ f[p] \in 0 .. (Len(lg[p]) - 1)
                /\ \A o \in 0 .. (Len(lg[p]) - 1) : lg[p][o + 1].ts >= StartTs => f[p] <= o
<1>1. Early => Quiet(log, clock) BY DEF EarlyInv, Offsets, At
<1>2. pc = "end_times" => Found(log, firsts) BY DEF EarlyInv, Offsets, At
<1>3. (Early' => Quiet(log', clock')) /\ (pc' = "end_times" => Found(log', firsts'))
        /\ (Early' => /\ todo' = <<>> /\ total' = 0 /\ read' = 0 /\ taken' = {}
                      /\ \A p \in Partition : pending'[p] = <<>> /\ out'[p] = <<>>)
  <2>1. CASE Ingest
    <3>1. UNCHANGED <<clock, table, args, pc, lookupVars, loopVars, sendVars>> BY <2>1 DEF Ingest
    <3>2. Early => Quiet(log', clock)
      <4> SUFFICES ASSUME Early PROVE Quiet(log', clock) OBVIOUS
      <4>1. CASE UNCHANGED log BY <1>1, <4>1
      <4>2. CASE \E q \in Partition, r \in Record :
                    /\ log' = [log EXCEPT ![q] = Append(@, r)] /\ ~ r.copy /\ r.ts = clock
        <5>1. PICK q \in Partition, r \in Record :
                 log' = [log EXCEPT ![q] = Append(@, r)] /\ ~ r.copy /\ r.ts = clock
          BY <4>2
        <5>2. ASSUME NEW p \in Partition, NEW o \in 0 .. (Len(log'[p]) - 1)
              PROVE  /\ ~ log'[p][o + 1].copy /\ log'[p][o + 1].ts <= clock
                     /\ \A o2 \in 0 .. (Len(log'[p]) - 1) :
                           o <= o2 => log'[p][o + 1].ts <= log'[p][o2 + 1].ts
          <6>1. log[p] \in Seq(Record) /\ Len(log[p]) \in Nat /\ clock \in Nat
            BY LogTypes DEF TypeOK
          <6>2. CASE p # q
            <7>1. log'[p] = log[p] BY <5>1, <6>2 DEF TypeOK
            <7> QED BY <1>1, <5>2, <7>1
          <6>3. CASE p = q
            <7>1. log'[p] = Append(log[p], r) BY <5>1, <6>3 DEF TypeOK
            <7>2. /\ Len(log'[p]) = Len(log[p]) + 1 /\ log'[p][Len(log[p]) + 1] = r
                  /\ \A i \in 1 .. Len(log[p]) : log'[p][i] = log[p][i]
              BY <6>1, <7>1
            <7>3. \A i \in 0 .. (Len(log[p]) - 1) :
                     /\ log'[p][i + 1] = log[p][i + 1] /\ ~ log[p][i + 1].copy
                     /\ log[p][i + 1].ts <= clock
              BY <1>1, <6>1, <7>2
            <7>4. \A i \in 0 .. (Len(log'[p]) - 1) : i \in 0 .. (Len(log[p]) - 1) \/ i = Len(log[p])
              BY <6>1, <7>2
            <7>5. ~ log'[p][o + 1].copy /\ log'[p][o + 1].ts <= clock
              BY <5>1, <5>2, <6>1, <7>2, <7>3, <7>4
            <7>6. ASSUME NEW o2 \in 0 .. (Len(log'[p]) - 1), o <= o2
                  PROVE  log'[p][o + 1].ts <= log'[p][o2 + 1].ts
              <8>1. CASE o2 = Len(log[p]) BY <5>1, <7>2, <7>5, <8>1
              <8>2. CASE o2 \in 0 .. (Len(log[p]) - 1)
                <9>1. o \in 0 .. (Len(log[p]) - 1) BY <5>2, <6>1, <7>6, <8>2
                <9> QED BY <1>1, <7>3, <7>6, <8>2, <9>1
              <8> QED BY <7>4, <7>6, <8>1, <8>2
            <7> QED BY <7>5, <7>6
          <6> QED BY <6>2, <6>3
        <5> QED BY <5>2
      <4> QED BY <4>1, <4>2, LogSteps
    <3>3. pc = "end_times" => Found(log', firsts)
      <4> SUFFICES ASSUME pc = "end_times", NEW p \in Partition, firsts[p] < MaxOffset
                   PROVE  /\ firsts[p] \in 0 .. (Len(log'[p]) - 1)
                          /\ \A o \in 0 .. (Len(log'[p]) - 1) :
                                log'[p][o + 1].ts >= StartTs => firsts[p] <= o
        OBVIOUS
      <4>1. /\ Len(log[p]) \in Nat /\ Len(log'[p]) \in Nat /\ Len(log[p]) <= Len(log'[p])
            /\ \A o \in 0 .. (Len(log[p]) - 1) : log'[p][o + 1] = log[p][o + 1]
        BY LogGrows DEF Offsets, At
      <4>2. /\ firsts[p] \in 0 .. (Len(log[p]) - 1)
            /\ \A o \in 0 .. (Len(log[p]) - 1) : log[p][o + 1].ts >= StartTs => firsts[p] <= o
        BY <1>2
      <4>3. ASSUME NEW o \in 0 .. (Len(log'[p]) - 1), log'[p][o + 1].ts >= StartTs
            PROVE  firsts[p] <= o
        <5>1. CASE o \in 0 .. (Len(log[p]) - 1) BY <4>1, <4>2, <4>3, <5>1
        <5>2. CASE o >= Len(log[p]) BY <4>1, <4>2, <5>2
        <5> QED BY <4>1, <5>1, <5>2
      <4> QED BY <4>1, <4>2, <4>3
    <3> HIDE DEF Quiet, Found
    <3> QED BY <3>1, <3>2, <3>3 DEF EarlyInv
  <2>2. CASE Tick
    <3>1. clock' = clock + 1 /\ UNCHANGED <<log, pc, lookupVars, loopVars, sendVars>>
      BY <2>2 DEF Tick
    <3>2. Early => Quiet(log, clock')
      <4>1. \A p \in Partition : \A o \in 0 .. (Len(log[p]) - 1) : log[p][o + 1].ts \in Nat
        BY LogTypes DEF Offsets, At
      <4>2. clock \in Nat BY DEF TypeOK
      <4>3. \A n \in Nat : n <= clock => n <= clock' BY <3>1, <4>2
      <4> HIDE DEF Early
      <4> QED BY <1>1, <4>1, <4>3
    <3> HIDE DEF Quiet, Found
    <3> QED BY <1>2, <3>1, <3>2 DEF EarlyInv
  <2>3. CASE Normalized \/ IcebergHasNothing \/ UNCHANGED vars
    <3>1. /\ UNCHANGED <<log, clock, lookupVars, loopVars, sendVars>>
          /\ pc' = pc \/ (Early /\ pc' = "start_times")
      BY <2>3 DEF Normalized, IcebergHasNothing, vars
    <3> HIDE DEF Quiet, Found
    <3> QED BY <1>1, <1>2, <3>1 DEF EarlyInv
  <2>4. CASE StartOffsets
    <3>1. UNCHANGED <<log, clock, loopVars, sendVars>> /\ Early /\ pc' = "end_times"
      BY <2>4 DEF StartOffsets
    <3>2. Found(log, firsts')
      <4>1. \A p \in Partition : firsts'[p] = OffsetForTime(p, StartTs) BY <2>4 DEF StartOffsets
      <4> QED BY <4>1, OffsetForTimeIs DEF Offsets, At
    <3> HIDE DEF Quiet, Found
    <3> QED BY <1>1, <3>1, <3>2 DEF EarlyInv
  <2>5. CASE Delivered \/ DeliveryFails
    <3>1. ~ Early BY <2>5 DEF Delivered, DeliveryFails, EarlyInv
    <3>2. pc' = pc BY <2>5 DEF Delivered, DeliveryFails
    <3> QED BY <3>1, <3>2
  <2>6. CASE ReadIceberg \/ EndOffsets \/ Control \/ Loop \/ LoopRaises
    <3>1. ~ Early'
      BY <2>6 DEF ReadIceberg, EndOffsets, Control, Loop, LoopRaises, NothingToReplay, ProducerStarts,
         ProducerCannotStart, NextPartition, NoMorePartitions, EndReached, BudgetReached, PartitionDone,
         ReadAndSend, ProducerStopped, HasRecord
    <3> QED BY <3>1
  <2> QED BY <2>1, <2>2, <2>3, <2>4, <2>5, <2>6 DEF Next, World, Lookup, Sender
<1> QED BY <1>3 DEF EarlyInv, Offsets, At


(* The steps of the log, the clock, the table and the sender leave the run  *)
(* where it is.                                                             *)
Aside == UNCHANGED <<args, pc, todo, pos, countVars, taken, wanted>>

(* The steps that do not lead to a range. *)
Leaves == /\ UNCHANGED <<log, args, todo, countVars, taken, wanted, pending, out>>
          /\ pc' \notin {"resolved", "next", "reading"}

LEMMA Steps ==
  ASSUME [Next]_vars
  PROVE  \/ Aside /\ (Delivered \/ DeliveryFails \/ UNCHANGED <<pending, out>>)
         \/ Leaves \/ ReadIceberg \/ EndOffsets \/ ProducerStarts
         \/ NextPartition \/ EndReached \/ BudgetReached \/ ReadAndSend
<1> USE DEF Aside, Leaves, worldVars, lookupVars, loopVars, countVars, sendVars
<1>1. CASE World \/ Sender \/ UNCHANGED vars
  BY <1>1 DEF World, Sender, vars, Ingest, Tick, Normalized, Delivered, DeliveryFails
<1>2. CASE IcebergHasNothing \/ StartOffsets \/ NothingToReplay \/ ProducerCannotStart
             \/ NoMorePartitions \/ LoopRaises \/ ProducerStopped
  BY <1>2 DEF IcebergHasNothing, StartOffsets, NothingToReplay, ProducerCannotStart,
              NoMorePartitions, LoopRaises, ProducerStopped
<1> QED BY <1>1, <1>2 DEF Next, Lookup, Control, Loop

LEMMA TodoTypes ==
  ASSUME TypeOK
  PROVE  /\ Len(todo) \in Nat
         /\ \A k \in 1 .. Len(todo) : /\ todo[k] \in OffsetRange /\ todo[k].p \in Partition
                                      /\ todo[k].p \in Nat
                                      /\ todo[k].from \in Nat /\ todo[k].to \in Nat
         /\ todo # <<>> => Here = todo[1] /\ 1 \in 1 .. Len(todo)
         /\ todo # <<>> => /\ Len(Tail(todo)) = Len(todo) - 1
                           /\ \A k \in 1 .. Len(Tail(todo)) : Tail(todo)[k] = todo[k + 1]
<1>1. todo \in Seq(OffsetRange) BY DEF TypeOK
<1>2. \A k \in 1 .. Len(todo) : todo[k] \in OffsetRange BY <1>1
<1>3. \A r \in OffsetRange : r.p \in Partition /\ r.p \in Nat /\ r.from \in Nat /\ r.to \in Nat
  BY TopicAssumption DEF OffsetRange
<1>4. Len(todo) \in Nat BY <1>1
<1>5. todo # <<>> => Here = todo[1] /\ 1 \in 1 .. Len(todo) BY <1>1 DEF Here
<1>6. todo # <<>> => /\ Len(Tail(todo)) = Len(todo) - 1
                     /\ \A k \in 1 .. Len(Tail(todo)) : Tail(todo)[k] = todo[k + 1]
  BY <1>1
<1> QED BY <1>2, <1>3, <1>4, <1>5, <1>6

LEMMA RangesStep ==
  ASSUME TypeOK, TypeOK', EarlyInv, RangesInv, ReadInv, SentInv, [Next]_vars
  PROVE  RangesInv'
<1> USE DEF worldVars, lookupVars, loopVars, countVars, sendVars
<1> DEFINE Ends(range) == range.to < MaxOffset => /\ range.to <= Len(log'[range.p])
                                                  /\ \A o \in 0 .. (range.to - 1) : ~ log'[range.p][o + 1].copy
           Sorted(seq) == \A i, j \in 1 .. Len(seq) : i < j => seq[i].p < seq[j].p
<1>1. \A k \in 1 .. Len(todo) : Ends(todo[k])
  <2> SUFFICES ASSUME NEW k \in 1 .. Len(todo), todo[k].to < MaxOffset
               PROVE  /\ todo[k].to <= Len(log'[todo[k].p])
                      /\ \A o \in 0 .. (todo[k].to - 1) : ~ log'[todo[k].p][o + 1].copy
    OBVIOUS
  <2>1. /\ todo[k].to <= Len(log[todo[k].p])
        /\ \A o \in 0 .. (todo[k].to - 1) : ~ At(todo[k].p, o).copy
    BY DEF RangesInv
  <2>2. todo[k].p \in Partition /\ todo[k].to \in Nat BY TodoTypes
  <2>3. Len(log[todo[k].p]) \in Nat /\ Len(log'[todo[k].p]) \in Nat
        /\ Len(log[todo[k].p]) <= Len(log'[todo[k].p])
    BY <2>2, LogGrows
  <2>4. \A o \in 0 .. (todo[k].to - 1) : o \in Offsets(todo[k].p) BY <2>1, <2>2, <2>3 DEF Offsets
  <2>5. \A o \in 0 .. (todo[k].to - 1) : log'[todo[k].p][o + 1] = At(todo[k].p, o)
    BY <2>2, <2>4, LogGrows DEF At
  <2>6. todo[k].to <= Len(log'[todo[k].p]) BY <2>1, <2>2, <2>3
  <2>7. \A o \in 0 .. (todo[k].to - 1) : ~ log'[todo[k].p][o + 1].copy BY <2>1, <2>5
  <2> QED BY <2>6, <2>7
<1>2. Sorted(todo') /\ \A k \in 1 .. Len(todo') : Ends(todo'[k])
  <2>1. CASE UNCHANGED todo BY <1>1, <2>1 DEF RangesInv
  <2>2. CASE ReadIceberg
    <3>1. Early /\ UNCHANGED log BY <2>2 DEF ReadIceberg, Early
    <3>2. ASSUME NEW r \in Rows PROVE Ends(IcebergRange(r[1]))
      <4> DEFINE range == IcebergRange(r[1])
      <4>1. range \in OffsetRange /\ range.p = r[1] /\ range.to <= Len(log[range.p])
        BY IcebergRangeIs
      <4>2. range.p \in Partition /\ range.to \in Nat BY <4>1 DEF OffsetRange
      <4>3. \A o \in Offsets(range.p) : ~ At(range.p, o).copy BY <3>1, <4>2 DEF EarlyInv
      <4> HIDE DEF range
      <4>4. \A o \in 0 .. (range.to - 1) : ~ log[range.p][o + 1].copy
        BY <4>1, <4>2, <4>3, LogTypes DEF Offsets, At
      <4> QED BY <3>1, <4>1, <4>4 DEF range
    <3> HIDE DEF Ends
    <3> QED BY <2>2, <3>2, IcebergLookedUp
  <2>3. CASE EndOffsets
    <3>1. Early /\ UNCHANGED log BY <2>3 DEF EndOffsets, Early
    <3>2. ASSUME NEW p \in Partition PROVE Ends(KafkaRange(p))
      <4> DEFINE to == OffsetForTime(p, EndTs)
      <4>1. KafkaRange(p).p = p /\ KafkaRange(p).to = to BY DEF KafkaRange
      <4>2. to \in Nat /\ (to < MaxOffset => to \in Offsets(p)) /\ Len(log[p]) \in Nat
        BY OffsetForTimeIs, LogTypes
      <4>3. \A o \in Offsets(p) : ~ At(p, o).copy BY <3>1 DEF EarlyInv
      <4> HIDE DEF to
      <4>4. to < MaxOffset => to <= Len(log[p]) /\ \A o \in 0 .. (to - 1) : ~ log[p][o + 1].copy
        BY <4>2, <4>3 DEF Offsets, At
      <4> QED BY <3>1, <4>1, <4>4
    <3> HIDE DEF Ends
    <3> QED BY <2>3, <3>2, KafkaLookedUp
  <2>4. CASE EndReached \/ BudgetReached
    <3>1. todo # <<>> /\ todo' = Tail(todo)
      BY <2>4 DEF EndReached, BudgetReached, HasRecord, PartitionDone, TypeOK
    <3>2. \A k \in 1 .. Len(todo') : k + 1 \in 1 .. Len(todo) /\ todo'[k] = todo[k + 1]
      BY <3>1, TodoTypes
    <3>3. Len(todo') \in Nat BY <3>1, TodoTypes
    <3> HIDE DEF Ends
    <3>4. Sorted(todo)  BY DEF RangesInv
    <3>5. Sorted(todo')
      <4> SUFFICES ASSUME NEW i \in 1 .. Len(todo'), NEW j \in 1 .. Len(todo'), i < j
                   PROVE  todo'[i].p < todo'[j].p
        OBVIOUS
      <4>1. i + 1 < j + 1 /\ i + 1 \in 1 .. Len(todo) /\ j + 1 \in 1 .. Len(todo) BY <3>2
      <4>2. todo[i + 1].p < todo[j + 1].p BY <3>4, <4>1
      <4> QED BY <3>2, <4>2
    <3> QED BY <1>1, <3>2, <3>5
  <2> QED BY <2>1, <2>2, <2>3, <2>4, Steps DEF Aside, Leaves, ProducerStarts, NextPartition, ReadAndSend
<1>3. \A p \in Partition : Len(log'[p]) <= MaxLog[p] BY LogGrows
<1> QED BY <1>2, <1>3 DEF RangesInv, At


(* After a partition is done, the ranges ahead are those that were. *)
LEMMA AheadDone ==
  ASSUME TypeOK, EndReached \/ BudgetReached
  PROVE  /\ pc = "reading" /\ pc' = "next" /\ todo' = Tail(todo) /\ todo # <<>>
         /\ UNCHANGED <<log, args, taken, pending, out, wanted, pos>>
         /\ \A k \in Ahead' : k + 1 \in Ahead /\ todo'[k] = todo[k + 1]
         /\ \A k \in Ahead : k - 1 \in Ahead' /\ todo'[k - 1] = todo[k]
<1> USE DEF worldVars, lookupVars, loopVars, countVars, sendVars
<1>1. /\ pc = "reading" /\ pc' = "next" /\ todo' = Tail(todo) /\ todo # <<>>
      /\ UNCHANGED <<log, args, taken, pending, out, wanted, pos>>
  BY DEF EndReached, BudgetReached, HasRecord, PartitionDone, TypeOK
<1>2. Ahead' = 1 .. Len(todo') /\ Ahead = {k \in 1 .. Len(todo) : k # 1} BY <1>1 DEF Ahead
<1>3. /\ Len(todo) \in Nat /\ Len(todo') = Len(todo) - 1
      /\ \A k \in 1 .. Len(todo') : todo'[k] = todo[k + 1]
  BY <1>1, TodoTypes
<1>4. \A k \in Ahead' : k + 1 \in Ahead /\ todo'[k] = todo[k + 1] BY <1>2, <1>3
<1>5. \A k \in Ahead : k - 1 \in 1 .. Len(todo') /\ todo[(k - 1) + 1] = todo[k] BY <1>2, <1>3
<1>6. \A k \in Ahead : k - 1 \in Ahead' /\ todo'[k - 1] = todo[k] BY <1>2, <1>3, <1>5
<1> QED BY <1>1, <1>4, <1>6

LEMMA ReadStep ==
  ASSUME TypeOK, TypeOK', EarlyInv, RangesInv, ReadInv, SentInv, [Next]_vars
  PROVE  ReadInv'
<1> USE DEF worldVars, lookupVars, loopVars, countVars, sendVars
<1> DEFINE InLog(S) == \A t \in S : t[2] < Len(log'[t[1]])
           Now == pc = "reading" => \A t \in taken : t[1] = Here.p => t[2] < Here.to /\ t[2] < pos
           Later == \A k \in Ahead : \A t \in taken : t[1] # todo[k].p
<1>0. Now /\ Later BY DEF ReadInv
<1>1. InLog(taken)
  <2>1. \A t \in taken : t[1] \in Partition /\ t[2] \in Nat /\ t[2] < Len(log[t[1]])
    BY DEF TypeOK, ReadInv
  <2> QED BY <2>1, LogGrows
<1>2. CASE Aside
  <2>1. Now' /\ Later' BY <1>0, <1>2 DEF Aside, Ahead, Here
  <2>2. InLog(taken') BY <1>1, <1>2 DEF Aside
  <2> QED BY <2>1, <2>2 DEF ReadInv
<1>3. CASE Leaves
  <2>1. Ahead' = {} /\ pc' # "reading" BY <1>3 DEF Leaves, Ahead
  <2>2. InLog(taken') BY <1>1, <1>3 DEF Leaves
  <2> QED BY <2>1, <2>2 DEF ReadInv
<1>4. CASE ReadIceberg \/ EndOffsets
  <2>1. taken' = {} BY <1>4 DEF ReadIceberg, EndOffsets, EarlyInv, Early
  <2> QED BY <2>1 DEF ReadInv
<1>5. CASE ProducerStarts
  <2>1. /\ Ahead' = Ahead /\ pc' # "reading" /\ UNCHANGED <<taken, todo>>
    BY <1>5 DEF ProducerStarts, Ahead
  <2> QED BY <1>0, <1>1, <2>1 DEF ReadInv
<1>6. CASE NextPartition
  <2>1. /\ todo # <<>> /\ pc = "next" /\ pc' = "reading" /\ UNCHANGED <<taken, todo>>
    BY <1>6 DEF NextPartition
  <2>2. Ahead' \subseteq Ahead /\ 1 \in Ahead /\ Here = todo[1] /\ Here' = Here
    BY <2>1, TodoTypes DEF Ahead, Here
  <2>3. \A t \in taken : t[1] # Here.p BY <1>0, <2>2
  <2> QED BY <1>0, <1>1, <2>1, <2>2, <2>3 DEF ReadInv
<1>7. CASE EndReached \/ BudgetReached
  <2>1. Later' BY <1>0, <1>7, AheadDone
  <2> QED BY <1>1, <1>7, <2>1, AheadDone DEF ReadInv
<1>8. CASE ReadAndSend
  <2>1. /\ pc = "reading" /\ pc' = pc /\ todo' = todo /\ todo # <<>> /\ pos' = pos + 1
        /\ taken' = taken \cup {<<Here.p, pos>>} /\ ~ (pos >= Here.to) /\ pos < Len(log[Here.p])
        /\ pos \in Nat
    BY <1>8 DEF ReadAndSend, HasRecord, TypeOK, PastEnd
  <2>2. /\ Here = todo[1] /\ Here' = Here /\ Ahead' = Ahead /\ Here.to \in Nat
        /\ Here.p \in Partition /\ Here.p \in Nat /\ 1 \in 1 .. Len(todo)
    BY <2>1, TodoTypes DEF Here, Ahead
  <2>3. InLog(taken')
    <3>1. pos < Len(log'[Here.p]) BY <2>1, <2>2, LogGrows
    <3> QED BY <1>1, <2>1, <3>1
  <2>4. \A t \in taken' : t[1] = Here.p => t[2] < Here.to /\ t[2] < pos'
    <3>1. \A t \in taken : t[2] \in Nat BY DEF TypeOK
    <3> QED BY <1>0, <2>1, <2>2, <3>1
  <2>5. \A k \in Ahead : \A t \in taken' : t[1] # todo[k].p
    <3>1. ASSUME NEW k \in Ahead PROVE Here.p # todo[k].p
      <4>1. k \in 1 .. Len(todo) /\ 1 < k BY <2>1, TodoTypes DEF Ahead
      <4>2. todo[1].p < todo[k].p /\ todo[k].p \in Nat BY <2>2, <4>1, TodoTypes DEF RangesInv
      <4> QED BY <2>2, <4>2
    <3> QED BY <1>0, <2>1, <3>1
  <2> QED BY <2>1, <2>2, <2>3, <2>4, <2>5 DEF ReadInv
<1> QED BY <1>2, <1>3, <1>4, <1>5, <1>6, <1>7, <1>8, Steps


(* SentInv of one partition. *)
InLine(p, o, q, got) ==
  /\ \A i, j \in 1 .. Len(o) : i < j => o[i] < o[j]
  /\ \A i, j \in 1 .. Len(q) : i < j => q[i].o < q[j].o
  /\ \A i \in 1 .. Len(o), j \in 1 .. Len(q) : o[i] < q[j].o
  /\ \A i \in 1 .. Len(o) : <<p, o[i]>> \in got
  /\ \A i \in 1 .. Len(q) : <<p, q[i].o>> \in got

LEMMA InLineTail ==
  ASSUME NEW p, NEW X, NEW o, NEW q \in Seq(X), NEW got, q # <<>>, InLine(p, o, q, got)
  PROVE  InLine(p, o, Tail(q), got)
<1>1. /\ Len(q) \in Nat /\ Len(Tail(q)) = Len(q) - 1
      /\ \A i \in 1 .. Len(Tail(q)) : i + 1 \in 1 .. Len(q) /\ Tail(q)[i] = q[i + 1]
  OBVIOUS
<1>2. \A i, j \in 1 .. Len(Tail(q)) : i < j => i + 1 < j + 1 OBVIOUS
<1> DEFINE t == Tail(q)
<1>3. \A i, j \in 1 .. Len(t) : i < j => t[i].o < t[j].o BY <1>1, <1>2 DEF InLine
<1>4. \A i \in 1 .. Len(o), j \in 1 .. Len(t) : o[i] < t[j].o BY <1>1 DEF InLine
<1>5. \A i \in 1 .. Len(t) : <<p, t[i].o>> \in got BY <1>1 DEF InLine
<1> HIDE DEF t
<1>6. InLine(p, o, t, got) BY <1>3, <1>4, <1>5 DEF InLine
<1> QED BY <1>6 DEF t

LEMMA InLineDelivered ==
  ASSUME NEW p, NEW X, NEW o \in Seq(Nat), NEW q \in Seq(X), NEW got, q # <<>>,
         Head(q).o \in Nat, InLine(p, o, q, got)
  PROVE  InLine(p, Append(o, Head(q).o), Tail(q), got)
<1> DEFINE h == Head(q).o
           a == Append(o, h)
           t == Tail(q)
<1>1. InLine(p, o, t, got) BY InLineTail
<1>2. /\ Len(o) \in Nat /\ Len(a) = Len(o) + 1 /\ a[Len(o) + 1] = h
      /\ \A i \in 1 .. Len(o) : a[i] = o[i]
  OBVIOUS
<1>3. 1 \in 1 .. Len(q) /\ h = q[1].o /\ Len(q) \in Nat OBVIOUS
<1>4. Len(t) = Len(q) - 1 /\ \A j \in 1 .. Len(t) : t[j] = q[j + 1] /\ 1 < j + 1 /\ j + 1 \in 1 .. Len(q)
  BY <1>3
<1> HIDE DEF a, t, h
<1>5. (\A i \in 1 .. Len(o) : o[i] < h) /\ (\A j \in 1 .. Len(t) : h < t[j].o) /\ <<p, h>> \in got
  BY <1>3, <1>4 DEF InLine
<1>6. \A i \in 1 .. Len(a) : i \in 1 .. Len(o) \/ i = Len(o) + 1 BY <1>2
<1>7. \A i, j \in 1 .. Len(a) : i < j => i \in 1 .. Len(o) BY <1>2
<1>8. \A i, j \in 1 .. Len(a) : i < j => a[i] < a[j]
  <2> SUFFICES ASSUME NEW i \in 1 .. Len(a), NEW j \in 1 .. Len(a), i < j PROVE a[i] < a[j]
    OBVIOUS
  <2>1. i \in 1 .. Len(o) BY <1>7
  <2>2. CASE j = Len(o) + 1 BY <1>2, <1>5, <2>1, <2>2
  <2>3. CASE j \in 1 .. Len(o) BY <1>1, <1>2, <2>1, <2>3 DEF InLine
  <2> QED BY <1>6, <2>2, <2>3
<1>9. \A i \in 1 .. Len(a) : \A j \in 1 .. Len(t) : a[i] < t[j].o
  BY <1>1, <1>2, <1>5, <1>6 DEF InLine
<1>10. \A i \in 1 .. Len(a) : <<p, a[i]>> \in got BY <1>1, <1>2, <1>5, <1>6 DEF InLine
<1>11. InLine(p, a, t, got) BY <1>1, <1>8, <1>9, <1>10 DEF InLine
<1> QED BY <1>11 DEF a, t, h

LEMMA InLineSent ==
  ASSUME NEW p, NEW X, NEW o, NEW q \in Seq(X), NEW got, NEW x \in X,
         Len(o) \in Nat, InLine(p, o, q, got),
         \A t \in got : t[1] = p => t[2] < x.o
  PROVE  InLine(p, o, Append(q, x), got \cup {<<p, x.o>>})
<1> DEFINE a == Append(q, x)
           more == got \cup {<<p, x.o>>}
<1>1. /\ Len(q) \in Nat /\ Len(a) = Len(q) + 1 /\ a[Len(q) + 1] = x
      /\ \A i \in 1 .. Len(q) : a[i] = q[i]
  OBVIOUS
<1>2. \A k : <<p, k>> \in got => k < x.o
  <2> SUFFICES ASSUME NEW k, <<p, k>> \in got PROVE k < x.o OBVIOUS
  <2>1. <<p, k>>[1] = p /\ <<p, k>>[2] = k OBVIOUS
  <2> QED BY <2>1
<1>3. got \subseteq more /\ <<p, x.o>> \in more OBVIOUS
<1> HIDE DEF a, more
<1>4. \A i \in 1 .. Len(a) : i \in 1 .. Len(q) \/ i = Len(q) + 1 BY <1>1
<1>5. \A i, j \in 1 .. Len(a) : i < j => i \in 1 .. Len(q) BY <1>1
<1>6. /\ \A i \in 1 .. Len(q) : q[i].o < x.o
      /\ \A i \in 1 .. Len(o) : o[i] < x.o
  BY <1>2 DEF InLine
<1>7. \A i, j \in 1 .. Len(a) : i < j => a[i].o < a[j].o
  <2> SUFFICES ASSUME NEW i \in 1 .. Len(a), NEW j \in 1 .. Len(a), i < j PROVE a[i].o < a[j].o
    OBVIOUS
  <2>1. i \in 1 .. Len(q) BY <1>5
  <2>2. CASE j = Len(q) + 1 BY <1>1, <1>6, <2>1, <2>2
  <2>3. CASE j \in 1 .. Len(q) BY <1>1, <2>1, <2>3 DEF InLine
  <2> QED BY <1>4, <2>2, <2>3
<1>8. \A i \in 1 .. Len(o) : \A j \in 1 .. Len(a) : o[i] < a[j].o
  BY <1>1, <1>4, <1>6 DEF InLine
<1>9. \A i \in 1 .. Len(a) : <<p, a[i].o>> \in more BY <1>1, <1>3, <1>4 DEF InLine
<1>10. InLine(p, o, a, more) BY <1>3, <1>7, <1>8, <1>9 DEF InLine
<1> QED BY <1>10 DEF a, more

LEMMA SentStep ==
  ASSUME TypeOK, TypeOK', EarlyInv, RangesInv, ReadInv, SentInv, [Next]_vars
  PROVE  SentInv'
<1> USE DEF worldVars, lookupVars, loopVars, countVars, sendVars
<1> DEFINE Held == [o : Nat, ts : Nat]
<1>1. \A p \in Partition : InLine(p, out[p], pending[p], taken) BY DEF SentInv, InLine
<1>2. SUFFICES \A p \in Partition : InLine(p, out'[p], pending'[p], taken')
  BY DEF SentInv, InLine
<1>3. \A p \in Partition : pending[p] \in Seq(Held) /\ out[p] \in Seq(Nat) BY DEF TypeOK
<1>4. CASE UNCHANGED <<pending, out>> /\ taken \subseteq taken'
  BY <1>1, <1>4 DEF InLine
<1>5. CASE DeliveryFails
  <2>1. PICK q \in Partition : pending[q] # <<>> /\ pending' = [pending EXCEPT ![q] = Tail(@)]
    BY <1>5 DEF DeliveryFails
  <2>2. UNCHANGED <<out, taken>> BY <1>5 DEF DeliveryFails
  <2>3. InLine(q, out[q], Tail(pending[q]), taken)
    <3> HIDE DEF Held
    <3> QED BY <1>1, <1>3, <2>1, InLineTail
  <2>4. \A p \in Partition : pending'[p] = IF p = q THEN Tail(pending[q]) ELSE pending[p]
    BY <2>1 DEF TypeOK
  <2> QED BY <1>1, <2>2, <2>3, <2>4
<1>6. CASE Delivered
  <2>1. PICK q \in Partition : /\ pending[q] # <<>>
                               /\ out' = [out EXCEPT ![q] = Append(@, Head(pending[q]).o)]
                               /\ pending' = [pending EXCEPT ![q] = Tail(@)]
    BY <1>6 DEF Delivered, Reaches
  <2>2. UNCHANGED taken BY <1>6 DEF Delivered
  <2>3. Head(pending[q]).o \in Nat
    <3>1. 1 \in 1 .. Len(pending[q]) /\ Head(pending[q]) = pending[q][1] BY <1>3, <2>1
    <3> QED BY <3>1, HeldIs, LogTypes
  <2>4. InLine(q, Append(out[q], Head(pending[q]).o), Tail(pending[q]), taken)
    <3> HIDE DEF Held
    <3> QED BY <1>1, <1>3, <2>1, <2>3, InLineDelivered
  <2>5. \A p \in Partition :
           /\ pending'[p] = IF p = q THEN Tail(pending[q]) ELSE pending[p]
           /\ out'[p] = IF p = q THEN Append(out[q], Head(pending[q]).o) ELSE out[p]
    BY <2>1 DEF TypeOK
  <2> QED BY <1>1, <2>2, <2>4, <2>5
<1>7. CASE ReadAndSend
  <2>1. taken' = taken \cup {<<Here.p, pos>>} /\ UNCHANGED out /\ pc = "reading"
    BY <1>7 DEF ReadAndSend, HasRecord
  <2>2. CASE UNCHANGED pending BY <1>4, <2>1, <2>2
  <2>3. CASE pending' = [pending EXCEPT ![Here.p] = Append(@, [o |-> pos, ts |-> clock])]
    <3> DEFINE x == [o |-> pos, ts |-> clock]
               q == Here.p
    <3>1. x \in Held /\ x.o = pos BY DEF TypeOK
    <3>2. \A t \in taken : t[1] = q => t[2] < pos BY <2>1 DEF ReadInv
    <3>3. q \in Partition BY <2>1, TodoTypes DEF TypeOK
    <3>4. InLine(q, out[q], Append(pending[q], x), taken \cup {<<q, x.o>>})
      <4>1. Len(out[q]) \in Nat BY <1>3, <3>3
      <4> HIDE DEF Held, x, q
      <4> QED BY <1>1, <1>3, <3>1, <3>2, <3>3, <4>1, InLineSent
    <3>5. \A p \in Partition : pending'[p] = IF p = q THEN Append(pending[q], x) ELSE pending[p]
      BY <2>3 DEF TypeOK
    <3>6. \A p \in Partition : InLine(p, out[p], pending[p], taken') BY <1>1, <2>1 DEF InLine
    <3>7. taken' = taken \cup {<<q, x.o>>} BY <2>1, <3>1
    <3> HIDE DEF x, q
    <3> QED BY <2>1, <3>4, <3>5, <3>6, <3>7
  <2> QED BY <1>7, <2>2, <2>3 DEF ReadAndSend
<1>8. CASE Leaves \/ ReadIceberg \/ EndOffsets \/ ProducerStarts \/ NextPartition
             \/ EndReached \/ BudgetReached
  BY <1>4, <1>8 DEF Leaves, ReadIceberg, EndOffsets, ProducerStarts, NextPartition,
                    EndReached, BudgetReached, PartitionDone
<1> QED BY <1>4, <1>5, <1>6, <1>7, <1>8, Steps DEF Aside


(* What is read next has not been read. *)
LEMMA ReadsNew ==
  ASSUME TypeOK, ReadInv, ReadAndSend
  PROVE  <<Here.p, pos>> \notin taken
<1>1. pc = "reading" /\ pos \in Nat BY DEF ReadAndSend, HasRecord, TypeOK
<1>2. \A t \in taken : t[1] = Here.p => t[2] < pos BY <1>1 DEF ReadInv
<1>3. <<Here.p, pos>>[1] = Here.p /\ <<Here.p, pos>>[2] = pos OBVIOUS
<1> QED BY <1>1, <1>2, <1>3

LEMMA BudgetStep ==
  ASSUME TypeOK, TypeOK', EarlyInv, ReadInv, BudgetInv, [Next]_vars
  PROVE  BudgetInv'
<1> USE DEF worldVars, lookupVars, loopVars, countVars, sendVars
<1> DEFINE Counted == total + (IF pc \in {"next", "stopping", "done"} THEN 0 ELSE read)
<1>1. IsFiniteSet(taken) /\ Cardinality(taken) = Counted /\ WithinBudget BY DEF BudgetInv
<1>2. CASE ReadAndSend
  <2>1. /\ pc = "reading" /\ pc' = pc /\ total' = total /\ read' = read + 1 /\ args' = args
        /\ remaining' = remaining /\ taken' = taken \cup {<<Here.p, pos>>} /\ ~ Spent
    BY <1>2 DEF ReadAndSend, HasRecord
  <2>2. total \in Nat /\ read \in Nat BY DEF TypeOK
  <2>3. IsFiniteSet(taken') /\ Cardinality(taken') = Cardinality(taken) + 1
    BY <1>1, <1>2, <2>1, ReadsNew, FS_AddElement
  <2>4. Cardinality(taken') = total' + read' BY <1>1, <2>1, <2>2, <2>3
  <2>5. Remaining' = Remaining /\ NothingLeft' = NothingLeft BY <2>1 DEF Remaining, NothingLeft
  <2>6. remaining = Remaining /\ ~ NothingLeft BY <2>1 DEF BudgetInv
  <2>7. args.budget # NoBudget => Cardinality(taken') <= args.budget
    <3>1. args.budget # NoBudget => read < args.budget - total
      BY <2>1, <2>2, <2>6, BudgetTypes DEF Spent
    <3> QED BY <2>1, <2>2, <2>4, <3>1, BudgetTypes
  <2> QED BY <2>1, <2>3, <2>4, <2>5, <2>6, <2>7 DEF BudgetInv, WithinBudget
<1>3. ASSUME taken' = taken, args' = args PROVE WithinBudget' BY <1>1, <1>3 DEF WithinBudget
<1>4. CASE Aside
  <2>1. Remaining' = Remaining /\ NothingLeft' = NothingLeft BY <1>4 DEF Aside, Remaining, NothingLeft
  <2> QED BY <1>3, <1>4, <2>1 DEF Aside, BudgetInv
<1>5. CASE Leaves
  <2>1. Counted' = Counted
    <3>1. CASE pc' = pc BY <1>5, <3>1 DEF Leaves
    <3>2. CASE IcebergHasNothing \/ StartOffsets
      BY <1>5, <3>2 DEF Leaves, IcebergHasNothing, StartOffsets
    <3>3. CASE NothingToReplay \/ ProducerCannotStart
      BY <1>5, <3>3 DEF Leaves, NothingToReplay, ProducerCannotStart, BudgetInv
    <3>4. CASE NoMorePartitions \/ ProducerStopped \/ LoopRaises
      BY <1>5, <3>4 DEF Leaves, NoMorePartitions, ProducerStopped, LoopRaises
    <3>5. World \/ Sender \/ ReadAndSend \/ UNCHANGED vars => pc' = pc
      BY DEF World, Sender, vars, Ingest, Tick, Normalized, ReadAndSend, Delivered, DeliveryFails
    <3>6. ReadIceberg \/ EndOffsets \/ ProducerStarts \/ NextPartition \/ EndReached \/ BudgetReached
            => pc' \in {"resolved", "next", "reading"}
      BY DEF ReadIceberg, EndOffsets, ProducerStarts, NextPartition, EndReached, BudgetReached,
             PartitionDone
    <3>7. pc' \notin {"resolved", "next", "reading"} BY <1>5 DEF Leaves
    <3> HIDE DEF Counted
    <3> QED BY <3>1, <3>2, <3>3, <3>4, <3>5, <3>6, <3>7 DEF Next, Lookup, Control, Loop
  <2>2. pc' # "resolved" /\ pc' # "reading" /\ taken' = taken /\ args' = args BY <1>5 DEF Leaves
  <2> HIDE DEF Counted
  <2>3. IsFiniteSet(taken') /\ Cardinality(taken') = Counted' BY <1>1, <2>1, <2>2
  <2> QED BY <1>3, <2>2, <2>3 DEF BudgetInv, Counted
<1>6. CASE ReadIceberg \/ EndOffsets
  <2>1. /\ Early /\ pc' = "resolved" /\ read = 0 /\ total = 0
        /\ UNCHANGED <<args, total, read, taken>>
    BY <1>6 DEF ReadIceberg, EndOffsets, Early, EarlyInv
  <2> QED BY <1>1, <1>3, <2>1 DEF BudgetInv, Early
<1>7. CASE ProducerStarts
  <2>1. pc = "resolved" /\ pc' = "next" /\ UNCHANGED <<args, total, read, taken>> /\ read = 0
    BY <1>7 DEF ProducerStarts, BudgetInv
  <2> QED BY <1>1, <1>3, <2>1 DEF BudgetInv
<1>8. CASE NextPartition
  <2>1. /\ pc = "next" /\ pc' = "reading" /\ UNCHANGED <<args, total, taken>> /\ read' = 0
        /\ remaining' = Remaining /\ ~ NothingLeft
    BY <1>8 DEF NextPartition
  <2>2. Remaining' = Remaining /\ ~ NothingLeft' BY <2>1 DEF Remaining, NothingLeft
  <2> QED BY <1>1, <1>3, <2>1, <2>2 DEF BudgetInv
<1>9. CASE EndReached \/ BudgetReached
  <2>1. /\ pc = "reading" /\ pc' = "next" /\ UNCHANGED <<args, taken>> /\ total' = total + read
    BY <1>9, AheadDone DEF EndReached, BudgetReached, PartitionDone
  <2>2. total \in Nat /\ read \in Nat BY DEF TypeOK
  <2> QED BY <1>1, <1>3, <2>1, <2>2 DEF BudgetInv
<1> QED BY <1>2, <1>4, <1>5, <1>6, <1>7, <1>8, <1>9, Steps

(* Short of --events, something is left for the next partition, and the     *)
(* current one has not come to the end of what it was given.                *)
LEMMA NotFull ==
  ASSUME TypeOK, BudgetInv, ~ Full
  PROVE  /\ pc = "next" => ~ NothingLeft
         /\ pc = "reading" => ~ Spent
<1>1. total \in Nat /\ read \in Nat BY DEF TypeOK
<1>2. args.budget # NoBudget => args.budget \in Int /\ ~ (Cardinality(taken) >= args.budget)
  BY BudgetTypes DEF Full
<1>3. CASE pc = "next"
  <2>1. Cardinality(taken) = total BY <1>1, <1>3 DEF BudgetInv
  <2> QED BY <1>1, <1>2, <1>3, <2>1, BudgetTypes DEF NothingLeft
<1>4. CASE pc = "reading"
  <2>1. Cardinality(taken) = total + read /\ remaining = Remaining BY <1>4 DEF BudgetInv
  <2> QED BY <1>1, <1>2, <1>4, <2>1, BudgetTypes DEF Spent
<1> QED BY <1>3, <1>4

LEMMA FullStays ==
  ASSUME TypeOK, BudgetInv, BudgetInv', [Next]_vars, Full
  PROVE  Full'
<1> USE DEF worldVars, lookupVars, loopVars, countVars, sendVars
<1>1. args' = args /\ taken \in SUBSET taken'
  BY DEF Next, vars, World, Lookup, Control, Loop, Sender, Ingest, Tick, Normalized, ReadIceberg,
         IcebergHasNothing, StartOffsets, EndOffsets, NothingToReplay, ProducerStarts,
         ProducerCannotStart, NextPartition, NoMorePartitions, EndReached, BudgetReached,
         PartitionDone, ReadAndSend, LoopRaises, Delivered, DeliveryFails, ProducerStopped
<1>2. Cardinality(taken) <= Cardinality(taken') /\ IsFiniteSet(taken) /\ IsFiniteSet(taken')
  BY <1>1, FS_Subset DEF BudgetInv
<1>3. Cardinality(taken) \in Nat /\ Cardinality(taken') \in Nat BY <1>2, FS_CardinalityType
<1>5. args.budget # NoBudget /\ Cardinality(taken) >= args.budget BY DEF Full
<1>6. Cardinality(taken') >= args.budget
  <2> QED BY <1>2, <1>3, <1>5, BudgetTypes
<1> QED BY <1>1, <1>5, <1>6 DEF Full

(* A record of the window that is still to be read. *)
Waits(w) ==
  \E k \in 1 .. Len(todo) :
     /\ todo[k].p = w[1] /\ todo[k].from <= w[2] /\ w[2] < todo[k].to
     /\ k \in Ahead \/ pos <= w[2]

(* The end that Kafka gives lies behind every record of the window. *)
LEMMA KafkaCovers ==
  ASSUME TypeOK, EarlyInv, RangesInv, EndOffsets, NEW w \in wanted'
  PROVE  /\ w[1] \in Partition
         /\ KafkaRange(w[1]).from <= w[2] /\ w[2] < KafkaRange(w[1]).to
         /\ KafkaRange(w[1]).from < KafkaRange(w[1]).to
<1> DEFINE p == w[1]
           to == OffsetForTime(p, EndTs)
<1>0. PICK q \in Partition : w \in InTime(q) BY DEF EndOffsets
<1>1. /\ p \in Partition /\ w[2] \in Offsets(p) /\ w[2] \in Nat
      /\ firsts[p] < MaxOffset /\ InWindow(At(p, w[2]).ts)
  BY <1>0, LogTypes DEF InTime
<1>2. w[2] \in Offsets(p) /\ At(p, w[2]).ts < EndTs /\ firsts[p] <= w[2]
  BY <1>1, LogTypes, WindowAssumption DEF EndOffsets, EarlyInv, InWindow
<1>3. /\ to \in Nat /\ to <= MaxOffset
      /\ to < MaxOffset => to \in Offsets(p) /\ At(p, to).ts >= EndTs
  BY <1>1, OffsetForTimeIs
<1>4. w[2] < MaxOffset
  <2>1. Len(log[p]) \in Nat /\ Len(log[p]) <= MaxLog[p] BY <1>1, LogTypes DEF RangesInv
  <2>2. MaxLog[p] \in 0 .. MaxOffset - 1 /\ MaxOffset \in Nat BY <1>1, BoundAssumption
  <2> QED BY <1>1, <1>2, <2>1, <2>2 DEF Offsets
<1>5. \A o2 \in Offsets(p) : to \in Offsets(p) /\ to <= o2 => At(p, to).ts <= At(p, o2).ts
  BY <1>1 DEF EndOffsets, EarlyInv, Early
<1>6. w[2] < to
  <2> SUFFICES ASSUME to <= w[2] PROVE FALSE BY <1>1, <1>3
  <2>1. to < MaxOffset BY <1>1, <1>3, <1>4, BoundAssumption
  <2>2. to \in Offsets(p) /\ At(p, to).ts >= EndTs BY <1>3, <2>1
  <2>3. At(p, to).ts <= At(p, w[2]).ts BY <1>2, <1>5, <2>2
  <2>4. At(p, to).ts \in Nat /\ At(p, w[2]).ts \in Nat BY <1>1, <1>2, <2>2, LogTypes
  <2> HIDE DEF to
  <2> QED BY <1>2, <2>2, <2>3, <2>4, WindowAssumption
<1>7. KafkaRange(p).from = firsts[p] /\ KafkaRange(p).to = to BY DEF KafkaRange
<1>8. firsts[p] \in Nat BY <1>1 DEF TypeOK
<1> HIDE DEF to
<1> QED BY <1>1, <1>2, <1>3, <1>6, <1>7, <1>8

LEMMA CoverStep ==
  ASSUME TypeOK, TypeOK', EarlyInv, RangesInv, ReadInv, SentInv, BudgetInv, BudgetInv', CoverInv,
         [Next]_vars
  PROVE  CoverInv'
<1> USE DEF worldVars, lookupVars, loopVars, countVars, sendVars
<1>1. ~ Full' => ~ Full BY FullStays
<1> SUFFICES ASSUME ~ Full
             PROVE  /\ pc' \in {"resolved", "next", "reading"} =>
                          \A w \in wanted' \ taken' : Waits(w)'
                    /\ pc' \in {"stopping", "done"} => wanted' \subseteq taken'
  BY <1>1 DEF CoverInv, Waits
<1>2. pc \in {"resolved", "next", "reading"} => \A w \in wanted \ taken : Waits(w)
  BY DEF CoverInv, Waits
<1>3. pc \in {"stopping", "done"} => wanted \subseteq taken BY DEF CoverInv
<1>4. (pc = "next" => ~ NothingLeft) /\ (pc = "reading" => ~ Spent) BY NotFull
<1>5. todo = <<>> => \A w : ~ Waits(w) BY TodoTypes DEF Waits
<1>6. CASE Aside
  <2>1. \A w : Waits(w)' <=> Waits(w) BY <1>6 DEF Aside, Waits, Ahead
  <2> QED BY <1>2, <1>3, <1>6, <2>1 DEF Aside
<1>7. CASE Leaves
  <2> SUFFICES ASSUME pc' \in {"stopping", "done"} PROVE wanted' \subseteq taken' BY <1>7 DEF Leaves
  <2>1. \/ UNCHANGED <<pc, wanted>>
        \/ NothingToReplay \/ NoMorePartitions \/ ProducerStopped
    BY DEF Next, vars, World, Lookup, Control, Loop, Sender, Ingest, Tick, Normalized, ReadIceberg,
           IcebergHasNothing, StartOffsets, EndOffsets, ProducerStarts, ProducerCannotStart,
           NextPartition, EndReached, BudgetReached, PartitionDone, ReadAndSend, LoopRaises,
           Delivered, DeliveryFails
  <2>2. UNCHANGED taken BY <1>7 DEF Leaves
  <2>3. CASE UNCHANGED <<pc, wanted>> BY <1>3, <2>2, <2>3
  <2>4. CASE NothingToReplay BY <1>2, <1>5, <2>2, <2>4 DEF NothingToReplay
  <2>5. CASE NoMorePartitions BY <1>2, <1>4, <1>5, <2>2, <2>5 DEF NoMorePartitions
  <2>6. CASE ProducerStopped BY <1>3, <2>2, <2>6 DEF ProducerStopped
  <2> QED BY <2>1, <2>3, <2>4, <2>5, <2>6
<1>8. CASE ReadIceberg
  <2>1. pc' = "resolved" /\ wanted' = Rows BY <1>8 DEF ReadIceberg
  <2>2. ASSUME NEW w \in Rows PROVE Waits(w)'
    <3>1. PICK k \in 1 .. Len(todo') : todo'[k] = IcebergRange(w[1]) BY <1>8, IcebergLookedUp
    <3>2. todo'[k].p = w[1] /\ todo'[k].from <= w[2] /\ w[2] < todo'[k].to
      BY <3>1, IcebergRangeIs
    <3> QED BY <2>1, <3>2 DEF Waits, Ahead
  <2> QED BY <2>1, <2>2
<1>9. CASE EndOffsets
  <2>1. pc' = "resolved" BY <1>9 DEF EndOffsets
  <2>2. ASSUME NEW w \in wanted' PROVE Waits(w)'
    <3>1. PICK k \in 1 .. Len(todo') : todo'[k] = KafkaRange(w[1])
      BY <1>9, KafkaLookedUp, KafkaCovers
    <3>2. todo'[k].p = w[1] /\ todo'[k].from <= w[2] /\ w[2] < todo'[k].to
      BY <1>9, <3>1, KafkaCovers DEF KafkaRange
    <3> QED BY <2>1, <3>2 DEF Waits, Ahead
  <2> QED BY <2>1, <2>2
<1>10. CASE ProducerStarts
  <2>1. /\ pc = "resolved" /\ pc' = "next" /\ Ahead' = Ahead
        /\ UNCHANGED <<wanted, taken, todo, pos>>
    BY <1>10 DEF ProducerStarts, Ahead
  <2> QED BY <1>2, <2>1 DEF Waits
<1>11. CASE NextPartition
  <2>1. /\ pc = "next" /\ pc' = "reading" /\ pos' = todo[1].from
        /\ UNCHANGED <<wanted, taken, todo>>
    BY <1>11, TodoTypes DEF NextPartition, Here
  <2>2. \A k \in 1 .. Len(todo) : k = 1 \/ k \in Ahead' BY <2>1 DEF Ahead
  <2> QED BY <1>2, <2>1, <2>2 DEF Waits
<1>12. CASE EndReached \/ BudgetReached
  <2>1. EndReached BY <1>4, <1>12 DEF BudgetReached, HasRecord
  <2>2. pos >= todo[1].to /\ pos \in Nat /\ todo[1].to \in Nat
    BY <1>12, <2>1, AheadDone, TodoTypes DEF EndReached, PastEnd, TypeOK
  <2>3. ASSUME NEW w \in wanted \ taken PROVE Waits(w)'
    <3>1. Waits(w) /\ w[2] \in Nat BY <1>2, <1>12, AheadDone DEF TypeOK
    <3>2. PICK k \in 1 .. Len(todo) :
             /\ todo[k].p = w[1] /\ todo[k].from <= w[2] /\ w[2] < todo[k].to
             /\ k \in Ahead \/ pos <= w[2]
      BY <3>1 DEF Waits
    <3>3. k # 1 BY <1>12, <2>2, <3>1, <3>2, AheadDone DEF Ahead
    <3>4. k \in Ahead BY <1>12, <3>3, AheadDone DEF Ahead
    <3>5. k - 1 \in Ahead' /\ todo'[k - 1] = todo[k] BY <1>12, <3>4, AheadDone
    <3>6. k - 1 \in 1 .. Len(todo') BY <3>5 DEF Ahead
    <3> QED BY <3>2, <3>5, <3>6 DEF Waits
  <2> QED BY <1>12, <2>3, AheadDone
<1>13. CASE ReadAndSend
  <2>1. /\ pc = "reading" /\ pc' = pc /\ pos' = pos + 1 /\ pos \in Nat /\ Ahead' = Ahead
        /\ taken' = taken \cup {<<Here.p, pos>>} /\ UNCHANGED <<wanted, todo>>
        /\ Here = todo[1]
    BY <1>13, TodoTypes DEF ReadAndSend, HasRecord, Ahead, TypeOK
  <2>2. ASSUME NEW w \in wanted \ taken' PROVE Waits(w)'
    <3>1. w \in wanted \ taken /\ w[2] \in Nat /\ w = <<w[1], w[2]>>
      <4>1. w \in wanted \ taken BY <2>1, <2>2
      <4>2. wanted \subseteq Partition \X Nat BY DEF TypeOK
      <4> QED BY <4>1, <4>2
    <3>2. PICK k \in 1 .. Len(todo) :
             /\ todo[k].p = w[1] /\ todo[k].from <= w[2] /\ w[2] < todo[k].to
             /\ k \in Ahead \/ pos <= w[2]
      BY <1>2, <2>1, <3>1 DEF Waits
    <3>3. CASE k \in Ahead BY <2>1, <3>2, <3>3 DEF Waits
    <3>4. CASE k \notin Ahead
      <4>1. k = 1 /\ pos <= w[2] BY <2>1, <3>2, <3>4 DEF Ahead
      <4>2. w[2] # pos BY <2>1, <2>2, <3>1, <3>2, <4>1
      <4>3. pos' <= w[2] BY <2>1, <3>1, <4>1, <4>2
      <4> QED BY <2>1, <3>2, <4>3 DEF Waits
    <3> QED BY <3>3, <3>4
  <2> QED BY <2>1, <2>2
<1> QED BY <1>6, <1>7, <1>8, <1>9, <1>10, <1>11, <1>12, <1>13, Steps

-----------------------------------------------------------------------------
(* IInv holds in every reachable state.                                     *)
THEOREM InductiveInvariant == Spec => []IInv
<1>1. Init => IInv BY InitInv
<1>2. IInv /\ [Next]_vars => IInv'
  <2> SUFFICES ASSUME IInv, [Next]_vars PROVE IInv' OBVIOUS
  <2>1. /\ TypeOK /\ EarlyInv /\ RangesInv /\ ReadInv /\ SentInv /\ BudgetInv /\ CoverInv
    BY DEF IInv
  <2>2. TypeOK' BY <2>1, TypeStep
  <2>3. EarlyInv' BY <2>1, EarlyStep
  <2>4. RangesInv' BY <2>1, <2>2, RangesStep
  <2>5. ReadInv' BY <2>1, <2>2, ReadStep
  <2>6. SentInv' BY <2>1, <2>2, SentStep
  <2>7. BudgetInv' BY <2>1, <2>2, BudgetStep
  <2>8. CoverInv' BY <2>1, <2>2, <2>7, CoverStep
  <2> QED BY <2>2, <2>3, <2>4, <2>5, <2>6, <2>7, <2>8 DEF IInv
<1> QED BY <1>1, <1>2, PTL DEF Spec

(* A replay run keeps its state in its types, and has a range in hand       *)
(* whenever it reads (_replay_partition() is given one).                    *)
THEOREM TypeCorrectness == Spec => []TypeOK
<1>1. IInv => TypeOK BY DEF IInv
<1> QED BY <1>1, InductiveInvariant, PTL

(* run_replay() never reads more records, over all its partitions, than     *)
(* --events allows: each partition counts its own and is given what those   *)
(* before it have left.                                                     *)
THEOREM BudgetKept == Spec => []WithinBudget
<1>1. IInv => WithinBudget BY DEF IInv, BudgetInv
<1> QED BY <1>1, InductiveInvariant, PTL

(* No offset reaches the target twice, and the copies of a partition keep   *)
(* its order, though deliveries are awaited by nobody and may fail, and the *)
(* topic that is read may be the one that is written.                       *)
THEOREM CopiedOnce == Spec => []CopiedOnceInOrder
<1>1. IInv => CopiedOnceInOrder BY DEF IInv, SentInv, CopiedOnceInOrder
<1> QED BY <1>1, InductiveInvariant, PTL

(* A run that returns has read every record that was in the window by the   *)
(* time of the lookup, whichever of the two lookups found the ranges and    *)
(* whatever was appended between the two requests of the second, or else as *)
(* many as --events asks for.                                               *)
THEOREM Covered == Spec => []WindowCovered
<1>1. IInv => WindowCovered BY DEF IInv, CoverInv, Full, WindowCovered
<1> QED BY <1>1, InductiveInvariant, PTL

(* While the current range has an end in the log, the loop has read none of *)
(* the records of that partition that this very run has appended.           *)
THEOREM OwnCopiesUnread == Spec => []NoFeedback
<1>1. IInv => NoFeedback
  <2> SUFFICES ASSUME IInv, pc = "reading", Here.to < MaxOffset,
                      NEW t \in taken, t[1] = Here.p
               PROVE  ~ At(t[1], t[2]).copy
    BY DEF NoFeedback
  <2>1. TypeOK /\ RangesInv /\ ReadInv BY DEF IInv
  <2>2. Here = todo[1] /\ 1 \in 1 .. Len(todo) BY <2>1, TodoTypes DEF TypeOK
  <2>3. t[2] \in Nat /\ t[2] < Here.to /\ Here.to \in Nat
    BY <2>1, <2>2, TodoTypes DEF TypeOK, ReadInv
  <2>4. \A o \in 0 .. (Here.to - 1) : ~ At(Here.p, o).copy BY <2>1, <2>2 DEF RangesInv
  <2> QED BY <2>3, <2>4
<1> QED BY <1>1, InductiveInvariant, PTL

=============================================================================
