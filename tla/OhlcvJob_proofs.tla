--------------------------- MODULE OhlcvJob_proofs ---------------------------
(***************************************************************************)
(* What holds of the bar job for all partitions, windows, delays, ticks    *)
(* and bounds: a window has one bar in the table, every priced tick before *)
(* a checkpoint is in one place, and a tick is late only by its own        *)
(* partition.                                                              *)
(*                                                                         *)
(* One predicate, Sound, says of offsets, watermark, open windows, late    *)
(* ticks and the bars so far that they belong together.  The invariant is   *)
(* that it holds of the running job, of the checkpoint under way and of the *)
(* completed one, each with the bars up to it, committed or not.           *)
(***************************************************************************)
EXTENDS OhlcvJob, Lemmas, SequenceTheorems

-----------------------------------------------------------------------------
(* Sound, of a topic tp.                                                    *)

Stored(tp) == {r \in Partition \X (1 .. MaxTicks + MaxRepeats) : r[2] \in DOMAIN tp[r[1]]}

InWindow(tp, r) == tp[r[1]][r[2]].ts \div Width

ReadTo(tp, off) == {r \in Stored(tp) : r[2] <= off[r[1]] /\ tp[r[1]][r[2]].priced}

(* Every partition has shown a tick that allows the watermark. *)
Marked(tp, off, mark) ==
    /\ mark \in Int /\ mark >= NoWatermark
    /\ mark > NoWatermark =>
          \A p \in Partition : \E i \in 1 .. off[p] : mark <= tp[p][i].ts - Delay

(* The bars are those of different windows behind the watermark. *)
Closed(tp, mark, op, all) ==
    /\ \A r \in op : ~ Fired(InWindow(tp, r), mark)
    /\ \A i \in 1 .. Len(all) : Fired(all[i].window, mark)
    /\ \A i, j \in 1 .. Len(all) : all[i].window = all[j].window => i = j

Accounted(tp, off, op, lt, all) ==
    /\ ReadTo(tp, off) = RecordsOf(all) \cup op \cup lt
    /\ RecordsOf(all) \cap (op \cup lt) = {}
    /\ op \cap lt = {}

Behind(tp, lt) ==
    \A r \in lt : \E i \in 1 .. r[2] - 1 : Fired(InWindow(tp, r), tp[r[1]][i].ts - Delay)

Sound(tp, off, mark, op, lt, all) ==
    /\ off \in [Partition -> Nat] /\ \A p \in Partition : off[p] <= Len(tp[p])
    /\ all \in Seq(Bar)
    /\ Marked(tp, off, mark) /\ Closed(tp, mark, op, all)
    /\ Accounted(tp, off, op, lt, all) /\ Behind(tp, lt)

-----------------------------------------------------------------------------
(* The invariant.                                                           *)

(* All bars up to the completed checkpoint, the one under way, and now. *)
Base == IF pending THEN bars \o ckpt.bars ELSE bars
Cut  == IF saved = NotUnderWay THEN Base ELSE Base \o saved.bars
All  == Cut \o written

ShapeInv ==
    /\ topic \in [Partition -> Seq(Tick)] /\ ticks \in Nat /\ repeats \in Nat
    /\ status \in {"running", "restarting", "failed"} /\ failures \in Nat
    /\ offset \in [Partition -> Nat] /\ maxTs \in [Partition -> Nat \cup {NoTs}] /\ wm \in Int
    /\ written \in Seq(Bar) /\ bars \in Seq(Bar) /\ pending \in BOOLEAN

TopicInv ==
    /\ \A p \in Partition : Len(topic[p]) <= ticks + repeats
    /\ ticks <= MaxTicks /\ repeats <= MaxRepeats

MaxTsInv ==
    \A p \in Partition : \/ maxTs[p] = NoTs
                         \/ \E i \in 1 .. offset[p] : maxTs[p] = topic[p][i].ts

IdleInv ==
    status # "running" =>
        /\ offset = NoCheckpoint.offset /\ maxTs = [p \in Partition |-> NoTs]
        /\ wm = NoWatermark /\ open = {} /\ late = {} /\ written = <<>>
        /\ saved = NotUnderWay

Fields == {"offset", "wm", "open", "late", "bars"}

CkptInv ==
    /\ DOMAIN ckpt = Fields /\ DOMAIN saved = Fields
    /\ ckpt.bars \in Seq(Bar) /\ saved.bars \in Seq(Bar)
    /\ saved # NotUnderWay => ~ pending

SoundInv ==
    /\ Sound(topic, ckpt.offset, ckpt.wm, ckpt.open, ckpt.late, Base)
    /\ saved # NotUnderWay => Sound(topic, saved.offset, saved.wm, saved.open, saved.late, Cut)
    /\ status = "running" => Sound(topic, offset, wm, open, late, All)

IInv == ShapeInv /\ TopicInv /\ MaxTsInv /\ IdleInv /\ CkptInv /\ SoundInv

-----------------------------------------------------------------------------
(* Windows, watermarks and sequences of bars.                               *)

LEMMA WindowEnds ==
  ASSUME NEW w \in Nat
  PROVE  WindowEnd(w) \in Nat /\ WindowEnd(w) >= 1
<1>1. WindowEnd(w) = w * Width + Width BY TimeAssumption DEF WindowEnd
<1>2. w * Width \in Nat BY TimeAssumption
<1> QED BY <1>1, <1>2, TimeAssumption

LEMMA FiredLater ==
  ASSUME NEW w \in Nat, NEW m \in Int, NEW n \in Int, m <= n, Fired(w, m)
  PROVE  Fired(w, n)
  BY WindowEnds DEF Fired

LEMMA NotFiredYet ==
  ASSUME NEW w \in Nat
  PROVE  ~ Fired(w, NoWatermark)
  BY WindowEnds, TimeAssumption DEF Fired, NoWatermark

LEMMA TumbleType ==
  ASSUME NEW ts \in Nat
  PROVE  ts \div Width \in Nat
  BY TimeAssumption

(* A record of the topic is a tick of a window. *)
LEMMA StoredTypes ==
  ASSUME NEW tp \in [Partition -> Seq(Tick)], NEW r \in Stored(tp)
  PROVE  /\ r[1] \in Partition /\ r[2] \in Nat /\ r[2] \in 1 .. Len(tp[r[1]])
         /\ r = <<r[1], r[2]>> /\ r \in Ref
         /\ tp[r[1]][r[2]] \in Tick /\ tp[r[1]][r[2]].ts \in Nat
         /\ InWindow(tp, r) \in Nat
<1>1. /\ r[1] \in Partition /\ r[2] \in 1 .. MaxTicks + MaxRepeats /\ r = <<r[1], r[2]>>
      /\ r[2] \in DOMAIN tp[r[1]]
  BY DEF Stored
<1>2. MaxTicks + MaxRepeats \in Nat BY BoundAssumption
<1>3. r[2] \in Nat \ {0} BY <1>1, <1>2
<1>4. tp[r[1]] \in Seq(Tick) BY <1>1
<1>5. r[2] \in 1 .. Len(tp[r[1]]) BY <1>1, <1>4
<1>6. tp[r[1]][r[2]] \in Tick
  <2> HIDE DEF Tick
  <2> QED BY <1>4, <1>5
<1>7. tp[r[1]][r[2]].ts \in Nat BY <1>6 DEF Tick
<1>8. InWindow(tp, r) \in Nat
  <2> DEFINE ts == tp[r[1]][r[2]].ts
  <2>1. ts \in Nat BY <1>7
  <2> HIDE DEF ts
  <2>2. ts \div Width \in Nat BY <2>1, TumbleType
  <2> QED BY <2>2 DEF InWindow, ts
<1>9. r \in Ref BY <1>1, <1>3 DEF Ref
<1> QED BY <1>1, <1>3, <1>5, <1>6, <1>7, <1>8, <1>9

LEMMA BarTypes ==
  ASSUME NEW s \in Seq(Bar), NEW i \in 1 .. Len(s)
  PROVE  s[i] \in Bar /\ s[i].window \in Nat
<1>1. s[i] \in Bar OBVIOUS
<1> QED BY <1>1 DEF Bar

LEMMA ConcatIs ==
  ASSUME NEW s \in Seq(Bar), NEW t \in Seq(Bar)
  PROVE  /\ s \o t \in Seq(Bar) /\ Len(s \o t) = Len(s) + Len(t)
         /\ Len(s) \in Nat /\ Len(t) \in Nat
         /\ \A i \in 1 .. Len(s) : (s \o t)[i] = s[i]
         /\ \A i \in 1 .. Len(t) : (s \o t)[Len(s) + i] = t[i]
         /\ \A i \in 1 .. Len(s \o t) : \/ i \in 1 .. Len(s)
                                        \/ i - Len(s) \in 1 .. Len(t)
  OBVIOUS

LEMMA RecordsOfConcat ==
  ASSUME NEW s \in Seq(Bar), NEW t \in Seq(Bar)
  PROVE  RecordsOf(s \o t) = RecordsOf(s) \cup RecordsOf(t)
<1> DEFINE u == s \o t
<1>1. /\ u \in Seq(Bar) /\ Len(s) \in Nat /\ Len(t) \in Nat /\ Len(u) = Len(s) + Len(t)
      /\ \A i \in 1 .. Len(s) : u[i] = s[i]
      /\ \A i \in 1 .. Len(t) : u[Len(s) + i] = t[i]
      /\ \A i \in 1 .. Len(u) : i \in 1 .. Len(s) \/ i - Len(s) \in 1 .. Len(t)
  BY ConcatIs
<1> HIDE DEF u
<1>2. DOMAIN u = 1 .. Len(u) /\ DOMAIN s = 1 .. Len(s) /\ DOMAIN t = 1 .. Len(t) BY <1>1
<1>3. \A x : x \in RecordsOf(u) <=> \E i \in 1 .. Len(u) : x \in u[i].records
  BY <1>2 DEF RecordsOf
<1>4. \A x : x \in RecordsOf(s) <=> \E i \in 1 .. Len(s) : x \in s[i].records
  BY <1>2 DEF RecordsOf
<1>5. \A x : x \in RecordsOf(t) <=> \E i \in 1 .. Len(t) : x \in t[i].records
  BY <1>2 DEF RecordsOf
<1>6. ASSUME NEW x \in RecordsOf(u) PROVE x \in RecordsOf(s) \cup RecordsOf(t)
  <2>1. PICK i \in 1 .. Len(u) : x \in u[i].records BY <1>3, <1>6
  <2>2. CASE i \in 1 .. Len(s) BY <1>1, <1>4, <2>1, <2>2
  <2>3. CASE i - Len(s) \in 1 .. Len(t)
    <3>1. Len(s) + (i - Len(s)) = i BY <1>1, <2>1
    <3>2. u[i] = t[i - Len(s)] BY <1>1, <2>3, <3>1
    <3> QED BY <1>5, <2>1, <2>3, <3>2
  <2> QED BY <1>1, <2>2, <2>3
<1>7. ASSUME NEW x \in RecordsOf(s) PROVE x \in RecordsOf(u)
  <2>1. PICK i \in 1 .. Len(s) : x \in s[i].records BY <1>4, <1>7
  <2>2. i \in 1 .. Len(u) BY <1>1
  <2> QED BY <1>1, <1>3, <2>1, <2>2
<1>8. ASSUME NEW x \in RecordsOf(t) PROVE x \in RecordsOf(u)
  <2>1. PICK i \in 1 .. Len(t) : x \in t[i].records BY <1>5, <1>8
  <2>2. Len(s) + i \in 1 .. Len(u) BY <1>1
  <2> QED BY <1>1, <1>3, <2>1, <2>2
<1>9. RecordsOf(u) = RecordsOf(s) \cup RecordsOf(t) BY <1>6, <1>7, <1>8
<1> QED BY <1>9 DEF u

-----------------------------------------------------------------------------
(* Sound while the topic grows.                                             *)

Grown(tp, tp2) ==
    /\ tp \in [Partition -> Seq(Tick)] /\ tp2 \in [Partition -> Seq(Tick)]
    /\ \A p \in Partition :
          /\ Len(tp[p]) <= Len(tp2[p]) /\ Len(tp2[p]) <= MaxTicks + MaxRepeats
          /\ \A i \in 1 .. Len(tp[p]) : tp2[p][i] = tp[p][i]

LEMMA StoredGrows ==
  ASSUME NEW tp, NEW tp2, Grown(tp, tp2), NEW r \in Stored(tp)
  PROVE  r \in Stored(tp2) /\ tp2[r[1]][r[2]] = tp[r[1]][r[2]] /\ InWindow(tp2, r) = InWindow(tp, r)
<1>1. tp \in [Partition -> Seq(Tick)] /\ tp2 \in [Partition -> Seq(Tick)] BY DEF Grown
<1>2. /\ r[1] \in Partition /\ r[2] \in Nat /\ r[2] \in 1 .. Len(tp[r[1]]) /\ r = <<r[1], r[2]>>
  BY <1>1, StoredTypes
<1>3. /\ Len(tp[r[1]]) \in Nat /\ Len(tp2[r[1]]) \in Nat /\ DOMAIN tp2[r[1]] = 1 .. Len(tp2[r[1]])
      /\ Len(tp[r[1]]) <= Len(tp2[r[1]])
  BY <1>1, <1>2 DEF Grown
<1>4. r[2] \in DOMAIN tp2[r[1]] BY <1>2, <1>3
<1>5. r \in Stored(tp2) BY <1>4 DEF Stored
<1>6. tp2[r[1]][r[2]] = tp[r[1]][r[2]] BY <1>2 DEF Grown
<1> QED BY <1>5, <1>6 DEF InWindow

LEMMA ReadToGrows ==
  ASSUME NEW tp, NEW tp2, Grown(tp, tp2), NEW off \in [Partition -> Nat],
         \A p \in Partition : off[p] <= Len(tp[p])
  PROVE  ReadTo(tp2, off) = ReadTo(tp, off)
<1>1. tp \in [Partition -> Seq(Tick)] /\ tp2 \in [Partition -> Seq(Tick)] BY DEF Grown
<1>2. ReadTo(tp, off) \subseteq ReadTo(tp2, off) BY StoredGrows DEF ReadTo
<1>3. ASSUME NEW r \in ReadTo(tp2, off) PROVE r \in ReadTo(tp, off)
  <2>1. r \in Stored(tp2) /\ r[2] <= off[r[1]] /\ tp2[r[1]][r[2]].priced BY DEF ReadTo
  <2>2. r[1] \in Partition /\ r[2] \in Nat /\ r[2] \in 1 .. Len(tp2[r[1]]) BY <1>1, <2>1, StoredTypes
  <2>3. Len(tp[r[1]]) \in Nat /\ off[r[1]] \in Nat /\ DOMAIN tp[r[1]] = 1 .. Len(tp[r[1]])
    BY <1>1, <2>2
  <2>4. r[2] \in DOMAIN tp[r[1]] BY <2>1, <2>2, <2>3
  <2>5. r \in Stored(tp) BY <2>1, <2>4 DEF Stored
  <2>6. tp2[r[1]][r[2]] = tp[r[1]][r[2]] BY <2>5, StoredGrows
  <2> QED BY <2>1, <2>5, <2>6 DEF ReadTo
<1> QED BY <1>2, <1>3

LEMMA SoundGrows ==
  ASSUME NEW tp, NEW tp2, Grown(tp, tp2), NEW off, NEW mark, NEW op, NEW lt, NEW all,
         Sound(tp, off, mark, op, lt, all)
  PROVE  Sound(tp2, off, mark, op, lt, all)
<1>1. /\ off \in [Partition -> Nat] /\ \A p \in Partition : off[p] <= Len(tp[p])
      /\ tp \in [Partition -> Seq(Tick)] /\ tp2 \in [Partition -> Seq(Tick)]
  BY DEF Sound, Grown
<1>2. \A p \in Partition : off[p] <= Len(tp2[p]) /\ \A i \in 1 .. off[p] : tp2[p][i] = tp[p][i]
  <2> TAKE p \in Partition
  <2>1. Len(tp[p]) \in Nat /\ Len(tp2[p]) \in Nat /\ off[p] \in Nat BY <1>1
  <2> QED BY <1>1, <2>1 DEF Grown
<1>3. Accounted(tp, off, op, lt, all) BY DEF Sound
<1>4. Accounted(tp2, off, op, lt, all) BY <1>1, <1>3, ReadToGrows DEF Accounted
<1>5. \A r \in op \cup lt : r \in Stored(tp) BY <1>3 DEF Accounted, ReadTo
<1>6. Marked(tp2, off, mark) BY <1>2 DEF Sound, Marked
<1>7. Closed(tp2, mark, op, all) BY <1>5, StoredGrows DEF Sound, Closed
<1>8. Behind(tp2, lt)
  <2> SUFFICES ASSUME NEW r \in lt
               PROVE  \E i \in 1 .. r[2] - 1 : Fired(InWindow(tp2, r), tp2[r[1]][i].ts - Delay)
    BY DEF Behind
  <2>1. r \in Stored(tp) BY <1>5
  <2>2. PICK i \in 1 .. r[2] - 1 : Fired(InWindow(tp, r), tp[r[1]][i].ts - Delay)
    BY DEF Sound, Behind
  <2>3. r[1] \in Partition /\ r[2] \in 1 .. Len(tp[r[1]]) BY <1>1, <2>1, StoredTypes
  <2>4. i \in 1 .. Len(tp[r[1]]) BY <1>1, <2>3
  <2>5. tp2[r[1]][i] = tp[r[1]][i] BY <2>3, <2>4 DEF Grown
  <2>6. InWindow(tp2, r) = InWindow(tp, r) BY <2>1, StoredGrows
  <2> QED BY <2>2, <2>5, <2>6
<1> QED BY <1>1, <1>2, <1>4, <1>6, <1>7, <1>8 DEF Sound


LEMMA TopicFacts ==
  ASSUME ShapeInv, TopicInv
  PROVE  /\ Records = Stored(topic) /\ \A r : WindowOf(r) = InWindow(topic, r)
         /\ \A r : Record(r) = topic[r[1]][r[2]]
         /\ \A p \in Partition : /\ Len(topic[p]) \in Nat /\ DOMAIN topic[p] = 1 .. Len(topic[p])
                                 /\ Len(topic[p]) <= MaxTicks + MaxRepeats
         /\ Grown(topic, topic)
<1>1. \A p \in Partition : /\ Len(topic[p]) \in Nat /\ DOMAIN topic[p] = 1 .. Len(topic[p])
                           /\ Len(topic[p]) <= MaxTicks + MaxRepeats
  <2> TAKE p \in Partition
  <2>1. topic[p] \in Seq(Tick) BY DEF ShapeInv
  <2>2. Len(topic[p]) \in Nat /\ DOMAIN topic[p] = 1 .. Len(topic[p]) BY <2>1
  <2>3. Len(topic[p]) <= ticks + repeats /\ ticks <= MaxTicks /\ repeats <= MaxRepeats
        /\ ticks \in Nat /\ repeats \in Nat /\ MaxTicks \in Nat /\ MaxRepeats \in Nat
    BY BoundAssumption DEF TopicInv, ShapeInv
  <2> QED BY <2>2, <2>3
<1>2. Grown(topic, topic) BY <1>1 DEF Grown, ShapeInv
<1> QED BY <1>1, <1>2 DEF Records, Stored, WindowOf, InWindow, Record

(* What is sound is of the types of TypeOK. *)
LEMMA SoundTypes ==
  ASSUME ShapeInv, TopicInv, NEW off, NEW mark, NEW op, NEW lt, NEW all,
         Sound(topic, off, mark, op, lt, all)
  PROVE  /\ op \subseteq Records /\ lt \subseteq Records /\ op \subseteq Stored(topic)
         /\ mark \in Int /\ \A r \in op : ~ Fired(WindowOf(r), mark)
  BY TopicFacts DEF Sound, Marked, Closed, Accounted, ReadTo

LEMMA TypesFollow == IInv => TypeOK
<1> SUFFICES ASSUME IInv PROVE TypeOK OBVIOUS
<1> USE DEF IInv
<1>1. /\ open \subseteq Records /\ late \subseteq Records
      /\ \A r \in open : ~ Fired(WindowOf(r), wm)
      /\ \A p \in Partition : offset[p] <= Len(topic[p])
  <2>1. CASE status = "running" BY <2>1, SoundTypes DEF SoundInv, Sound
  <2>2. CASE status # "running" BY <2>2, TopicFacts DEF IdleInv, NoCheckpoint
  <2> QED BY <2>1, <2>2
<1>2. DOMAIN saved = DOMAIN ckpt BY DEF CkptInv
<1> QED BY <1>1, <1>2 DEF ShapeInv, TypeOK

LEMMA MaxTypes ==
  ASSUME NEW a \in Nat \cup {NoTs}, NEW b \in Nat
  PROVE  Max({a, b}) \in {a, b}
<1>1. \E x \in {a, b} : \A y \in {a, b} : x >= y BY DEF NoTs
<1> QED BY <1>1 DEF Max

LEMMA SequencesOfBars ==
  ASSUME ShapeInv, CkptInv
  PROVE  Base \in Seq(Bar) /\ Cut \in Seq(Bar) /\ All \in Seq(Bar)
<1>1. Base \in Seq(Bar) BY ConcatIs DEF Base, ShapeInv, CkptInv
<1>2. Cut \in Seq(Bar) BY <1>1, ConcatIs DEF Cut, CkptInv
<1>3. All \in Seq(Bar) BY <1>2, ConcatIs DEF All, ShapeInv
<1> QED BY <1>1, <1>2, <1>3

-----------------------------------------------------------------------------
(* The steps.                                                               *)

LEMMA InitInv == Init => IInv
<1> SUFFICES ASSUME Init PROVE IInv OBVIOUS
<1> USE DEF Init
<1>1. NoWatermark \in Int /\ NoCheckpoint.offset \in [Partition -> Nat]
  BY TimeAssumption DEF NoWatermark, NoCheckpoint
<1>2. \A p \in Partition : topic[p] = <<>> /\ Len(topic[p]) = 0 OBVIOUS
<1>3. ShapeInv
  <2>1. topic \in [Partition -> Seq(Tick)] /\ written \in Seq(Bar) /\ bars \in Seq(Bar)
    <3>1. <<>> \in Seq(Tick) /\ <<>> \in Seq(Bar) OBVIOUS
    <3> QED BY <3>1
  <2>2. maxTs \in [Partition -> Nat \cup {NoTs}] BY DEF NoTs
  <2>3. ticks \in Nat /\ repeats \in Nat /\ failures \in Nat OBVIOUS
  <2>4. /\ offset \in [Partition -> Nat] /\ wm \in Int /\ pending \in BOOLEAN
        /\ status \in {"running", "restarting", "failed"}
    BY <1>1
  <2> QED BY <2>1, <2>2, <2>3, <2>4 DEF ShapeInv
<1>4. TopicInv BY <1>2, BoundAssumption DEF TopicInv
<1>5. MaxTsInv /\ IdleInv BY DEF MaxTsInv, IdleInv
<1>6. CkptInv BY DEF CkptInv, NotUnderWay, NoCheckpoint, Fields
<1>7. Base = <<>> /\ Cut = <<>> /\ All = <<>>
  <2>1. <<>> \o <<>> = <<>> OBVIOUS
  <2> QED BY <2>1 DEF Base, Cut, All
<1>8. Sound(topic, NoCheckpoint.offset, NoWatermark, {}, {}, <<>>)
  <2>1. /\ NoCheckpoint.offset \in [Partition -> Nat]
        /\ \A p \in Partition : NoCheckpoint.offset[p] = 0 /\ 0 <= Len(topic[p])
    BY <1>1, <1>2 DEF NoCheckpoint
  <2>2. RecordsOf(<<>>) = {} BY DEF RecordsOf
  <2>3. Stored(topic) = {} BY <1>2 DEF Stored
  <2>4. Accounted(topic, NoCheckpoint.offset, {}, {}, <<>>) BY <2>2, <2>3 DEF Accounted, ReadTo
  <2>5. Marked(topic, NoCheckpoint.offset, NoWatermark) BY <1>1 DEF Marked
  <2>6. Closed(topic, NoWatermark, {}, <<>>) /\ Behind(topic, {}) BY DEF Closed, Behind
  <2> QED BY <2>1, <2>4, <2>5, <2>6 DEF Sound
<1>9. SoundInv
  <2>1. /\ ckpt.offset = NoCheckpoint.offset /\ ckpt.wm = NoWatermark
        /\ ckpt.open = {} /\ ckpt.late = {}
    BY DEF NoCheckpoint
  <2> QED BY <1>7, <1>8, <2>1 DEF SoundInv
<1> QED BY <1>3, <1>4, <1>5, <1>6, <1>9 DEF IInv

(* A tick is appended to one partition; the job is where it was. *)
LEMMA AppendKeeps ==
  ASSUME IInv, NEW p \in Partition, NEW x \in Tick, topic' = [topic EXCEPT ![p] = Append(@, x)],
         ticks' \in Nat, repeats' \in Nat, ticks' + repeats' = ticks + repeats + 1,
         ticks' <= MaxTicks, repeats' <= MaxRepeats,
         UNCHANGED <<jobVars, stateVars, maxTs, written, ckptVars, tableVars>>
  PROVE  IInv'
<1> USE DEF IInv, jobVars, stateVars, ckptVars, tableVars
<1>1. \A q \in Partition : topic[q] \in Seq(Tick) /\ Len(topic[q]) \in Nat
  BY DEF ShapeInv
<1>2. ASSUME NEW q \in Partition
      PROVE  /\ topic'[q] \in Seq(Tick) /\ Len(topic[q]) <= Len(topic'[q])
             /\ Len(topic'[q]) <= Len(topic[q]) + 1
             /\ \A i \in 1 .. Len(topic[q]) : topic'[q][i] = topic[q][i]
  <2>1. topic'[q] = IF q = p THEN Append(topic[q], x) ELSE topic[q] BY DEF ShapeInv
  <2> HIDE DEF Tick
  <2> QED BY <1>1, <2>1
<1>3. topic' \in [Partition -> Seq(Tick)]
  <2>1. topic' = [q \in Partition |-> topic'[q]] BY DEF ShapeInv
  <2> QED BY <1>2, <2>1
<1>4. ShapeInv' BY <1>3 DEF ShapeInv
<1>5. TopicInv'
  <2>1. \A q \in Partition : Len(topic[q]) <= ticks + repeats /\ Len(topic'[q]) \in Nat
    BY <1>2 DEF TopicInv
  <2>2. ticks \in Nat /\ repeats \in Nat BY DEF ShapeInv
  <2>3. ASSUME NEW q \in Partition PROVE Len(topic'[q]) <= ticks' + repeats'
    <3> DEFINE k == Len(topic[q])
               m == Len(topic'[q])
    <3>1. k \in Nat /\ m \in Nat /\ m <= k + 1 /\ k <= ticks + repeats BY <1>1, <1>2, <2>1
    <3> HIDE DEF k, m
    <3>2. m <= ticks + repeats + 1 BY <2>2, <3>1
    <3> QED BY <3>2 DEF m
  <2> QED BY <2>3 DEF TopicInv
<1>6. Grown(topic, topic')
  <2>1. \A q \in Partition : Len(topic'[q]) <= MaxTicks + MaxRepeats
    <3>1. MaxTicks \in Nat /\ MaxRepeats \in Nat BY BoundAssumption
    <3>2. \A q \in Partition : Len(topic'[q]) \in Nat BY <1>2
    <3> QED BY <1>5, <3>1, <3>2 DEF TopicInv
  <2> QED BY <1>2, <1>3, <2>1 DEF Grown, ShapeInv
<1>7. MaxTsInv'
  <2> SUFFICES ASSUME NEW q \in Partition, maxTs[q] # NoTs
               PROVE  \E i \in 1 .. offset[q] : maxTs[q] = topic'[q][i].ts
    BY DEF MaxTsInv
  <2>1. PICK i \in 1 .. offset[q] : maxTs[q] = topic[q][i].ts BY DEF MaxTsInv
  <2>2. offset[q] \in Nat /\ offset[q] <= Len(topic[q]) BY TypesFollow DEF ShapeInv, TypeOK
  <2>3. i \in 1 .. Len(topic[q]) BY <1>1, <2>2
  <2> QED BY <1>2, <2>1, <2>3
<1>8. IdleInv' /\ CkptInv' BY DEF IdleInv, CkptInv
<1>9. Base' = Base /\ Cut' = Cut /\ All' = All BY DEF Base, Cut, All
<1>10. SoundInv' BY <1>6, <1>9, SoundGrows DEF SoundInv
<1> QED BY <1>4, <1>5, <1>7, <1>8, <1>10

LEMMA ProduceKeeps == IInv /\ (Produce \/ ProduceAgain) => IInv'
<1> SUFFICES ASSUME IInv, Produce \/ ProduceAgain PROVE IInv' OBVIOUS
<1>0. /\ MaxTicks \in Nat /\ MaxRepeats \in Nat /\ ticks \in Nat /\ repeats \in Nat
      /\ ticks <= MaxTicks /\ repeats <= MaxRepeats
  BY BoundAssumption DEF IInv, ShapeInv, TopicInv
<1>1. CASE Produce
  <2>1. PICK p \in Partition, t \in Ticks :
           topic' = [topic EXCEPT ![p] =
                       Append(@, [id |-> ticks, ts |-> t.ts, priced |-> t.priced])]
    BY <1>1 DEF Produce
  <2>2. [id |-> ticks, ts |-> t.ts, priced |-> t.priced] \in Tick
    BY <1>0, TickAssumption DEF Tick
  <2>3. /\ ticks < MaxTicks /\ ticks' = ticks + 1 /\ repeats' = repeats
        /\ UNCHANGED <<jobVars, stateVars, maxTs, written, ckptVars, tableVars>>
    BY <1>1 DEF Produce
  <2>4. /\ ticks' \in Nat /\ repeats' \in Nat /\ ticks' + repeats' = ticks + repeats + 1
        /\ ticks' <= MaxTicks /\ repeats' <= MaxRepeats
    BY <1>0, <2>3
  <2> DEFINE x == [id |-> ticks, ts |-> t.ts, priced |-> t.priced]
  <2>5. x \in Tick /\ topic' = [topic EXCEPT ![p] = Append(@, x)] BY <2>1, <2>2
  <2> HIDE DEF x
  <2> QED BY <2>3, <2>4, <2>5, AppendKeeps
<1>2. CASE ProduceAgain
  <2>1. PICK p \in Partition, r \in Records : topic' = [topic EXCEPT ![p] = Append(@, Record(r))]
    BY <1>2 DEF ProduceAgain
  <2>2. Record(r) \in Tick BY TopicFacts, StoredTypes DEF IInv, ShapeInv
  <2>3. /\ repeats < MaxRepeats /\ repeats' = repeats + 1 /\ ticks' = ticks
        /\ UNCHANGED <<jobVars, stateVars, maxTs, written, ckptVars, tableVars>>
    BY <1>2 DEF ProduceAgain
  <2>4. /\ ticks' \in Nat /\ repeats' \in Nat /\ ticks' + repeats' = ticks + repeats + 1
        /\ ticks' <= MaxTicks /\ repeats' <= MaxRepeats
    BY <1>0, <2>3
  <2> QED BY <2>1, <2>2, <2>3, <2>4, AppendKeeps
<1> QED BY <1>1, <1>2


(* Reading one record further adds that record. *)
Further(tp, off, p, off2, r) ==
    /\ tp \in [Partition -> Seq(Tick)] /\ off \in [Partition -> Nat] /\ p \in Partition
    /\ off[p] < Len(tp[p]) /\ Len(tp[p]) <= MaxTicks + MaxRepeats
    /\ off2 = [off EXCEPT ![p] = @ + 1] /\ r = <<p, off[p] + 1>>

LEMMA ReadOn ==
  ASSUME NEW tp, NEW off, NEW p, NEW off2, NEW r, Further(tp, off, p, off2, r)
  PROVE  /\ r \in Stored(tp) /\ r \notin ReadTo(tp, off)
         /\ \A y : y \in ReadTo(tp, off2) <=>
                      y \in ReadTo(tp, off) \/ (y = r /\ tp[p][off[p] + 1].priced)
<1> DEFINE o == off[p] + 1
<1>0. /\ tp \in [Partition -> Seq(Tick)] /\ off \in [Partition -> Nat] /\ p \in Partition
      /\ off[p] < Len(tp[p]) /\ Len(tp[p]) <= MaxTicks + MaxRepeats
      /\ off2 = [off EXCEPT ![p] = @ + 1] /\ r = <<p, o>>
  BY DEF Further
<1>1. off[p] \in Nat /\ Len(tp[p]) \in Nat /\ DOMAIN tp[p] = 1 .. Len(tp[p]) /\ o \in Nat \ {0}
  BY <1>0
<1>2. o \in DOMAIN tp[p] /\ o \in 1 .. MaxTicks + MaxRepeats
  <2>1. MaxTicks + MaxRepeats \in Nat BY BoundAssumption
  <2> QED BY <1>0, <1>1, <2>1
<1>3. off2 \in [Partition -> Nat] /\ \A q \in Partition : off2[q] = IF q = p THEN o ELSE off[q]
  BY <1>0
<1>4. r[1] = p /\ r[2] = o /\ p \in Partition BY <1>0
<1>5. ~ (o <= off[p]) BY <1>1
<1> HIDE DEF o
<1>6. r \in Stored(tp) BY <1>0, <1>2, <1>4 DEF Stored
<1>7. r \notin ReadTo(tp, off) BY <1>4, <1>5 DEF ReadTo
<1>8. ASSUME NEW x \in Stored(tp)
      PROVE  x[2] <= off2[x[1]] <=> x[2] <= off[x[1]] \/ x = r
  <2>1. x[1] \in Partition /\ x[2] \in Nat /\ x = <<x[1], x[2]>> BY <1>0, StoredTypes
  <2>2. CASE x[1] # p
    <3>1. off2[x[1]] = off[x[1]] /\ x # r BY <1>3, <1>4, <2>1, <2>2
    <3> QED BY <3>1
  <2>3. CASE x[1] = p
    <3>1. off2[x[1]] = o /\ off[x[1]] = off[p] BY <1>3, <1>4, <2>3
    <3>2. x = r <=> x[2] = o BY <1>0, <1>4, <2>1, <2>3
    <3> QED BY <1>1, <2>1, <3>1, <3>2 DEF o
  <2> QED BY <2>2, <2>3
<1>9. \A y : y \in ReadTo(tp, off2) <=> y \in ReadTo(tp, off) \/ (y = r /\ tp[p][o].priced)
  BY <1>4, <1>6, <1>8 DEF ReadTo
<1> QED BY <1>6, <1>7, <1>9 DEF o

LEMMA ConsumeKeeps ==
  ASSUME IInv, NEW p \in Partition, Consume(p)
  PROVE  IInv'
<1> USE DEF IInv, topicVars, jobVars, ckptVars, tableVars
<1> DEFINE o == offset[p] + 1
           r == <<p, o>>
           x == topic[p][o]
<1>1. /\ status = "running" /\ offset[p] < Len(topic[p])
      /\ offset' = [offset EXCEPT ![p] = @ + 1]
      /\ UNCHANGED <<topic, ticks, repeats, status, failures, wm, written, saved, ckpt, pending, bars>>
  BY DEF Consume
<1>2. r[1] = p /\ r[2] = o /\ Record(r) = x BY DEF Record
<1>3. /\ maxTs' = [maxTs EXCEPT ![p] = Max({@, x.ts})]
      /\ late' = IF x.priced /\ Fired(WindowOf(r), wm) THEN late \cup {r} ELSE late
      /\ open' = IF x.priced /\ ~ Fired(WindowOf(r), wm) THEN open \cup {r} ELSE open
  BY <1>2 DEF Consume
<1>4. /\ topic \in [Partition -> Seq(Tick)] /\ offset \in [Partition -> Nat]
      /\ wm \in Int /\ maxTs \in [Partition -> Nat \cup {NoTs}]
  BY DEF ShapeInv
<1>5. /\ Len(topic[p]) \in Nat /\ Len(topic[p]) <= MaxTicks + MaxRepeats
      /\ offset[p] \in Nat /\ WindowOf(r) = InWindow(topic, r)
  BY <1>4, TopicFacts
<1>6. /\ r \in Stored(topic) /\ r \notin ReadTo(topic, offset)
      /\ ReadTo(topic, offset') = ReadTo(topic, offset) \cup {y \in {r} : x.priced}
  <2>0. Further(topic, offset, p, offset', r) BY <1>1, <1>4, <1>5 DEF Further
  <2>1. \A y : y \in ReadTo(topic, offset') <=> y \in ReadTo(topic, offset) \/ (y = r /\ x.priced)
    BY <2>0, ReadOn
  <2>2. r \in Stored(topic) /\ r \notin ReadTo(topic, offset) BY <2>0, ReadOn
  <2> HIDE DEF r, x
  <2> QED BY <2>1, <2>2
<1>7. x.ts \in Nat /\ InWindow(topic, r) \in Nat BY <1>2, <1>4, <1>6, StoredTypes
<1>8. Sound(topic, offset, wm, open, late, All) BY <1>1 DEF SoundInv
<1>9. /\ offset' \in [Partition -> Nat] /\ offset'[p] = o
      /\ \A q \in Partition : offset[q] <= offset'[q] /\ offset'[q] <= Len(topic[q])
      /\ \A q \in Partition : \A i \in 1 .. offset[q] : i \in 1 .. offset'[q]
  <2>1. \A q \in Partition : /\ offset'[q] = IF q = p THEN offset[q] + 1 ELSE offset[q]
                             /\ offset[q] \in Nat /\ Len(topic[q]) \in Nat
                             /\ offset[q] <= Len(topic[q])
    BY <1>1, <1>4, <1>8, TopicFacts DEF Sound
  <2>2. \A q \in Partition : offset[q] <= offset'[q] /\ offset'[q] <= Len(topic[q])
    BY <1>1, <2>1
  <2>3. \A q \in Partition : offset'[q] \in Nat BY <2>1
  <2>4. offset' \in [Partition -> Nat] BY <1>1, <1>4
  <2>5. \A q \in Partition : \A i \in 1 .. offset[q] : i \in 1 .. offset'[q]
    BY <2>1, <2>2, <2>3
  <2> QED BY <2>1, <2>2, <2>4, <2>5
<1>10. Max({maxTs[p], x.ts}) \in {maxTs[p], x.ts} BY <1>4, <1>7, MaxTypes
<1>11. ShapeInv'
  <2>1. Max({maxTs[p], x.ts}) \in Nat \cup {NoTs} BY <1>4, <1>7, <1>10
  <2>2. maxTs' \in [Partition -> Nat \cup {NoTs}] BY <1>3, <1>4, <2>1
  <2> QED BY <1>1, <1>9, <2>2 DEF ShapeInv
<1>12. TopicInv' BY <1>1 DEF TopicInv
<1>13. MaxTsInv'
  <2> SUFFICES ASSUME NEW q \in Partition, maxTs'[q] # NoTs
               PROVE  \E i \in 1 .. offset'[q] : maxTs'[q] = topic[q][i].ts
    BY <1>1 DEF MaxTsInv
  <2>1. CASE maxTs'[q] = maxTs[q]
    <3>1. PICK i \in 1 .. offset[q] : maxTs[q] = topic[q][i].ts BY <2>1 DEF MaxTsInv
    <3> QED BY <1>9, <2>1, <3>1
  <2>2. CASE q = p /\ maxTs'[q] = x.ts
    <3>1. o \in 1 .. offset'[p] BY <1>5, <1>9
    <3> QED BY <2>2, <3>1
  <2>3. \/ maxTs'[q] = maxTs[q]
        \/ q = p /\ maxTs'[q] = x.ts
    BY <1>3, <1>4, <1>10
  <2> QED BY <2>1, <2>2, <2>3
<1>14. IdleInv' /\ CkptInv' BY <1>1 DEF IdleInv, CkptInv
<1>15. Base' = Base /\ Cut' = Cut /\ All' = All BY <1>1 DEF Base, Cut, All
<1>16. Sound(topic, offset', wm, open', late', All)
  <2>1. Marked(topic, offset', wm) BY <1>8, <1>9 DEF Sound, Marked
  <2>2. Closed(topic, wm, open', All) BY <1>3, <1>5, <1>8 DEF Sound, Closed
  <2>3. Accounted(topic, offset', open', late', All)
    <3>1. Accounted(topic, offset, open, late, All) BY <1>8 DEF Sound
    <3>2. r \notin RecordsOf(All) /\ r \notin open /\ r \notin late BY <1>6, <3>1 DEF Accounted
    <3> HIDE DEF r, x, o
    <3>3. CASE ~ x.priced BY <1>3, <1>6, <3>1, <3>3 DEF Accounted
    <3>4. CASE x.priced /\ Fired(WindowOf(r), wm)
      BY <1>3, <1>6, <3>1, <3>2, <3>4 DEF Accounted
    <3>5. CASE x.priced /\ ~ Fired(WindowOf(r), wm)
      BY <1>3, <1>6, <3>1, <3>2, <3>5 DEF Accounted
    <3> QED BY <3>3, <3>4, <3>5
  <2>4. Behind(topic, late')
    <3>1. Behind(topic, late) BY <1>8 DEF Sound
    <3>2. ASSUME Fired(InWindow(topic, r), wm)
          PROVE  \E i \in 1 .. r[2] - 1 : Fired(InWindow(topic, r), topic[r[1]][i].ts - Delay)
      <4>1. Marked(topic, offset, wm) BY <1>8 DEF Sound
      <4>2. wm # NoWatermark BY <1>7, <3>2, NotFiredYet
      <4>3. NoWatermark \in Int BY TimeAssumption DEF NoWatermark
      <4>4. PICK i \in 1 .. offset[p] : wm <= topic[p][i].ts - Delay
        BY <1>4, <4>1, <4>2, <4>3 DEF Marked
      <4>5. i \in 1 .. Len(topic[p]) BY <1>1, <1>5
      <4>6. topic[p][i] \in Tick
        <5> HIDE DEF Tick
        <5> QED BY <1>4, <4>5
      <4>7. topic[p][i].ts - Delay \in Int BY <4>6, TimeAssumption DEF Tick
      <4>8. Fired(InWindow(topic, r), topic[p][i].ts - Delay)
        <5> DEFINE w == InWindow(topic, r)
                   n == topic[p][i].ts - Delay
        <5>1. w \in Nat /\ n \in Int /\ wm <= n /\ Fired(w, wm) BY <1>7, <3>2, <4>4, <4>7
        <5> HIDE DEF w, n
        <5>2. Fired(w, n) BY <1>4, <5>1, FiredLater
        <5> QED BY <5>2 DEF w, n
      <4>9. i \in 1 .. r[2] - 1 BY <1>2, <1>5
      <4> QED BY <1>2, <4>8, <4>9
    <3> QED BY <1>3, <1>5, <3>1, <3>2 DEF Behind
  <2> QED BY <1>8, <1>9, <2>1, <2>2, <2>3, <2>4 DEF Sound
<1>17. SoundInv' BY <1>1, <1>15, <1>16 DEF SoundInv
<1> QED BY <1>11, <1>12, <1>13, <1>14, <1>17


(* The windows that fire are finitely many. *)
LEMMA DueFinite ==
  ASSUME ShapeInv, TopicInv, open \subseteq Records, NEW D, D \subseteq {WindowOf(r) : r \in open}
  PROVE  IsFiniteSet(D) /\ D \subseteq Nat /\ Cardinality(D) \in Nat
<1> DEFINE Place == 1 .. MaxTicks + MaxRepeats
           f == [r \in open |-> WindowOf(r)]
           All0 == {WindowOf(r) : r \in open}
<1>1. IsFiniteSet(Place)
  <2>1. MaxTicks + MaxRepeats \in Int BY BoundAssumption
  <2> QED BY <2>1, FS_Interval
<1>2. IsFiniteSet(Partition \X Place)
  <2> HIDE DEF Place
  <2> QED BY <1>1, PartitionAssumption, FS_Product
<1>3. open \in SUBSET (Partition \X Place) BY DEF Records
<1>4. IsFiniteSet(open)
  <2> HIDE DEF Place
  <2> QED BY <1>2, <1>3, FS_Subset
<1>5. f = [r \in open |-> f[r]] OBVIOUS
<1>6. All0 = {f[r] : r \in open} OBVIOUS
<1>7. IsFiniteSet({f[r] : r \in open})
  <2> HIDE DEF f
  <2> QED BY <1>4, <1>5, ImageFinite
<1>8. IsFiniteSet(All0) BY <1>6, <1>7
<1>9. IsFiniteSet(D)
  <2> HIDE DEF All0
  <2>1. D \in SUBSET All0 BY DEF All0
  <2> QED BY <1>8, <2>1, FS_Subset
<1>10. \A r \in open : WindowOf(r) \in Nat BY TopicFacts, StoredTypes DEF ShapeInv
<1>11. D \subseteq Nat BY <1>10
<1>12. Cardinality(D) \in Nat BY <1>9, FS_CardinalityType
<1> QED BY <1>9, <1>11, <1>12

(* The bars of one move of the watermark: the windows it has passed, the    *)
(* earliest first, each with its records. *)
Passed(new, mark) ==
    /\ new \in Seq(Bar)
    /\ RecordsOf(new) = {r \in open : Fired(WindowOf(r), mark)}
    /\ \A i \in 1 .. Len(new) :
          Fired(new[i].window, mark) /\ \E r \in open : WindowOf(r) = new[i].window
    /\ \A i, j \in 1 .. Len(new) : i < j => new[i].window < new[j].window

LEMMA EmitIs ==
  ASSUME ShapeInv, TopicInv, open \subseteq Records, EmitWatermark
  PROVE  /\ \E new \in Seq(Bar) : written' = written \o new /\ Passed(new, wm')
         /\ open' = {r \in open : ~ Fired(WindowOf(r), wm')}
<1> DEFINE of(w) == {r \in open : WindowOf(r) = w}
           due == {w \in {WindowOf(r) : r \in open} : Fired(w, wm')}
<1>1. IsFiniteSet(due) /\ due \subseteq Nat /\ Cardinality(due) \in Nat
  <2>1. due \subseteq {WindowOf(r) : r \in open} OBVIOUS
  <2> HIDE DEF due
  <2> QED BY <2>1, DueFinite
<1>2. PICK fired \in [1 .. Cardinality(due) -> due] :
         /\ InOrder(fired, due)
         /\ written' = written \o [i \in DOMAIN fired |->
                                       [window |-> fired[i], records |-> of(fired[i])]]
  BY DEF EmitWatermark
<1>3. open' = {r \in open : WindowOf(r) \notin due} BY DEF EmitWatermark
<1>4. \A r \in open : WindowOf(r) \in due <=> Fired(WindowOf(r), wm') OBVIOUS
<1>5. \A w \in due : Fired(w, wm') /\ \E r \in open : WindowOf(r) = w OBVIOUS
<1> DEFINE new == [i \in DOMAIN fired |-> [window |-> fired[i], records |-> of(fired[i])]]
<1>6. \A w : of(w) \subseteq Ref
  <2>1. \A r \in open : r \in Ref BY TopicFacts, StoredTypes DEF ShapeInv
  <2> QED BY <2>1
<1>7. new \in [1 .. Cardinality(due) -> Bar] /\ DOMAIN fired = 1 .. Cardinality(due)
  <2>1. \A w \in due : [window |-> w, records |-> of(w)] \in Bar BY <1>1, <1>6 DEF Bar
  <2> HIDE DEF due, of
  <2>2. DOMAIN fired = 1 .. Cardinality(due) /\ \A i \in DOMAIN fired : fired[i] \in due BY <1>2
  <2> QED BY <2>1, <2>2
<1>8. new \in Seq(Bar) /\ Len(new) = Cardinality(due) /\ DOMAIN new = 1 .. Len(new)
  <2> HIDE DEF due, new
  <2> QED BY <1>1, <1>7
<1>9. \A i \in 1 .. Len(new) : /\ new[i].window = fired[i] /\ new[i].records = of(fired[i])
                               /\ fired[i] \in due
  <2> HIDE DEF due, of
  <2> QED BY <1>2, <1>7, <1>8
<1>10. \A i, j \in 1 .. Len(new) : i < j => new[i].window < new[j].window
  <2> HIDE DEF due, of, new
  <2> QED BY <1>2, <1>7, <1>8, <1>9 DEF InOrder
<1>11. RecordsOf(new) = {r \in open : Fired(WindowOf(r), wm')}
  <2>1. \A x : x \in RecordsOf(new) <=> \E i \in 1 .. Len(new) : x \in of(fired[i])
    <3> HIDE DEF due, of, new
    <3>1. \A x : x \in RecordsOf(new) <=> \E i \in DOMAIN new : x \in new[i].records
      BY DEF RecordsOf
    <3> QED BY <1>8, <1>9, <3>1
  <2>2. \A w \in due : \E i \in 1 .. Len(new) : fired[i] = w
    <3>1. {fired[i] : i \in DOMAIN fired} = due BY <1>2 DEF InOrder
    <3> HIDE DEF due, of, new
    <3> QED BY <1>7, <1>8, <3>1
  <2>3. ASSUME NEW x, x \in RecordsOf(new) PROVE x \in open /\ WindowOf(x) \in due
    <3> HIDE DEF due, new
    <3> QED BY <1>9, <2>1, <2>3
  <2>4. ASSUME NEW x \in open, WindowOf(x) \in due PROVE x \in RecordsOf(new)
    <3> HIDE DEF due, new
    <3> QED BY <2>1, <2>2, <2>4
  <2>5. \A r \in open : WindowOf(r) \in due <=> Fired(WindowOf(r), wm') BY <1>4
  <2> HIDE DEF due, new, of
  <2> QED BY <2>3, <2>4, <2>5
<1>12. Passed(new, wm')
  <2> HIDE DEF due, of, new
  <2> QED BY <1>5, <1>8, <1>9, <1>10, <1>11 DEF Passed
<1>13. open' = {r \in open : ~ Fired(WindowOf(r), wm')}
  <2> HIDE DEF due
  <2> QED BY <1>3, <1>4
<1>14. written' = written \o new BY <1>2
<1> HIDE DEF new
<1> QED BY <1>8, <1>12, <1>13, <1>14


(* The watermark of the source stays behind what every partition has shown. *)
LEMMA SourceMarkIs ==
  ASSUME ShapeInv, MaxTsInv, SourceMark > wm, wm >= NoWatermark
  PROVE  /\ SourceMark \in Int
         /\ \A p \in Partition : \E i \in 1 .. offset[p] : SourceMark <= topic[p][i].ts - Delay
<1> DEFINE S == {maxTs[p] : p \in Partition}
<1>1. S \subseteq Nat \cup {NoTs} /\ S # {} BY PartitionAssumption DEF ShapeInv
<1>2. Min(S) \in S /\ \A x \in S : Min(S) <= x
  <2>1. NoTs \in Int /\ NoTs < 0 BY DEF NoTs
  <2> HIDE DEF S
  <2> QED BY <1>1, <2>1, MinOfNatsOr
<1>3. SourceMark = Min(S) - Delay BY DEF SourceMark
<1>4. Min(S) \in Int /\ Delay \in Nat
  <2>1. \A x \in Nat \cup {NoTs} : x \in Int BY DEF NoTs
  <2> DEFINE least == Min(S)
  <2> HIDE DEF S
  <2>2. least \in Nat \cup {NoTs} BY <1>1, <1>2
  <2> HIDE DEF least
  <2>3. least \in Int BY <2>1, <2>2
  <2> QED BY <2>3, TimeAssumption DEF least
<1>5. Min(S) > NoTs BY <1>3, <1>4 DEF NoTs, NoWatermark, ShapeInv
<1>6. ASSUME NEW p \in Partition
      PROVE  \E i \in 1 .. offset[p] : SourceMark <= topic[p][i].ts - Delay
  <2>1. Min(S) <= maxTs[p] BY <1>2
  <2> HIDE DEF S
  <2>2. maxTs[p] \in Nat \cup {NoTs} /\ maxTs[p] # NoTs BY <1>4, <1>5, <2>1 DEF ShapeInv, NoTs
  <2>3. PICK i \in 1 .. offset[p] : maxTs[p] = topic[p][i].ts BY <2>2 DEF MaxTsInv
  <2>4. SourceMark <= maxTs[p] - Delay BY <1>3, <1>4, <2>1, <2>2
  <2> QED BY <2>3, <2>4
<1> HIDE DEF S
<1> QED BY <1>3, <1>4, <1>6

LEMMA EmitKeeps == IInv /\ EmitWatermark => IInv'
<1> SUFFICES ASSUME IInv, EmitWatermark PROVE IInv' OBVIOUS
<1> USE DEF IInv, topicVars, jobVars, ckptVars, tableVars
<1>1. /\ status = "running" /\ SourceMark > wm /\ wm' = SourceMark
      /\ UNCHANGED <<topic, ticks, repeats, status, failures, offset, maxTs, late,
                     saved, ckpt, pending, bars>>
  BY DEF EmitWatermark
<1>2. Sound(topic, offset, wm, open, late, All) BY <1>1 DEF SoundInv
<1>3. open \subseteq Records /\ open \subseteq Stored(topic) BY <1>2, SoundTypes
<1>4. PICK new \in Seq(Bar) : written' = written \o new /\ Passed(new, wm')
  BY <1>3, EmitIs
<1>5. open' = {r \in open : ~ Fired(WindowOf(r), wm')} BY <1>3, EmitIs
<1>6. wm \in Int /\ wm' \in Int /\ wm >= NoWatermark /\ NoWatermark \in Int /\ wm <= wm'
  <2>1. wm \in Int /\ wm >= NoWatermark BY <1>2 DEF Sound, Marked
  <2>2. SourceMark \in Int BY <1>1, <2>1, SourceMarkIs
  <2>3. NoWatermark \in Int BY TimeAssumption DEF NoWatermark
  <2> QED BY <1>1, <2>1, <2>2, <2>3
<1>7. written \in Seq(Bar) /\ Cut \in Seq(Bar) /\ All \in Seq(Bar) /\ All = Cut \o written
  BY SequencesOfBars DEF ShapeInv, All
<1>8. written' \in Seq(Bar) /\ Cut \o written' = All \o new
  <2>1. written' \in Seq(Bar) BY <1>4, <1>7, ConcatIs
  <2>2. Cut \o (written \o new) = (Cut \o written) \o new
    BY <1>7, ConcatAssociative
  <2> QED BY <1>4, <1>7, <2>1, <2>2
<1>9. ShapeInv' BY <1>1, <1>6, <1>8 DEF ShapeInv
<1>10. TopicInv' /\ MaxTsInv' /\ IdleInv' /\ CkptInv'
  BY <1>1 DEF TopicInv, MaxTsInv, IdleInv, CkptInv
<1>11. Base' = Base /\ Cut' = Cut /\ All' = All \o new BY <1>1, <1>8 DEF Base, Cut, All
<1> DEFINE all2 == All \o new
<1>12. /\ all2 \in Seq(Bar) /\ Len(all2) = Len(All) + Len(new)
       /\ Len(All) \in Nat /\ Len(new) \in Nat
       /\ \A i \in 1 .. Len(All) : all2[i] = All[i]
       /\ \A i \in 1 .. Len(new) : all2[Len(All) + i] = new[i]
       /\ \A i \in 1 .. Len(all2) : i \in 1 .. Len(All) \/ i - Len(All) \in 1 .. Len(new)
  BY <1>7, ConcatIs
<1>13. RecordsOf(all2) = RecordsOf(All) \cup {r \in open : Fired(WindowOf(r), wm')}
  <2>1. RecordsOf(all2) = RecordsOf(All) \cup RecordsOf(new) BY <1>7, RecordsOfConcat
  <2>2. RecordsOf(new) = {r \in open : Fired(WindowOf(r), wm')} BY <1>4 DEF Passed
  <2> QED BY <2>1, <2>2
<1> HIDE DEF all2
<1>14. Marked(topic, offset, wm')
  BY <1>1, <1>6, SourceMarkIs DEF Marked
<1>15. Closed(topic, wm', open', all2)
  <2>1. \A r \in open' : ~ Fired(InWindow(topic, r), wm') BY <1>5, TopicFacts
  <2>2. ASSUME NEW i \in 1 .. Len(All)
        PROVE  /\ all2[i] = All[i] /\ All[i].window \in Nat
               /\ Fired(All[i].window, wm) /\ Fired(All[i].window, wm')
    <3>1. All[i].window \in Nat BY <1>7, BarTypes
    <3>2. Fired(All[i].window, wm) BY <1>2 DEF Sound, Closed
    <3>3. Fired(All[i].window, wm') BY <1>6, <3>1, <3>2, FiredLater
    <3> QED BY <1>12, <3>1, <3>2, <3>3
  <2>3. ASSUME NEW i \in 1 .. Len(all2), i \notin 1 .. Len(All)
        PROVE  /\ i - Len(All) \in 1 .. Len(new) /\ all2[i] = new[i - Len(All)]
               /\ Fired(all2[i].window, wm') /\ ~ Fired(all2[i].window, wm)
    <3>1. i - Len(All) \in 1 .. Len(new) /\ Len(All) + (i - Len(All)) = i BY <1>12, <2>3
    <3>2. all2[i] = new[i - Len(All)] BY <1>12, <3>1
    <3>3. PICK r \in open : WindowOf(r) = all2[i].window BY <1>4, <3>1, <3>2 DEF Passed
    <3>4. ~ Fired(WindowOf(r), wm) BY <1>2, TopicFacts DEF Sound, Closed
    <3> QED BY <1>4, <3>1, <3>2, <3>3, <3>4 DEF Passed
  <2>4. \A i \in 1 .. Len(all2) : Fired(all2[i].window, wm') BY <2>2, <2>3
  <2>5. ASSUME NEW i \in 1 .. Len(all2), NEW j \in 1 .. Len(all2), all2[i].window = all2[j].window
        PROVE  i = j
    <3>1. CASE i \in 1 .. Len(All) /\ j \in 1 .. Len(All)
      BY <1>2, <2>2, <2>5, <3>1 DEF Sound, Closed
    <3>2. CASE i \notin 1 .. Len(All) /\ j \notin 1 .. Len(All)
      <4> DEFINE a == i - Len(All)
                 b == j - Len(All)
      <4>1. a \in 1 .. Len(new) /\ b \in 1 .. Len(new) /\ new[a].window = new[b].window
        BY <2>3, <2>5, <3>2
      <4>2. a \in Nat /\ b \in Nat /\ (a = b => i = j) BY <1>12, <4>1
      <4> HIDE DEF a, b
      <4>3. new[a].window \in Nat /\ new[b].window \in Nat BY <1>4, <4>1, BarTypes
      <4>4. \A x, y \in 1 .. Len(new) : x < y => new[x].window < new[y].window
        BY <1>4 DEF Passed
      <4>5. ~ (a < b) BY <4>1, <4>3, <4>4
      <4>6. ~ (b < a) BY <4>1, <4>3, <4>4
      <4> QED BY <4>2, <4>5, <4>6
    <3>3. CASE i \in 1 .. Len(All) /\ j \notin 1 .. Len(All) BY <2>2, <2>3, <2>5, <3>3
    <3>4. CASE i \notin 1 .. Len(All) /\ j \in 1 .. Len(All) BY <2>2, <2>3, <2>5, <3>4
    <3> QED BY <3>1, <3>2, <3>3, <3>4
  <2> QED BY <2>1, <2>4, <2>5 DEF Closed
<1>16. Accounted(topic, offset, open', late, all2)
  <2>1. Accounted(topic, offset, open, late, All) BY <1>2 DEF Sound
  <2> QED BY <1>5, <1>13, <2>1 DEF Accounted
<1>17. Sound(topic, offset, wm', open', late, all2)
  BY <1>2, <1>12, <1>14, <1>15, <1>16 DEF Sound
<1>18. SoundInv' BY <1>1, <1>11, <1>17 DEF SoundInv, all2
<1> QED BY <1>9, <1>10, <1>18

(* The barrier moves the bars since the last one into the checkpoint. *)
LEMMA BarrierKeeps == IInv /\ Barrier => IInv'
<1> SUFFICES ASSUME IInv, Barrier PROVE IInv' OBVIOUS
<1> USE DEF IInv, topicVars, jobVars, stateVars, tableVars
<1>1. /\ status = "running" /\ saved = NotUnderWay /\ ~ pending
      /\ saved' = State /\ written' = <<>>
      /\ UNCHANGED <<topic, ticks, repeats, status, failures, offset, wm, open, late, maxTs,
                     ckpt, pending, bars>>
  BY DEF Barrier
<1>2. Sound(topic, offset, wm, open, late, All) BY <1>1 DEF SoundInv
<1>3. /\ saved'.offset = offset /\ saved'.wm = wm /\ saved'.open = open /\ saved'.late = late
      /\ saved'.bars = written /\ DOMAIN saved' = Fields
  BY <1>1 DEF State, Fields
<1>4. saved' # NotUnderWay
  <2>1. wm >= NoWatermark /\ NoWatermark \in Int
    BY <1>2, TimeAssumption DEF Sound, Marked, NoWatermark
  <2>2. NotUnderWay.wm = NoWatermark - 1 BY DEF NotUnderWay, NoCheckpoint
  <2>3. NotUnderWay.wm # wm BY <2>1, <2>2 DEF ShapeInv
  <2> QED BY <1>3, <2>3
<1>5. written \in Seq(Bar) /\ Base \in Seq(Bar) /\ All = Base \o written /\ All \in Seq(Bar)
  BY <1>1, SequencesOfBars DEF ShapeInv, All, Cut
<1>6. Base' = Base BY <1>1 DEF Base
<1>7. NotUnderWay' = NotUnderWay BY DEF NotUnderWay, NoCheckpoint, NoWatermark
<1>8. Cut' = All BY <1>3, <1>4, <1>5, <1>6, <1>7 DEF Cut
<1>9. All' = All BY <1>1, <1>5, <1>8, ConcatEmptySeq DEF All
<1>10. ShapeInv' BY <1>1 DEF ShapeInv
<1>11. TopicInv' /\ MaxTsInv' /\ IdleInv' BY <1>1 DEF TopicInv, MaxTsInv, IdleInv
<1>12. CkptInv' BY <1>1, <1>3, <1>5 DEF CkptInv
<1>13. SoundInv' BY <1>1, <1>2, <1>3, <1>6, <1>8, <1>9 DEF SoundInv
<1> QED BY <1>10, <1>11, <1>12, <1>13

(* The checkpoint under way becomes the completed one, its bars pending. *)
LEMMA CompleteKeeps == IInv /\ Complete => IInv'
<1> SUFFICES ASSUME IInv, Complete PROVE IInv' OBVIOUS
<1> USE DEF IInv, topicVars, jobVars, stateVars
<1>1. /\ saved # NotUnderWay /\ ckpt' = saved /\ saved' = NotUnderWay /\ pending' = TRUE
      /\ UNCHANGED <<topic, ticks, repeats, status, failures, offset, wm, open, late, maxTs,
                     written, bars>>
  BY DEF Complete
<1>2. ~ pending /\ Base = bars /\ Cut = bars \o saved.bars
  <2>1. ~ pending BY <1>1 DEF CkptInv
  <2> QED BY <1>1, <2>1 DEF Base, Cut
<1>3. Base' = Cut BY <1>1, <1>2 DEF Base
<1>4. Cut' = Cut BY <1>1, <1>3 DEF Cut
<1>5. All' = All BY <1>1, <1>4 DEF All
<1>6. DOMAIN NotUnderWay = Fields /\ NotUnderWay.bars \in Seq(Bar)
  <2>1. NotUnderWay.bars = <<>> BY DEF NotUnderWay, NoCheckpoint
  <2>2. DOMAIN NotUnderWay = Fields BY DEF NotUnderWay, NoCheckpoint, Fields
  <2> QED BY <2>1, <2>2
<1>7. ShapeInv' BY <1>1 DEF ShapeInv
<1>8. TopicInv' /\ MaxTsInv' /\ IdleInv' BY <1>1 DEF TopicInv, MaxTsInv, IdleInv
<1>9. CkptInv' BY <1>1, <1>6 DEF CkptInv
<1>10. SoundInv' BY <1>1, <1>3, <1>5 DEF SoundInv
<1> QED BY <1>7, <1>8, <1>9, <1>10

LEMMA CommitKeeps == IInv /\ Commit => IInv'
<1> SUFFICES ASSUME IInv, Commit PROVE IInv' OBVIOUS
<1> USE DEF IInv, topicVars, jobVars, stateVars, ckptVars
<1>1. /\ pending /\ bars' = bars \o ckpt.bars /\ pending' = FALSE
      /\ UNCHANGED <<topic, ticks, repeats, status, failures, offset, wm, open, late, maxTs,
                     written, saved, ckpt>>
  BY DEF Commit
<1>2. saved = NotUnderWay BY <1>1 DEF CkptInv
<1>3. Base' = Base /\ Cut' = Cut /\ All' = All BY <1>1, <1>2 DEF Base, Cut, All
<1>4. bars' \in Seq(Bar) BY <1>1, ConcatIs DEF ShapeInv, CkptInv
<1>5. ShapeInv' BY <1>1, <1>4 DEF ShapeInv
<1>6. TopicInv' /\ MaxTsInv' /\ IdleInv' BY <1>1 DEF TopicInv, MaxTsInv, IdleInv
<1>7. CkptInv' BY <1>1, <1>2 DEF CkptInv
<1>8. SoundInv' BY <1>1, <1>2, <1>3 DEF SoundInv
<1> QED BY <1>5, <1>6, <1>7, <1>8

LEMMA CrashKeeps == IInv /\ Crash => IInv'
<1> SUFFICES ASSUME IInv, Crash PROVE IInv' OBVIOUS
<1> USE DEF IInv, topicVars, tableVars
<1>1. /\ failures' = failures + 1 /\ status' \in {"restarting", "failed"}
      /\ offset' = NoCheckpoint.offset /\ maxTs' = [p \in Partition |-> NoTs]
      /\ wm' = NoWatermark /\ open' = {} /\ late' = {} /\ written' = <<>> /\ saved' = NotUnderWay
      /\ UNCHANGED <<topic, ticks, repeats, ckpt, pending, bars>>
  BY DEF Crash
<1>2. DOMAIN NotUnderWay = Fields /\ NotUnderWay.bars \in Seq(Bar)
  <2>1. NotUnderWay.bars = <<>> BY DEF NotUnderWay, NoCheckpoint
  <2>2. DOMAIN NotUnderWay = Fields BY DEF NotUnderWay, NoCheckpoint, Fields
  <2> QED BY <2>1, <2>2
<1>3. Base' = Base BY <1>1 DEF Base
<1>4. ShapeInv'
  <2>1. NoWatermark \in Int /\ NoCheckpoint.offset \in [Partition -> Nat]
    BY TimeAssumption DEF NoWatermark, NoCheckpoint
  <2>2. <<>> \in Seq(Bar) /\ failures' \in Nat BY <1>1 DEF ShapeInv
  <2>3. [p \in Partition |-> NoTs] \in [Partition -> Nat \cup {NoTs}] OBVIOUS
  <2> QED BY <1>1, <2>1, <2>2, <2>3 DEF ShapeInv
<1>5. TopicInv' /\ MaxTsInv' /\ IdleInv' BY <1>1 DEF TopicInv, MaxTsInv, IdleInv
<1>6. CkptInv' BY <1>1, <1>2 DEF CkptInv
<1>7. SoundInv' BY <1>1, <1>3 DEF SoundInv
<1> QED BY <1>4, <1>5, <1>6, <1>7

(* The job goes on from the completed checkpoint, and from its bars. *)
LEMMA RestoreKeeps == IInv /\ Restore => IInv'
<1> SUFFICES ASSUME IInv, Restore PROVE IInv' OBVIOUS
<1> USE DEF IInv, topicVars, ckptVars, tableVars
<1>1. /\ status = "restarting" /\ status' = "running"
      /\ offset' = ckpt.offset /\ wm' = ckpt.wm /\ open' = ckpt.open /\ late' = ckpt.late
      /\ UNCHANGED <<topic, ticks, repeats, failures, maxTs, written, saved, ckpt, pending, bars>>
  BY DEF Restore
<1>2. maxTs = [p \in Partition |-> NoTs] /\ written = <<>> /\ saved = NotUnderWay
  BY <1>1 DEF IdleInv
<1>3. Base' = Base /\ Cut' = Cut /\ All' = All BY <1>1 DEF Base, Cut, All
<1>4. All = Base BY <1>2, SequencesOfBars, ConcatEmptySeq DEF All, Cut
<1>5. Sound(topic, ckpt.offset, ckpt.wm, ckpt.open, ckpt.late, Base) BY DEF SoundInv
<1>6. ckpt.offset \in [Partition -> Nat] /\ ckpt.wm \in Int BY <1>5 DEF Sound, Marked
<1>7. ShapeInv' BY <1>1, <1>6 DEF ShapeInv
<1>8. TopicInv' /\ MaxTsInv' /\ IdleInv' /\ CkptInv'
  BY <1>1, <1>2 DEF TopicInv, MaxTsInv, IdleInv, CkptInv
<1>9. SoundInv' BY <1>1, <1>2, <1>3, <1>4, <1>5 DEF SoundInv
<1> QED BY <1>7, <1>8, <1>9

LEMMA StutterKeeps == IInv /\ UNCHANGED vars => IInv'
<1> SUFFICES ASSUME IInv, UNCHANGED vars PROVE IInv' OBVIOUS
<1> USE DEF vars, topicVars, jobVars, stateVars, ckptVars, tableVars
<1>1. Base' = Base /\ Cut' = Cut /\ All' = All BY DEF Base, Cut, All
<1>2. ShapeInv' /\ TopicInv' /\ MaxTsInv' /\ IdleInv' /\ CkptInv'
  BY DEF IInv, ShapeInv, TopicInv, MaxTsInv, IdleInv, CkptInv
<1>3. SoundInv' BY <1>1 DEF IInv, SoundInv
<1> QED BY <1>2, <1>3 DEF IInv

-----------------------------------------------------------------------------
(* IInv holds in every reachable state.                                     *)
THEOREM InductiveInvariant == Spec => []IInv
<1>1. Init => IInv BY InitInv
<1>2. IInv /\ [Next]_vars => IInv'
  BY ProduceKeeps, ConsumeKeeps, EmitKeeps, BarrierKeeps, CompleteKeeps, CommitKeeps,
     CrashKeeps, RestoreKeeps, StutterKeeps DEF Next
<1> QED BY <1>1, <1>2, PTL DEF Spec

(* The job keeps its state in its types, and what it holds in open windows  *)
(* are records before its offsets in windows the watermark has not passed.  *)
THEOREM TypeCorrectness == Spec => []TypeOK
<1>1. IInv => TypeOK BY TypesFollow
<1> QED BY <1>1, InductiveInvariant, PTL

(* normalized.ohlcv_1m has at most one bar of a window: a repeated tick, a  *)
(* crash at any point of a checkpoint, or a late tick never makes another.  *)
THEOREM OneBar == Spec => []OneBarPerWindow
<1>1. IInv => OneBarPerWindow
  <2> SUFFICES ASSUME IInv, NEW i \in DOMAIN bars, NEW j \in DOMAIN bars,
                      bars[i].window = bars[j].window
               PROVE  i = j
    BY DEF OneBarPerWindow
  <2>1. bars \in Seq(Bar) /\ ckpt.bars \in Seq(Bar) /\ DOMAIN bars = 1 .. Len(bars)
    BY DEF IInv, ShapeInv, CkptInv
  <2>2. \A k \in 1 .. Len(bars) : k \in 1 .. Len(Base) /\ Base[k] = bars[k]
    <3>1. CASE pending
      <4>1. Base = bars \o ckpt.bars BY <3>1 DEF Base
      <4> QED BY <2>1, <4>1
    <3>2. CASE ~ pending BY <3>2 DEF Base
    <3> QED BY <3>1, <3>2
  <2>3. \A k, l \in 1 .. Len(Base) : Base[k].window = Base[l].window => k = l
    BY DEF IInv, SoundInv, Sound, Closed
  <2> QED BY <2>1, <2>2, <2>3
<1> QED BY <1>1, InductiveInvariant, PTL

(* When a commit has been made, every priced tick before the checkpoint's   *)
(* offsets is in exactly one place: a bar of the table, a window that the   *)
(* checkpoint holds open, or the ticks dropped as late.                     *)
THEOREM Accounting == Spec => []TicksAccounted
<1>1. IInv => TicksAccounted
  <2> SUFFICES ASSUME IInv, ~ pending PROVE TicksAccounted BY DEF TicksAccounted
  <2>1. Base = bars BY DEF Base
  <2>2. Accounted(topic, ckpt.offset, ckpt.open, ckpt.late, bars)
    BY <2>1 DEF IInv, SoundInv, Sound
  <2>3. ReadTo(topic, ckpt.offset) = {r \in Records : r[2] <= ckpt.offset[r[1]] /\ Record(r).priced}
    BY TopicFacts DEF IInv, ReadTo
  <2>4. RecordsOf(bars) \cap (ckpt.open \cup ckpt.late) = {} /\ ckpt.open \cap ckpt.late = {}
    BY <2>2 DEF Accounted
  <2>5. ReadTo(topic, ckpt.offset) = RecordsOf(bars) \cup ckpt.open \cup ckpt.late
    BY <2>2 DEF Accounted
  <2> QED BY <2>3, <2>4, <2>5 DEF TicksAccounted
<1> QED BY <1>1, InductiveInvariant, PTL

(* A tick is dropped as late only if the partition it is in had shown one   *)
(* more than the watermark's delay after its window's end: the watermark is *)
(* of the slowest partition, and a restart takes it from a checkpoint that  *)
(* has read at least as much.                                               *)
THEOREM LateByOwn == Spec => []LateInOwnPartition
<1>1. IInv => LateInOwnPartition
  <2> SUFFICES ASSUME IInv PROVE LateInOwnPartition OBVIOUS
  <2>1. CASE status = "running"
    <3>1. Behind(topic, late) BY <2>1 DEF IInv, SoundInv, Sound
    <3> QED BY <3>1, TopicFacts DEF IInv, Behind, LateInOwnPartition
  <2>2. CASE status # "running" BY <2>2 DEF IInv, IdleInv, LateInOwnPartition
  <2> QED BY <2>1, <2>2
<1> QED BY <1>1, InductiveInvariant, PTL

=============================================================================
