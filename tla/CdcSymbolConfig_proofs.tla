----------------------- MODULE CdcSymbolConfig_proofs -----------------------
(***************************************************************************)
(* What holds of the CDC job for all symbols, values, histories of the      *)
(* source table and bounds: its types, that every step is one of CdcTables  *)
(* or none, that the normalized table is a state of the source table while  *)
(* the connector has repeated nothing, and that the bronze table re-derives *)
(* one in any case.                                                         *)
(***************************************************************************)
EXTENDS CdcSymbolConfig, Lemmas, SequenceTheorems

-----------------------------------------------------------------------------
(* The job: what it has read and written is where the checkpoints say.      *)

(* Path p leaves a row in a file. *)
Wrote(p, e) == IF p = "bronze" THEN Emits(e) ELSE Parsed(e)

(* Reading lg from offset a to before offset b, path p writes the files.    *)
Leads(lg, p, a, b, files) ==
    /\ a \in Nat /\ b \in Nat /\ a <= b /\ b <= Len(lg)
    /\ \E so : /\ so[a] = <<>> /\ so[b] = files
               /\ \A o \in (a + 1) .. b :
                     so[o] = IF Wrote(p, lg[o]) THEN Append(so[o - 1], o - 1) ELSE so[o - 1]

(* The last point at which path p has handed over what it wrote. *)
Base(p) == IF p \in passed THEN saved[p].offset ELSE ckpt[p].offset

LegsInv ==
    /\ status # "running" => passed = {} /\ \A p \in Path : written[p] = <<>>
    /\ passed \cap pending = {}
    /\ \A p \in pending : Leads(log, p, upto[p], ckpt[p].offset, ckpt[p].written)
    /\ \A p \in Path \ pending : upto[p] = ckpt[p].offset
    /\ \A p \in passed : Leads(log, p, ckpt[p].offset, saved[p].offset, saved[p].written)
    /\ status = "running" =>
          \A p \in Path : Leads(log, p, Base(p), offset[p], written[p])

-----------------------------------------------------------------------------
(* The source: where the events of the topic come from.                     *)

SourceInv ==
    /\ hist \in Histories
    /\ snapAt = 0 => snapLeft = {} /\ streamed = 0
    /\ snapAt # 0 => /\ snapAt <= streamed
                     /\ \A s \in snapLeft : hist[snapAt][s] # None
    /\ snapLeft # {} => streamed = snapAt

Read(s) == [op |-> "r", before |-> None, after |-> RowOf(hist[snapAt], s), lsn |-> snapAt]

IsStray(e) == e.op \in {"?", "null"}

(* The event at o is a row of the snapshot. *)
IsRead(o) ==
    snapAt # 0 /\ \E s \in Symbol \ snapLeft : hist[snapAt][s] # None /\ log[o] = Read(s)

(* The change that led to state k is among the first n events. *)
Emitted(k, n) == \E o \in 1 .. n : log[o] = ChangeTo(k)

(* The event at o is a change, and those before it are before it. *)
IsChange(o) ==
    /\ snapAt # 0 /\ snapLeft = {}
    /\ \E k \in (snapAt + 1) .. now :
          /\ log[o] = ChangeTo(k)
          /\ \A j \in (snapAt + 1) .. (k - 1) : Emitted(j, o - 1)

(* All changes up to streamed have been emitted. *)
EventsInv ==
    /\ \A o \in 1 .. Len(log) : IsStray(log[o]) \/ IsRead(o) \/ IsChange(o)
    /\ snapAt # 0 => \A k \in (snapAt + 1) .. streamed :
                         \E o \in 1 .. Len(log) : log[o] = ChangeTo(k)

-----------------------------------------------------------------------------
(* The tables.                                                              *)

(* What the first n events make of an empty table. *)
TableAt(lg, n) == Upserted(Empty, SubSeq(lg, 1, n))

(* What the connector has told of the source table. *)
Told == [s \in Symbol |-> IF snapAt = 0 \/ s \in snapLeft THEN None ELSE hist[streamed][s]]

(* The first n events show a state of the source table. *)
Shows(n) == SnapshotIn(n) => \E k \in snapAt .. streamed : TableAt(log, n) = hist[k]

TopicInv ==
    /\ snapAt = 0 => \A n \in 0 .. Len(log) : TableAt(log, n) = Empty
    /\ rewinds = 0 => TableAt(log, Len(log)) = Told /\ \A n \in 0 .. Len(log) : Shows(n)

NormalizedInv == normalized = TableAt(log, upto.normalized)

Row == [op : {"r", "c", "u", "d"}, symbol : Symbol, before : Image \cup {None},
        after : Image \cup {None}, lsn : Nat, offset : Nat]

BronzeInv ==
    /\ bronze \in Seq(Row)
    /\ \A i \in 1 .. Len(bronze) : \E o \in 1 .. upto.bronze :
          Emits(log[o]) /\ bronze[i] = BronzeRow(log[o], o - 1)
    /\ \A o \in 1 .. upto.bronze :
          Emits(log[o]) => \E i \in 1 .. Len(bronze) : bronze[i] = BronzeRow(log[o], o - 1)

IInv == TypeOK /\ LegsInv /\ SourceInv /\ EventsInv /\ TopicInv /\ NormalizedInv /\ BronzeInv
-----------------------------------------------------------------------------
(* Upserted, by one event more.                                             *)

LEMMA UpsertType ==
  ASSUME NEW t \in Table, NEW e \in Event
  PROVE  Upsert(t, e) \in Table
<1>1. CASE ~ Parsed(e) BY <1>1 DEF Upsert
<1>2. CASE Parsed(e) /\ e.op = "d"
  <2>1. e.before \in Image BY <1>2 DEF Parsed, Event
  <2> QED BY <1>2, <2>1 DEF Upsert, Table, Image
<1>3. CASE Parsed(e) /\ e.op # "d"
  <2>1. e.after \in Image BY <1>3 DEF Parsed, Event
  <2> QED BY <1>3, <2>1 DEF Upsert, Table, Image
<1> QED BY <1>1, <1>2, <1>3

LEMMA UpsertedIs ==
  ASSUME NEW t \in Table, NEW s \in Seq(Event)
  PROVE  \E f : /\ f \in [0 .. Len(s) -> Table] /\ f[0] = t
                /\ \A i \in 1 .. Len(s) : f[i] = Upsert(f[i - 1], s[i])
                /\ Upserted(t, s) = f[Len(s)]
<1>0. Len(s) \in Nat OBVIOUS
<1> DEFINE n == Len(s)
           F == [z \in (1 .. n) \X Table |-> Upsert(z[2], s[z[1]])]
           Step(f) == [i \in 0 .. n |-> IF i = 0 THEN t ELSE Upsert(f[i - 1], s[i])]
           ch == CHOOSE f : f = Step(f)
<1>1. \A i \in (0 + 1) .. n : \A x \in Table : F[<<i, x>>] \in Table /\ F[<<i, x>>] = Upsert(x, s[i])
  BY UpsertType
<1>2. PICK f \in [0 .. n -> Table] : /\ f[0] = t
                                     /\ \A i \in (0 + 1) .. n : f[i] = F[<<i, f[i - 1]>>]
  <2>1. IsStep(F, 0, n, Table) BY <1>1 DEF IsStep
  <2>2. 0 \in Nat /\ n \in Nat /\ 0 <= n BY <1>0
  <2> HIDE DEF F, n
  <2>3. \E f : Unfolds(f, F, 0, n, Table, t) BY <2>1, <2>2, RecursionExists
  <2> QED BY <2>3 DEF Unfolds
<1>3. \A i \in 1 .. n : f[i] = Upsert(f[i - 1], s[i])
  <2> HIDE DEF F
  <2> QED BY <1>0, <1>1, <1>2
<1>4. f = Step(f)
  <2>1. \A i \in 0 .. n : f[i] = Step(f)[i] BY <1>0, <1>2, <1>3
  <2> QED BY <1>2, <2>1
<1>5. ch = Step(ch)
  <2> HIDE DEF Step
  <2> QED BY <1>4
<1>6. Upserted(t, s) = ch[n] BY DEF Upserted
<1>7. DOMAIN ch = 0 .. n /\ ch[0] = t /\ \A i \in 1 .. n : ch[i] = Upsert(ch[i - 1], s[i])
  <2> HIDE DEF ch
  <2>1. /\ DOMAIN Step(ch) = 0 .. n /\ Step(ch)[0] = t
        /\ \A i \in 1 .. n : Step(ch)[i] = Upsert(ch[i - 1], s[i])
    BY <1>0
  <2> HIDE DEF Step
  <2> QED BY <1>5, <2>1
<1>8. ch \in [0 .. n -> Table]
  <2> DEFINE T == {i \in 0 .. n : ch[i] \in Table}
  <2> HIDE DEF ch
  <2>1. 0 \in T BY <1>0, <1>7
  <2>2. \A i \in (0 + 1) .. n : i - 1 \in T => i \in T
    BY <1>0, <1>7, UpsertType
  <2>3. \A i \in 0 .. n : i \in T
    <3> HIDE DEF T, n
    <3> QED BY <1>0, <2>1, <2>2, Induction DEF n
  <2>4. ch = [i \in 0 .. n |-> ch[i]]
    <3>1. Step(ch) = [i \in 0 .. n |-> Step(ch)[i]] OBVIOUS
    <3> HIDE DEF Step
    <3> QED BY <1>5, <3>1
  <2> QED BY <2>3, <2>4
<1> HIDE DEF ch
<1> QED BY <1>6, <1>7, <1>8

Steps(f, t, s, n) == f[0] = t /\ \A i \in 1 .. n : f[i] = Upsert(f[i - 1], s[i])

LEMMA UpsertedUnique ==
  ASSUME NEW t, NEW s, NEW n \in Nat, NEW f, NEW g, Steps(f, t, s, n), Steps(g, t, s, n)
  PROVE  f[n] = g[n]
<1> USE DEF Steps
<1> DEFINE T == {i \in 0 .. n : f[i] = g[i]}
<1>1. 0 \in T OBVIOUS
<1>2. \A i \in (0 + 1) .. n : i - 1 \in T => i \in T OBVIOUS
<1>3. \A i \in 0 .. n : i \in T
  <2> HIDE DEF T
  <2> QED BY <1>1, <1>2, Induction
<1> QED BY <1>3

LEMMA UpsertedType ==
  ASSUME NEW t \in Table, NEW s \in Seq(Event)
  PROVE  Upserted(t, s) \in Table
<1>1. PICK f : f \in [0 .. Len(s) -> Table] /\ Upserted(t, s) = f[Len(s)] BY UpsertedIs
<1>2. Len(s) \in 0 .. Len(s) OBVIOUS
<1> QED BY <1>1, <1>2

LEMMA UpsertedNone ==
  ASSUME NEW t \in Table
  PROVE  Upserted(t, <<>>) = t
<1>1. ASSUME NEW s \in Seq(Event), Len(s) = 0 PROVE Upserted(t, s) = t
  <2>1. PICK f : f[0] = t /\ Upserted(t, s) = f[Len(s)] BY UpsertedIs
  <2> QED BY <1>1, <2>1
<1>2. <<>> \in Seq(Event) /\ Len(<<>>) = 0 OBVIOUS
<1> QED BY <1>1, <1>2, Zenon

LEMMA UpsertedOne ==
  ASSUME NEW t \in Table, NEW s \in Seq(Event), NEW e \in Event
  PROVE  Upserted(t, Append(s, e)) = Upsert(Upserted(t, s), e)
<1> DEFINE n == Len(s)
           s2 == Append(s, e)
<1>1. /\ n \in Nat /\ s2 \in Seq(Event) /\ Len(s2) = n + 1 /\ s2[n + 1] = e
      /\ \A i \in 1 .. n : s2[i] = s[i]
  OBVIOUS
<1>2. PICK f : /\ f[0] = t /\ \A i \in 1 .. n : f[i] = Upsert(f[i - 1], s[i])
               /\ Upserted(t, s) = f[n]
  BY UpsertedIs
<1> HIDE DEF s2
<1>3. PICK g : /\ g[0] = t /\ \A i \in 1 .. Len(s2) : g[i] = Upsert(g[i - 1], s2[i])
               /\ Upserted(t, s2) = g[Len(s2)]
  BY <1>1, UpsertedIs
<1>4. \A i \in 1 .. n : g[i] = Upsert(g[i - 1], s[i]) BY <1>1, <1>3
<1>5. f[n] = g[n]
  <2>1. Steps(f, t, s, n) /\ Steps(g, t, s, n) BY <1>2, <1>3, <1>4 DEF Steps
  <2> HIDE DEF n
  <2> QED BY <1>1, <2>1, UpsertedUnique
<1>6. g[n + 1] = Upsert(g[n], e) BY <1>1, <1>3
<1> QED BY <1>1, <1>2, <1>3, <1>5, <1>6 DEF s2


-----------------------------------------------------------------------------
(* The files of a leg.                                                      *)

(* They hold the events of the leg that path p writes, and no others.       *)
Holds(lg, p, a, b, fs) ==
    /\ fs \in Seq(Nat)
    /\ \A i \in 1 .. Len(fs) : fs[i] \in a .. (b - 1) /\ Wrote(p, lg[fs[i] + 1])
    /\ \A o \in (a + 1) .. b : Wrote(p, lg[o]) => \E i \in 1 .. Len(fs) : fs[i] = o - 1

(* Their contents after each event of the leg. *)
Unrolls(so, lg, p, a, b) ==
    /\ so[a] = <<>>
    /\ \A o \in (a + 1) .. b :
          so[o] = IF Wrote(p, lg[o]) THEN Append(so[o - 1], o - 1) ELSE so[o - 1]

LEMMA AppendIs ==
  ASSUME NEW S, NEW s \in Seq(S), NEW x \in S
  PROVE  /\ Append(s, x) \in Seq(S) /\ Len(Append(s, x)) = Len(s) + 1 /\ Len(s) \in Nat
         /\ Append(s, x)[Len(s) + 1] = x
         /\ \A i \in 1 .. Len(s) : Append(s, x)[i] = s[i]
         /\ \A i \in 1 .. Len(s) + 1 : i \in 1 .. Len(s) \/ i = Len(s) + 1
OBVIOUS

LEMMA HoldsNone ==
  ASSUME NEW lg, NEW p, NEW a \in Nat
  PROVE  Holds(lg, p, a, a, <<>>)
<1>1. ASSUME NEW s \in Seq(Nat), Len(s) = 0 PROVE Holds(lg, p, a, a, s)
  BY <1>1 DEF Holds
<1>2. <<>> \in Seq(Nat) /\ Len(<<>>) = 0 OBVIOUS
<1> QED BY <1>1, <1>2, Zenon

LEMMA HoldsOn ==
  ASSUME NEW lg, NEW p, NEW a \in Nat, NEW o \in Nat, a < o, NEW fs, Holds(lg, p, a, o - 1, fs)
  PROVE  /\ Wrote(p, lg[o]) => Holds(lg, p, a, o, Append(fs, o - 1))
         /\ ~ Wrote(p, lg[o]) => Holds(lg, p, a, o, fs)
<1> DEFINE n == Len(fs)
           on == Append(fs, o - 1)
<1>1. /\ fs \in Seq(Nat) /\ n \in Nat
      /\ \A i \in 1 .. n : fs[i] \in a .. (o - 2) /\ Wrote(p, lg[fs[i] + 1])
      /\ \A x \in (a + 1) .. (o - 1) : Wrote(p, lg[x]) => \E i \in 1 .. n : fs[i] = x - 1
  BY DEF Holds
<1>2. /\ on \in Seq(Nat) /\ Len(on) = n + 1 /\ on[n + 1] = o - 1
      /\ \A i \in 1 .. n : on[i] = fs[i]
      /\ \A i \in 1 .. n + 1 : i \in 1 .. n \/ i = n + 1
  <2>1. o - 1 \in Nat OBVIOUS
  <2> QED BY <1>1, <2>1, AppendIs
<1> HIDE DEF n, on
<1>3. ASSUME Wrote(p, lg[o]) PROVE Holds(lg, p, a, o, on)
  <2>1. ASSUME NEW i \in 1 .. Len(on) PROVE on[i] \in a .. (o - 1) /\ Wrote(p, lg[on[i] + 1])
    <3>1. CASE i \in 1 .. n
      <4>1. on[i] = fs[i] /\ fs[i] \in a .. (o - 2) /\ Wrote(p, lg[fs[i] + 1])
        BY <1>1, <1>2, <3>1
      <4>2. \A y \in a .. (o - 2) : y \in a .. (o - 1) OBVIOUS
      <4> QED BY <4>1, <4>2, Zenon
    <3>2. CASE i = n + 1 BY <1>2, <1>3, <3>2
    <3> QED BY <1>2, <3>1, <3>2
  <2>2. ASSUME NEW x \in (a + 1) .. o, Wrote(p, lg[x]) PROVE \E i \in 1 .. Len(on) : on[i] = x - 1
    <3>1. CASE x = o BY <1>1, <1>2, <3>1
    <3>2. CASE x # o
      <4>1. PICK i \in 1 .. n : fs[i] = x - 1 BY <1>1, <2>2, <3>2
      <4> QED BY <1>1, <1>2, <4>1
    <3> QED BY <3>1, <3>2
  <2> QED BY <1>2, <2>1, <2>2 DEF Holds
<1>4. ASSUME ~ Wrote(p, lg[o]) PROVE Holds(lg, p, a, o, fs)
  <2>1. \A x \in (a + 1) .. o : Wrote(p, lg[x]) => x \in (a + 1) .. (o - 1) BY <1>4
  <2>2. \A i \in 1 .. n : fs[i] \in a .. (o - 1) /\ Wrote(p, lg[fs[i] + 1]) BY <1>1
  <2> QED BY <1>1, <2>1, <2>2 DEF Holds, n
<1> QED BY <1>3, <1>4 DEF on

LEMMA LeadsHolds ==
  ASSUME NEW lg, NEW p, NEW a, NEW b, NEW files, Leads(lg, p, a, b, files)
  PROVE  /\ a \in Nat /\ b \in Nat /\ a <= b /\ b <= Len(lg) /\ Holds(lg, p, a, b, files)
         /\ \E so : /\ Unrolls(so, lg, p, a, b) /\ so[b] = files
                    /\ \A o \in a .. b : Holds(lg, p, a, o, so[o])
<1>1. /\ a \in Nat /\ b \in Nat /\ a <= b /\ b <= Len(lg)
      /\ \E so : Unrolls(so, lg, p, a, b) /\ so[b] = files
  BY DEF Leads, Unrolls
<1>2. PICK so : Unrolls(so, lg, p, a, b) /\ so[b] = files BY <1>1
<1> DEFINE T == {o \in a .. b : Holds(lg, p, a, o, so[o])}
<1>3. a \in T
  <2>1. so[a] = <<>> BY <1>2 DEF Unrolls
  <2>2. Holds(lg, p, a, a, <<>>) BY <1>1, HoldsNone
  <2>3. Holds(lg, p, a, a, so[a]) BY <2>1, <2>2, Zenon
  <2>4. a \in a .. b BY <1>1
  <2> QED BY <2>3, <2>4
<1>4. ASSUME NEW o \in (a + 1) .. b, o - 1 \in T PROVE o \in T
  <2>1. Holds(lg, p, a, o - 1, so[o - 1]) /\ o \in Nat /\ a < o BY <1>1, <1>4
  <2>2. so[o] = IF Wrote(p, lg[o]) THEN Append(so[o - 1], o - 1) ELSE so[o - 1]
    BY <1>2 DEF Unrolls
  <2>3. Holds(lg, p, a, o, so[o]) BY <1>1, <2>1, <2>2, HoldsOn
  <2> QED BY <1>1, <2>3
<1>5. \A o \in a .. b : o \in T
  <2> HIDE DEF T
  <2> QED BY <1>1, <1>3, <1>4, Induction
<1>6. Holds(lg, p, a, b, files) BY <1>1, <1>2, <1>5
<1> QED BY <1>1, <1>2, <1>5, <1>6

-----------------------------------------------------------------------------
(* The rows of the files are those BronzeRows gives.                        *)

RowsOf(fs) == [i \in 1 .. Len(fs) |-> BronzeRow(log[fs[i] + 1], fs[i])]

LEMMA RowsOfAppend ==
  ASSUME NEW fs \in Seq(Nat), NEW x \in Nat
  PROVE  RowsOf(Append(fs, x)) = Append(RowsOf(fs), BronzeRow(log[x + 1], x))
<1> DEFINE n == Len(fs)
           R == {BronzeRow(log[y + 1], y) : y \in Nat}
           new == BronzeRow(log[x + 1], x)
           rows == RowsOf(fs)
           more == Append(rows, new)
           fx == Append(fs, x)
<1>1. n \in Nat /\ \A i \in 1 .. n : fs[i] \in Nat OBVIOUS
<1>2. new \in R OBVIOUS
<1>3. rows = [i \in 1 .. n |-> BronzeRow(log[fs[i] + 1], fs[i])] BY DEF RowsOf
<1>4. \A i \in 1 .. n : rows[i] = BronzeRow(log[fs[i] + 1], fs[i]) /\ rows[i] \in R
  <2> HIDE DEF rows
  <2>1. \A i \in 1 .. n : rows[i] = BronzeRow(log[fs[i] + 1], fs[i]) BY <1>3
  <2> QED BY <1>1, <2>1
<1>5. rows \in Seq(R) /\ Len(rows) = n
  <2> HIDE DEF rows, R, n
  <2>1. rows = [i \in 1 .. n |-> rows[i]] BY <1>3
  <2>2. rows \in [1 .. n -> R] BY <1>4, <2>1
  <2> QED BY <1>1, <2>2
<1>6. /\ fx \in Seq(Nat) /\ Len(fx) = n + 1 /\ fx[n + 1] = x
      /\ \A i \in 1 .. n : fx[i] = fs[i]
      /\ \A i \in 1 .. n + 1 : i \in 1 .. n \/ i = n + 1
  BY AppendIs
<1> HIDE DEF rows, R, new, fx, n
<1>7. /\ more \in Seq(R) /\ Len(more) = n + 1 /\ more[n + 1] = new
      /\ \A i \in 1 .. n : more[i] = rows[i]
  BY <1>2, <1>5, AppendIs
<1> HIDE DEF more
<1>8. \A i \in 1 .. n + 1 : more[i] = BronzeRow(log[fx[i] + 1], fx[i])
  <2>1. more[n + 1] = BronzeRow(log[fx[n + 1] + 1], fx[n + 1]) BY <1>6, <1>7 DEF new
  <2>2. \A i \in 1 .. n : more[i] = BronzeRow(log[fx[i] + 1], fx[i]) BY <1>4, <1>6, <1>7
  <2> QED BY <1>6, <2>1, <2>2
<1>9. more = [i \in 1 .. n + 1 |-> more[i]] BY <1>7
<1>10. more = [i \in 1 .. n + 1 |-> BronzeRow(log[fx[i] + 1], fx[i])] BY <1>8, <1>9
<1> QED BY <1>6, <1>10 DEF RowsOf, more, new, rows, fx

LEMMA RowsOfNone == RowsOf(<<>>) = <<>>
<1>1. ASSUME NEW s \in Seq(Nat), Len(s) = 0 PROVE RowsOf(s) = <<>> BY <1>1 DEF RowsOf
<1>2. <<>> \in Seq(Nat) /\ Len(<<>>) = 0 OBVIOUS
<1> QED BY <1>1, <1>2, Zenon

LEMMA LeadsBronzeRows ==
  ASSUME NEW a, NEW b, NEW files, Leads(log, "bronze", a, b, files)
  PROVE  BronzeRows(a, b) = RowsOf(files)
<1>1. a \in Nat /\ b \in Nat /\ a <= b BY LeadsHolds
<1>2. PICK so : /\ Unrolls(so, log, "bronze", a, b) /\ so[b] = files
                /\ \A o \in a .. b : Holds(log, "bronze", a, o, so[o])
  BY LeadsHolds
<1> DEFINE Step(f) == [o \in a .. b |->
                         IF o = a THEN <<>>
                         ELSE IF Emits(log[o]) THEN Append(f[o - 1], BronzeRow(log[o], o - 1))
                         ELSE f[o - 1]]
           ch == CHOOSE f : f = Step(f)
           known == [o \in a .. b |-> RowsOf(so[o])]
<1>3. BronzeRows(a, b) = ch[b] BY DEF BronzeRows
<1>4. known = Step(known)
  <2>1. ASSUME NEW o \in a .. b PROVE known[o] = Step(known)[o]
    <3>1. CASE o = a
      <4>1. so[o] = <<>> BY <1>2, <3>1 DEF Unrolls
      <4>2. RowsOf(so[o]) = <<>> BY <4>1, RowsOfNone
      <4> QED BY <3>1, <4>2
    <3>2. CASE o # a
      <4>1. o \in (a + 1) .. b /\ o - 1 \in a .. b /\ o - 1 \in Nat BY <1>1, <2>1, <3>2
      <4>2. so[o] = IF Emits(log[o]) THEN Append(so[o - 1], o - 1) ELSE so[o - 1]
        BY <1>2, <4>1 DEF Unrolls, Wrote
      <4>3. so[o - 1] \in Seq(Nat) BY <1>2, <4>1 DEF Holds
      <4>4. RowsOf(Append(so[o - 1], o - 1)) = Append(RowsOf(so[o - 1]), BronzeRow(log[o], o - 1))
        <5>1. (o - 1) + 1 = o BY <4>1
        <5> QED BY <4>1, <4>3, <5>1, RowsOfAppend
      <4>5. known[o] = RowsOf(so[o]) /\ known[o - 1] = RowsOf(so[o - 1]) BY <2>1, <4>1
      <4>6. Step(known)[o] = IF Emits(log[o]) THEN Append(known[o - 1], BronzeRow(log[o], o - 1))
                             ELSE known[o - 1]
        <5> HIDE DEF known
        <5> QED BY <2>1, <3>2
      <4> HIDE DEF known, Step
      <4> QED BY <4>2, <4>4, <4>5, <4>6
    <3> QED BY <3>1, <3>2
  <2>2. Step(known) = [o \in a .. b |-> Step(known)[o]] OBVIOUS
  <2>3. known = [o \in a .. b |-> known[o]] OBVIOUS
  <2> HIDE DEF known, Step
  <2> QED BY <2>1, <2>2, <2>3
<1>5. ch = Step(ch)
  <2> HIDE DEF known, Step
  <2> QED BY <1>4
<1>6. ch[b] = known[b]
  <2> DEFINE Same == {o \in a .. b : ch[o] = known[o]}
  <2>1. \A o \in a .. b : ch[o] = Step(ch)[o] /\ known[o] = Step(known)[o]
    <3> HIDE DEF ch, known, Step
    <3> QED BY <1>4, <1>5
  <2> HIDE DEF ch, known
  <2>2. a \in Same
    <3>1. a \in a .. b BY <1>1
    <3>2. Step(ch)[a] = <<>> /\ Step(known)[a] = <<>> BY <3>1
    <3> HIDE DEF Step
    <3> QED BY <2>1, <3>1, <3>2
  <2>3. ASSUME NEW o \in (a + 1) .. b, o - 1 \in Same PROVE o \in Same
    <3>1. o \in a .. b /\ o # a /\ ch[o - 1] = known[o - 1] BY <1>1, <2>3
    <3>2. Step(ch)[o] = Step(known)[o] BY <3>1
    <3> HIDE DEF Step
    <3> QED BY <2>1, <3>1, <3>2
  <2>4. \A o \in a .. b : o \in Same
    <3> HIDE DEF Same
    <3> QED BY <1>1, <2>2, <2>3, Induction
  <2> QED BY <1>1, <2>4
<1>7. known[b] = RowsOf(files) BY <1>1, <1>2
<1> HIDE DEF ch, known
<1> QED BY <1>3, <1>6, <1>7

-----------------------------------------------------------------------------
(* What the files make of a table is what the events of the leg make of it. *)

LEMMA SubSeqIs ==
  ASSUME NEW S, NEW s \in Seq(S), NEW a \in Nat, NEW b \in Nat, a <= b, b <= Len(s)
  PROVE  /\ SubSeq(s, a + 1, b) \in Seq(S) /\ Len(SubSeq(s, a + 1, b)) = b - a
         /\ \A i \in 1 .. b - a : SubSeq(s, a + 1, b)[i] = s[a + i]
<1>1. \A i \in (a + 1) .. b : s[i] \in S OBVIOUS
<1> QED BY <1>1, SubSeqProperties

LEMMA SubSeqAppend ==
  ASSUME NEW S, NEW s \in Seq(S), NEW a \in Nat, NEW o \in Nat, a < o, o <= Len(s)
  PROVE  SubSeq(s, a + 1, o) = Append(SubSeq(s, a + 1, o - 1), s[o])
<1> DEFINE long == SubSeq(s, a + 1, o)
           short == SubSeq(s, a + 1, o - 1)
           more == Append(short, s[o])
<1>0. s[o] \in S /\ o - 1 \in Nat /\ a <= o - 1 /\ o - 1 <= Len(s) OBVIOUS
<1>1. long \in Seq(S) /\ Len(long) = o - a /\ \A i \in 1 .. o - a : long[i] = s[a + i]
  BY SubSeqIs
<1>2. /\ short \in Seq(S) /\ Len(short) = o - 1 - a
      /\ \A i \in 1 .. o - 1 - a : short[i] = s[a + i]
  BY <1>0, SubSeqIs
<1> HIDE DEF long, short
<1>3. /\ more \in Seq(S) /\ Len(more) = Len(short) + 1 /\ more[Len(short) + 1] = s[o]
      /\ \A i \in 1 .. Len(short) : more[i] = short[i]
  BY <1>0, <1>2, AppendIs
<1> HIDE DEF more
<1>4. \A i \in 1 .. o - a : more[i] = s[a + i]
  <2>1. ASSUME NEW i \in 1 .. o - a PROVE more[i] = s[a + i]
    <3>1. CASE i = o - a BY <1>2, <1>3, <3>1
    <3>2. CASE i # o - a
      <4>1. i \in 1 .. o - 1 - a BY <3>2
      <4> QED BY <1>2, <1>3, <4>1
    <3> QED BY <3>1, <3>2
  <2> QED BY <2>1
<1>5. Len(more) = o - a BY <1>2, <1>3
<1>6. more = long BY <1>1, <1>3, <1>4, <1>5, SeqEqual
<1> QED BY <1>6 DEF more, long, short

LEMMA SubSeqNone ==
  ASSUME NEW s, NEW a \in Nat
  PROVE  SubSeq(s, a + 1, a) = <<>>
<1>1. a + 1 > a OBVIOUS
<1> QED BY <1>1, SubSeqEmpty

(* Files of events that the topic has. *)
Within(fs) == fs \in Seq(Nat) /\ \A i \in 1 .. Len(fs) : fs[i] < Len(log)

LEMMA EventsAre ==
  ASSUME log \in Seq(Event), NEW fs, Within(fs)
  PROVE  /\ Events(fs) \in Seq(Event) /\ Len(Events(fs)) = Len(fs)
         /\ \A i \in 1 .. Len(fs) : Events(fs)[i] = log[fs[i] + 1]
<1> DEFINE n == Len(fs)
           ev == Events(fs)
<1>1. n \in Nat /\ DOMAIN fs = 1 .. n /\ \A i \in 1 .. n : fs[i] \in Nat /\ fs[i] < Len(log)
  BY DEF Within
<1>2. ev = [i \in 1 .. n |-> log[fs[i] + 1]] BY <1>1 DEF Events
<1>3. \A i \in 1 .. n : log[fs[i] + 1] \in Event
  <2>1. \A i \in 1 .. n : fs[i] + 1 \in 1 .. Len(log) BY <1>1
  <2> QED BY <2>1
<1> HIDE DEF ev, n
<1>4. ev \in [1 .. n -> Event] BY <1>2, <1>3
<1>5. ev \in Seq(Event) /\ Len(ev) = n BY <1>1, <1>4
<1>6. \A i \in 1 .. n : ev[i] = log[fs[i] + 1] BY <1>2
<1> QED BY <1>5, <1>6 DEF ev, n

LEMMA EventsAppend ==
  ASSUME log \in Seq(Event), NEW fs, Within(fs), NEW x \in Nat, x < Len(log)
  PROVE  Events(Append(fs, x)) = Append(Events(fs), log[x + 1])
<1> DEFINE n == Len(fs)
           fx == Append(fs, x)
           ev == Events(fs)
           ex == Events(fx)
           more == Append(ev, log[x + 1])
<1>1. n \in Nat /\ fs \in Seq(Nat) /\ \A i \in 1 .. n : fs[i] < Len(log) BY DEF Within
<1>2. /\ fx \in Seq(Nat) /\ Len(fx) = n + 1 /\ fx[n + 1] = x
      /\ \A i \in 1 .. n : fx[i] = fs[i]
      /\ \A i \in 1 .. n + 1 : i \in 1 .. n \/ i = n + 1
  BY <1>1, AppendIs
<1>3. ev \in Seq(Event) /\ Len(ev) = n /\ \A i \in 1 .. n : ev[i] = log[fs[i] + 1]
  BY EventsAre
<1>4. log[x + 1] \in Event
  <2>1. x + 1 \in 1 .. Len(log) OBVIOUS
  <2> QED BY <2>1
<1> HIDE DEF fx, n
<1>5. Within(fx) BY <1>1, <1>2 DEF Within
<1>6. ex \in Seq(Event) /\ Len(ex) = n + 1 /\ \A i \in 1 .. n + 1 : ex[i] = log[fx[i] + 1]
  BY <1>2, <1>5, EventsAre
<1> HIDE DEF ev, ex
<1>7. /\ more \in Seq(Event) /\ Len(more) = n + 1 /\ more[n + 1] = log[x + 1]
      /\ \A i \in 1 .. n : more[i] = ev[i]
  BY <1>3, <1>4, AppendIs
<1> HIDE DEF more
<1>8. \A i \in 1 .. n + 1 : more[i] = ex[i]
  <2>1. more[n + 1] = ex[n + 1] BY <1>1, <1>2, <1>6, <1>7
  <2>2. ASSUME NEW i \in 1 .. n PROVE more[i] = ex[i]
    <3>1. i \in 1 .. n + 1 BY <1>1
    <3>2. more[i] = log[fs[i] + 1] BY <1>3, <1>7, Zenon
    <3>3. fx[i] = fs[i] BY <1>2, Zenon
    <3>4. ex[i] = log[fx[i] + 1] BY <1>6, <3>1, Zenon
    <3> QED BY <3>2, <3>3, <3>4
  <2> QED BY <1>2, <2>1, <2>2
<1>9. ex = more BY <1>6, <1>7, <1>8, SeqEqual
<1> QED BY <1>9 DEF ex, more, ev, fx

LEMMA EventsNone == Events(<<>>) = <<>>
<1>1. ASSUME NEW s \in Seq(Nat), Len(s) = 0 PROVE Events(s) = <<>> BY <1>1 DEF Events
<1>2. <<>> \in Seq(Nat) /\ Len(<<>>) = 0 OBVIOUS
<1> QED BY <1>1, <1>2, Zenon

LEMMA LeadsUpserted ==
  ASSUME log \in Seq(Event), NEW t \in Table, NEW a, NEW b, NEW files,
         Leads(log, "normalized", a, b, files)
  PROVE  Upserted(t, Events(files)) = Upserted(t, SubSeq(log, a + 1, b))
<1>1. a \in Nat /\ b \in Nat /\ a <= b /\ b <= Len(log) BY LeadsHolds
<1>2. PICK so : /\ Unrolls(so, log, "normalized", a, b) /\ so[b] = files
                /\ \A o \in a .. b : Holds(log, "normalized", a, o, so[o])
  BY LeadsHolds
<1>3. ASSUME NEW o \in a .. b PROVE Within(so[o])
  BY <1>1, <1>2 DEF Holds, Within
<1> DEFINE T == {o \in a .. b : Upserted(t, Events(so[o])) = Upserted(t, SubSeq(log, a + 1, o))}
<1>4. a \in T
  <2>1. so[a] = <<>> BY <1>2 DEF Unrolls
  <2>2. Events(so[a]) = SubSeq(log, a + 1, a) BY <1>1, <2>1, EventsNone, SubSeqNone
  <2>3. a \in a .. b BY <1>1
  <2> QED BY <2>2, <2>3
<1>5. ASSUME NEW o \in (a + 1) .. b, o - 1 \in T PROVE o \in T
  <2>1. /\ o \in a .. b /\ o - 1 \in a .. b /\ o - 1 \in Nat /\ o \in Nat /\ a < o
        /\ o <= Len(log) /\ o - 1 <= Len(log) /\ a <= o - 1 /\ o - 1 < Len(log)
        /\ (o - 1) + 1 = o
    BY <1>1, <1>5
  <2>2. so[o] = IF Parsed(log[o]) THEN Append(so[o - 1], o - 1) ELSE so[o - 1]
    BY <1>2, <1>5 DEF Unrolls, Wrote
  <2>3. log[o] \in Event BY <2>1
  <2> DEFINE es == Events(so[o - 1])
             sub == SubSeq(log, a + 1, o - 1)
  <2>4. es \in Seq(Event) BY <1>3, <2>1, EventsAre
  <2>5. sub \in Seq(Event) BY <1>1, <2>1, SubSeqIs
  <2>6. SubSeq(log, a + 1, o) = Append(sub, log[o]) BY <1>1, <2>1, SubSeqAppend
  <2>7. Upserted(t, es) = Upserted(t, sub) BY <1>5
  <2>8. Events(Append(so[o - 1], o - 1)) = Append(es, log[o])
    BY <1>3, <2>1, EventsAppend
  <2> HIDE DEF es, sub
  <2>9. Upserted(t, Append(sub, log[o])) = Upsert(Upserted(t, sub), log[o])
    BY <2>3, <2>5, UpsertedOne
  <2>10. Upserted(t, Append(es, log[o])) = Upsert(Upserted(t, es), log[o])
    BY <2>3, <2>4, UpsertedOne
  <2>11. Upserted(t, Events(so[o])) = Upserted(t, SubSeq(log, a + 1, o))
    <3>1. CASE Parsed(log[o]) BY <2>2, <2>6, <2>7, <2>8, <2>9, <2>10, <3>1
    <3>2. CASE ~ Parsed(log[o])
      <4>1. Upsert(Upserted(t, sub), log[o]) = Upserted(t, sub) BY <3>2 DEF Upsert
      <4> QED BY <2>2, <2>6, <2>7, <2>9, <3>2, <4>1 DEF es
    <3> QED BY <3>1, <3>2
  <2> QED BY <2>1, <2>11
<1>6. \A o \in a .. b : o \in T
  <2> HIDE DEF T
  <2> QED BY <1>1, <1>4, <1>5, Induction
<1> QED BY <1>1, <1>2, <1>6

-----------------------------------------------------------------------------
(* What the first n events make of an empty table, as n and the topic grow. *)

LEMMA EmptyType == Empty \in Table
BY DEF Empty, Table

LEMMA TableAtNone == ASSUME NEW lg PROVE TableAt(lg, 0) = Empty
<1>1. SubSeq(lg, 0 + 1, 0) = <<>> BY SubSeqNone
<1>2. SubSeq(lg, 1, 0) = <<>> BY <1>1
<1> QED BY <1>2, UpsertedNone, EmptyType DEF TableAt

LEMMA TableAtType ==
  ASSUME NEW lg \in Seq(Event), NEW n \in Nat, n <= Len(lg)
  PROVE  SubSeq(lg, 1, n) \in Seq(Event) /\ TableAt(lg, n) \in Table
<1>1. SubSeq(lg, 0 + 1, n) \in Seq(Event) BY SubSeqIs
<1>2. SubSeq(lg, 1, n) \in Seq(Event) BY <1>1
<1> QED BY <1>2, UpsertedType, EmptyType DEF TableAt

LEMMA TableAtNext ==
  ASSUME NEW lg \in Seq(Event), NEW n \in Nat, 0 < n, n <= Len(lg)
  PROVE  TableAt(lg, n) = Upsert(TableAt(lg, n - 1), lg[n])
<1>1. n - 1 \in Nat /\ n - 1 <= Len(lg) /\ lg[n] \in Event OBVIOUS
<1>2. SubSeq(lg, 0 + 1, n) = Append(SubSeq(lg, 0 + 1, n - 1), lg[n]) BY SubSeqAppend
<1>3. SubSeq(lg, 1, n) = Append(SubSeq(lg, 1, n - 1), lg[n]) BY <1>2
<1>4. SubSeq(lg, 1, n - 1) \in Seq(Event) BY <1>1, TableAtType
<1> QED BY <1>1, <1>3, <1>4, UpsertedOne, EmptyType DEF TableAt

LEMMA TableAtOn ==
  ASSUME NEW lg \in Seq(Event), NEW a \in Nat, NEW b \in Nat, a <= b, b <= Len(lg)
  PROVE  Upserted(TableAt(lg, a), SubSeq(lg, a + 1, b)) = TableAt(lg, b)
<1> DEFINE t == TableAt(lg, a)
           T == {o \in a .. b : Upserted(t, SubSeq(lg, a + 1, o)) = TableAt(lg, o)}
<1>0. t \in Table BY TableAtType
<1>1. a \in T
  <2>1. SubSeq(lg, a + 1, a) = <<>> BY SubSeqNone
  <2> HIDE DEF t
  <2>2. Upserted(t, SubSeq(lg, a + 1, a)) = t BY <1>0, <2>1, UpsertedNone
  <2> QED BY <2>2 DEF t
<1>2. ASSUME NEW o \in (a + 1) .. b, o - 1 \in T PROVE o \in T
  <2>1. /\ o \in Nat /\ o - 1 \in Nat /\ a < o /\ 0 < o /\ o <= Len(lg) /\ a <= o - 1
        /\ o - 1 <= Len(lg) /\ lg[o] \in Event
    BY <1>2
  <2> DEFINE sub == SubSeq(lg, a + 1, o - 1)
  <2>2. sub \in Seq(Event) BY <2>1, SubSeqIs
  <2>3. SubSeq(lg, a + 1, o) = Append(sub, lg[o]) BY <2>1, SubSeqAppend
  <2>4. Upserted(t, sub) = TableAt(lg, o - 1) BY <1>2
  <2>5. TableAt(lg, o) = Upsert(TableAt(lg, o - 1), lg[o]) BY <2>1, TableAtNext
  <2> HIDE DEF t, sub
  <2>6. Upserted(t, Append(sub, lg[o])) = Upsert(Upserted(t, sub), lg[o])
    BY <1>0, <2>1, <2>2, UpsertedOne
  <2>7. Upserted(t, SubSeq(lg, a + 1, o)) = TableAt(lg, o) BY <2>3, <2>4, <2>5, <2>6, Zenon
  <2>8. o \in a .. b BY <2>1, <1>2
  <2> QED BY <2>7, <2>8
<1>3. \A o \in a .. b : o \in T
  <2> HIDE DEF T
  <2> QED BY <1>1, <1>2, Induction
<1> QED BY <1>3

LEMMA TableAtGrows ==
  ASSUME NEW lg \in Seq(Event), NEW e \in Event, NEW n \in Nat, n <= Len(lg)
  PROVE  TableAt(Append(lg, e), n) = TableAt(lg, n)
<1> DEFINE lx == Append(lg, e)
<1>1. /\ lx \in Seq(Event) /\ Len(lx) = Len(lg) + 1 /\ Len(lg) \in Nat
      /\ \A i \in 1 .. Len(lg) : lx[i] = lg[i]
  BY AppendIs
<1> HIDE DEF lx
<1>2. /\ SubSeq(lx, 0 + 1, n) \in Seq(Event) /\ Len(SubSeq(lx, 0 + 1, n)) = n - 0
      /\ \A i \in 1 .. n - 0 : SubSeq(lx, 0 + 1, n)[i] = lx[0 + i]
  BY <1>1, SubSeqIs
<1>3. /\ SubSeq(lg, 0 + 1, n) \in Seq(Event) /\ Len(SubSeq(lg, 0 + 1, n)) = n - 0
      /\ \A i \in 1 .. n - 0 : SubSeq(lg, 0 + 1, n)[i] = lg[0 + i]
  BY SubSeqIs
<1>4. SubSeq(lx, 0 + 1, n) = SubSeq(lg, 0 + 1, n)
  <2> DEFINE u == SubSeq(lx, 0 + 1, n)
             v == SubSeq(lg, 0 + 1, n)
  <2>1. u \in Seq(Event) /\ Len(u) = n /\ v \in Seq(Event) /\ Len(v) = n BY <1>2, <1>3
  <2>2. ASSUME NEW i \in 1 .. n PROVE u[i] = v[i]
    <3>1. u[i] = lx[i] BY <1>2
    <3>2. v[i] = lg[i] BY <1>3
    <3>3. lx[i] = lg[i] BY <1>1
    <3> QED BY <3>1, <3>2, <3>3
  <2> HIDE DEF u, v
  <2>3. u = v BY <2>1, <2>2, SeqEqual
  <2> QED BY <2>3 DEF u, v
<1>5. SubSeq(lx, 1, n) = SubSeq(lg, 1, n) BY <1>4
<1> QED BY <1>5 DEF TableAt, lx

-----------------------------------------------------------------------------
(* Legs begin empty, go on by one event and stay as the topic grows.        *)

LEMMA LeadsNone ==
  ASSUME NEW lg, NEW p, NEW a \in Nat, a <= Len(lg)
  PROVE  Leads(lg, p, a, a, <<>>)
<1> DEFINE so == [o \in {a} |-> <<>>]
<1>1. so[a] = <<>> OBVIOUS
<1>2. \A o \in (a + 1) .. a : FALSE OBVIOUS
<1> HIDE DEF so
<1> QED BY <1>1, <1>2 DEF Leads

LEMMA LeadsOn ==
  ASSUME NEW lg, NEW p, NEW a, NEW b, NEW files, Leads(lg, p, a, b, files), Len(lg) \in Nat,
         b < Len(lg)
  PROVE  Leads(lg, p, a, b + 1, IF Wrote(p, lg[b + 1]) THEN Append(files, b) ELSE files)
<1>1. a \in Nat /\ b \in Nat /\ a <= b BY DEF Leads
<1>2. PICK so : Unrolls(so, lg, p, a, b) /\ so[b] = files BY DEF Leads, Unrolls
<1> DEFINE on == IF Wrote(p, lg[b + 1]) THEN Append(files, b) ELSE files
           so2 == [o \in a .. (b + 1) |-> IF o = b + 1 THEN on ELSE so[o]]
<1>3. /\ so2[b + 1] = on /\ \A o \in a .. b : so2[o] = so[o]
  <2> HIDE DEF on
  <2> QED BY <1>1
<1> HIDE DEF so2
<1>4. so2[a] = <<>> BY <1>1, <1>2, <1>3 DEF Unrolls
<1>5. ASSUME NEW o \in (a + 1) .. (b + 1)
      PROVE  so2[o] = IF Wrote(p, lg[o]) THEN Append(so2[o - 1], o - 1) ELSE so2[o - 1]
  <2>1. CASE o = b + 1
    <3>1. so2[o - 1] = files /\ o - 1 = b BY <1>1, <1>2, <1>3, <2>1
    <3> QED BY <1>3, <2>1, <3>1
  <2>2. CASE o # b + 1
    <3>1. o \in (a + 1) .. b /\ o \in a .. b /\ o - 1 \in a .. b BY <1>1, <1>5, <2>2
    <3>2. so[o] = IF Wrote(p, lg[o]) THEN Append(so[o - 1], o - 1) ELSE so[o - 1]
      BY <1>2, <3>1 DEF Unrolls
    <3> HIDE DEF on
    <3> QED BY <1>3, <3>1, <3>2
  <2> QED BY <2>1, <2>2
<1>6. b + 1 \in Nat /\ a <= b + 1 /\ b + 1 <= Len(lg) BY <1>1
<1>7. \E s : /\ s[a] = <<>> /\ s[b + 1] = on
             /\ \A o \in (a + 1) .. (b + 1) :
                   s[o] = IF Wrote(p, lg[o]) THEN Append(s[o - 1], o - 1) ELSE s[o - 1]
  <2> HIDE DEF on
  <2> QED BY <1>3, <1>4, <1>5
<1> HIDE DEF on
<1>8. Leads(lg, p, a, b + 1, on) BY <1>1, <1>6, <1>7 DEF Leads
<1> QED BY <1>8 DEF on

LEMMA LeadsGrows ==
  ASSUME NEW lg \in Seq(Event), NEW e \in Event, NEW p, NEW a, NEW b, NEW files,
         Leads(lg, p, a, b, files)
  PROVE  Leads(Append(lg, e), p, a, b, files)
<1> DEFINE lx == Append(lg, e)
<1>1. a \in Nat /\ b \in Nat /\ a <= b /\ b <= Len(lg) BY DEF Leads
<1>2. PICK so : Unrolls(so, lg, p, a, b) /\ so[b] = files BY DEF Leads, Unrolls
<1>3. Len(lx) = Len(lg) + 1 /\ Len(lg) \in Nat /\ \A i \in 1 .. Len(lg) : lx[i] = lg[i]
  BY AppendIs
<1> HIDE DEF lx
<1>4. ASSUME NEW o \in (a + 1) .. b
      PROVE  so[o] = IF Wrote(p, lx[o]) THEN Append(so[o - 1], o - 1) ELSE so[o - 1]
  <2>1. lx[o] = lg[o] BY <1>1, <1>3
  <2> QED BY <1>2, <2>1 DEF Unrolls
<1>5. so[a] = <<>> /\ so[b] = files BY <1>2 DEF Unrolls
<1>6. b <= Len(lx) BY <1>1, <1>3
<1>7. Leads(lx, p, a, b, files) BY <1>1, <1>4, <1>5, <1>6 DEF Leads
<1> QED BY <1>7 DEF lx

-----------------------------------------------------------------------------
(* The changes of the source table.                                         *)

(* The symbol that changed when state k came about. *)
Changed(k) == CHOOSE s \in Symbol : hist[k][s] # hist[k - 1][s]

LEMMA RowOfIs ==
  ASSUME NEW t \in Table, NEW s \in Symbol
  PROVE  /\ RowOf(t, s) \in Image \cup {None}
         /\ RowOf(t, s) = None <=> t[s] = None
         /\ RowOf(t, s) # None => RowOf(t, s).symbol = s /\ RowOf(t, s).value = t[s]
<1>1. t[s] \in Value \cup {None} BY DEF Table
<1>2. CASE t[s] = None BY <1>2 DEF RowOf
<1>3. CASE t[s] # None
  <2>1. RowOf(t, s) = [symbol |-> s, value |-> t[s]] BY <1>3 DEF RowOf
  <2>2. [symbol |-> s, value |-> t[s]] \in Image BY <1>1, <1>3 DEF Image
  <2> QED BY <1>3, <2>1, <2>2, NoneAssumption
<1> QED BY <1>2, <1>3

LEMMA ChangedIs ==
  ASSUME hist \in Histories, NEW k \in 2 .. Len(hist)
  PROVE  /\ hist[k] \in Table /\ hist[k - 1] \in Table /\ Changed(k) \in Symbol
         /\ hist[k][Changed(k)] # hist[k - 1][Changed(k)]
         /\ \A r \in Symbol : r # Changed(k) => hist[k][r] = hist[k - 1][r]
<1>1. hist \in Seq(Table) /\ k - 1 \in 1 .. Len(hist) - 1 /\ (k - 1) + 1 = k
  BY HistoryAssumption
<1>2. hist[k] \in Table /\ hist[k - 1] \in Table BY <1>1
<1>3. PICK s \in Symbol, v \in Value \cup {None} :
         v # hist[k - 1][s] /\ hist[k] = [hist[k - 1] EXCEPT ![s] = v]
  <2>1. \A j \in 1 .. Len(hist) - 1 : \E s \in Symbol, v \in Value \cup {None} :
           v # hist[j][s] /\ hist[j + 1] = [hist[j] EXCEPT ![s] = v]
    BY HistoryAssumption
  <2> DEFINE j == k - 1
  <2>2. j \in 1 .. Len(hist) - 1 /\ j + 1 = k BY <1>1
  <2> HIDE DEF j
  <2>3. \E s \in Symbol, v \in Value \cup {None} :
           v # hist[j][s] /\ hist[k] = [hist[j] EXCEPT ![s] = v]
    BY <2>1, <2>2
  <2> QED BY <2>3 DEF j
<1>4. hist[k][s] # hist[k - 1][s] /\ \A r \in Symbol : r # s => hist[k][r] = hist[k - 1][r]
  BY <1>2, <1>3 DEF Table
<1>5. Changed(k) \in Symbol /\ hist[k][Changed(k)] # hist[k - 1][Changed(k)]
  BY <1>4 DEF Changed
<1>6. Changed(k) = s BY <1>4, <1>5
<1> QED BY <1>2, <1>4, <1>6

LEMMA ChangeToIs ==
  ASSUME hist \in Histories, NEW k \in 2 .. Len(hist)
  PROVE  LET s == Changed(k)
             c == ChangeTo(k)
         IN  /\ c \in Event /\ c.op \in {"c", "u", "d"} /\ c.lsn = k
             /\ c.before = RowOf(hist[k - 1], s) /\ c.after = RowOf(hist[k], s)
             /\ Emits(c) /\ Parsed(c) /\ BronzeRow(c, 0).symbol = s
             /\ \A t \in Table : Upsert(t, c) = [t EXCEPT ![s] = hist[k][s]]
<1> DEFINE s == Changed(k)
           c == ChangeTo(k)
           old == RowOf(hist[k - 1], s)
           new == RowOf(hist[k], s)
<1>1. hist[k] \in Table /\ hist[k - 1] \in Table /\ s \in Symbol /\ hist[k][s] # hist[k - 1][s]
  BY ChangedIs
<1> HIDE DEF s
<1>2. /\ old \in Image \cup {None} /\ (old = None <=> hist[k - 1][s] = None)
      /\ (old # None => old.symbol = s /\ old.value = hist[k - 1][s])
  BY <1>1, RowOfIs
<1>3. /\ new \in Image \cup {None} /\ (new = None <=> hist[k][s] = None)
      /\ (new # None => new.symbol = s /\ new.value = hist[k][s])
  BY <1>1, RowOfIs
<1>4. c = [op |-> IF old = None THEN "c" ELSE IF new = None THEN "d" ELSE "u",
           before |-> IF old = None THEN None ELSE old, after |-> new, lsn |-> k]
  BY DEF ChangeTo, s, Changed, OldRow
<1> HIDE DEF c, old, new
<1>5. /\ c.op = IF old = None THEN "c" ELSE IF new = None THEN "d" ELSE "u"
      /\ c.before = old /\ c.after = new /\ c.lsn = k
  BY <1>4
<1>6. old # None \/ new # None BY <1>1, <1>2, <1>3
<1>7. c \in Event BY <1>2, <1>3, <1>4 DEF Event
<1>8. c.op \in {"c", "u", "d"} BY <1>5
<1>9. Emits(c) BY <1>5, <1>6, <1>8 DEF Emits
<1>10. Parsed(c) BY <1>5, <1>6 DEF Parsed
<1>11. BronzeRow(c, 0).symbol = s BY <1>2, <1>3, <1>5, <1>6 DEF BronzeRow
<1>12. ASSUME NEW t \in Table PROVE Upsert(t, c) = [t EXCEPT ![s] = hist[k][s]]
  <2>1. CASE c.op = "d"
    <3>1. old # None /\ new = None BY <1>5, <2>1
    <3>2. c.before.symbol = s /\ hist[k][s] = None BY <1>2, <1>3, <1>5, <3>1
    <3> QED BY <1>10, <2>1, <3>2 DEF Upsert
  <2>2. CASE c.op # "d"
    <3>1. new # None BY <1>5, <1>6, <2>2
    <3>2. c.after.symbol = s /\ c.after.value = hist[k][s] BY <1>3, <1>5, <3>1
    <3> QED BY <1>10, <2>2, <3>2 DEF Upsert
  <2> QED BY <2>1, <2>2
<1> QED BY <1>5, <1>7, <1>8, <1>9, <1>10, <1>11, <1>12 DEF c, s, old, new

(* Applied to the state before it, a change gives the state after it. *)
LEMMA ChangeApplies ==
  ASSUME hist \in Histories, NEW k \in 2 .. Len(hist)
  PROVE  Upsert(hist[k - 1], ChangeTo(k)) = hist[k]
<1> DEFINE s == Changed(k)
<1>1. /\ hist[k] \in Table /\ hist[k - 1] \in Table /\ s \in Symbol
      /\ \A r \in Symbol : r # s => hist[k][r] = hist[k - 1][r]
  BY ChangedIs
<1>2. Upsert(hist[k - 1], ChangeTo(k)) = [hist[k - 1] EXCEPT ![s] = hist[k][s]]
  BY <1>1, ChangeToIs
<1> HIDE DEF s
<1>3. [hist[k - 1] EXCEPT ![s] = hist[k][s]] = hist[k] BY <1>1 DEF Table
<1> QED BY <1>2, <1>3

(* Read rows of the snapshot and strays. *)
LEMMA ReadIs ==
  ASSUME hist \in Histories, snapAt \in 1 .. Len(hist), NEW s \in Symbol,
         hist[snapAt][s] # None
  PROVE  /\ Read(s) \in Event /\ Read(s).op = "r" /\ Read(s).lsn = snapAt
         /\ Read(s).before = None /\ Read(s).after = RowOf(hist[snapAt], s)
         /\ RowOf(hist[snapAt], s) # None /\ Read(s).after.symbol = s
         /\ Emits(Read(s)) /\ BronzeRow(Read(s), 0).symbol = s
         /\ \A t \in Table : Upsert(t, Read(s)) = [t EXCEPT ![s] = hist[snapAt][s]]
<1> DEFINE row == RowOf(hist[snapAt], s)
           e == Read(s)
<1>1. hist[snapAt] \in Table BY HistoryAssumption
<1>2. row \in Image /\ row # None /\ row.symbol = s /\ row.value = hist[snapAt][s]
  BY <1>1, RowOfIs
<1>3. e = [op |-> "r", before |-> None, after |-> row, lsn |-> snapAt] BY DEF Read
<1>4. snapAt \in Nat BY HistoryAssumption
<1> HIDE DEF row, e
<1>5. e.op = "r" /\ e.before = None /\ e.after = row /\ e.lsn = snapAt BY <1>3
<1>6. e \in Event BY <1>2, <1>3, <1>4 DEF Event
<1>7. Emits(e) /\ Parsed(e) BY <1>2, <1>5 DEF Emits, Parsed
<1>8. BronzeRow(e, 0).symbol = s BY <1>2, <1>5 DEF BronzeRow
<1>9. \A t \in Table : Upsert(t, e) = [t EXCEPT ![s] = hist[snapAt][s]]
  BY <1>2, <1>5, <1>7 DEF Upsert
<1> QED BY <1>2, <1>5, <1>6, <1>7, <1>8, <1>9 DEF e, row

LEMMA StrayIs ==
  ASSUME NEW e, IsStray(e)
  PROVE  ~ Emits(e) /\ ~ Parsed(e) /\ \A t : Upsert(t, e) = t
BY DEF IsStray, Emits, Parsed, Upsert

-----------------------------------------------------------------------------
(* What the steps of the source add to the topic.                           *)

LEMMA SnapshotRowIs ==
  ASSUME TypeOK, SourceInv, SnapshotRow
  PROVE  \E s \in snapLeft :
            /\ log' = Append(log, Read(s)) /\ Read(s) \in Event
            /\ snapLeft' = snapLeft \ {s} /\ s \in Symbol /\ hist[snapAt][s] # None
            /\ snapAt \in 1 .. Len(hist) /\ streamed = snapAt
<1>1. PICK s \in snapLeft : /\ log' = Append(log, Read(s)) /\ snapLeft' = snapLeft \ {s}
  BY DEF SnapshotRow, Read
<1>2. s \in Symbol /\ snapAt # 0 /\ streamed = snapAt /\ hist[snapAt][s] # None
  BY DEF TypeOK, SourceInv
<1>3. snapAt \in 1 .. Len(hist) /\ hist \in Histories
  <2>1. Len(hist) \in Nat /\ hist \in Histories BY DEF TypeOK, SourceInv
  <2> QED BY <1>2, <2>1 DEF TypeOK
<1>4. Read(s) \in Event BY <1>2, <1>3, ReadIs
<1> QED BY <1>1, <1>2, <1>3, <1>4

LEMMA StreamChangeIs ==
  ASSUME TypeOK, SourceInv, StreamChange
  PROVE  /\ log' = Append(log, ChangeTo(streamed + 1)) /\ ChangeTo(streamed + 1) \in Event
         /\ streamed' = streamed + 1 /\ streamed + 1 \in 2 .. Len(hist) /\ streamed + 1 <= now
         /\ snapAt # 0 /\ snapLeft = {} /\ snapAt <= streamed
<1>1. /\ log' = Append(log, ChangeTo(streamed + 1)) /\ streamed' = streamed + 1
      /\ snapAt # 0 /\ snapLeft = {} /\ streamed < now
  BY DEF StreamChange
<1>2. /\ Len(hist) \in Nat /\ hist \in Histories /\ now \in 1 .. Len(hist)
      /\ snapAt \in 0 .. now /\ streamed \in 0 .. now /\ snapAt <= streamed
  BY <1>1 DEF TypeOK, SourceInv
<1>3. streamed + 1 \in 2 .. Len(hist) /\ streamed + 1 <= now BY <1>1, <1>2
<1>4. ChangeTo(streamed + 1) \in Event BY <1>2, <1>3, ChangeToIs
<1> QED BY <1>1, <1>2, <1>3, <1>4

LEMMA StrayArrivesIs ==
  ASSUME StrayArrives
  PROVE  \E e \in Event : log' = Append(log, e) /\ IsStray(e)
<1>1. PICK op \in {"?", "null"} :
         log' = Append(log, [op |-> op, before |-> None, after |-> None, lsn |-> 0])
  BY DEF StrayArrives
<1> DEFINE e == [op |-> op, before |-> None, after |-> None, lsn |-> 0]
<1>2. e \in Event BY DEF Event
<1>3. IsStray(e) BY DEF IsStray
<1>4. log' = Append(log, e) BY <1>1
<1> HIDE DEF e
<1> QED BY <1>2, <1>3, <1>4

Aside == ChangeRow \/ Connector \/ ConnectorRewinds \/ StrayArrives

LEMMA AsideIs ==
  ASSUME TypeOK, SourceInv, Aside
  PROVE  /\ log' = log \/ \E e \in Event : log' = Append(log, e)
         /\ UNCHANGED <<hist, jobVars, pathVars, ckptVars, tableVars>>
<1>1. CASE ChangeRow \/ SnapshotBegins \/ ConnectorRewinds
  BY <1>1 DEF ChangeRow, SnapshotBegins, ConnectorRewinds
<1>2. CASE SnapshotRow
  <2>1. PICK s \in snapLeft : log' = Append(log, Read(s)) /\ Read(s) \in Event
    BY <1>2, SnapshotRowIs
  <2> QED BY <1>2, <2>1 DEF SnapshotRow
<1>3. CASE StreamChange
  <2>1. log' = Append(log, ChangeTo(streamed + 1)) /\ ChangeTo(streamed + 1) \in Event
    BY <1>3, StreamChangeIs
  <2> QED BY <1>3, <2>1 DEF StreamChange
<1>4. CASE StrayArrives
  <2>1. PICK e \in Event : log' = Append(log, e) BY <1>4, StrayArrivesIs
  <2> QED BY <1>4, <2>1 DEF StrayArrives
<1> QED BY <1>1, <1>2, <1>3, <1>4 DEF Aside, Connector

(* The topic grows at its end. *)
LEMMA LogGrows ==
  ASSUME log \in Seq(Event), NEW e \in Event, log' = Append(log, e)
  PROVE  /\ log' \in Seq(Event) /\ Len(log') = Len(log) + 1 /\ Len(log) \in Nat
         /\ log'[Len(log) + 1] = e
         /\ \A o \in 1 .. Len(log) : log'[o] = log[o]
         /\ \A o \in 1 .. Len(log') : o \in 1 .. Len(log) \/ o = Len(log) + 1
BY AppendIs

-----------------------------------------------------------------------------
(* Types.                                                                   *)

LEMMA TypeInit == CdcInit => TypeOK
<1> SUFFICES ASSUME CdcInit PROVE TypeOK
  OBVIOUS
<1> USE DEF CdcInit, Init
<1>1. log = <<>> /\ log \in Seq(Event) /\ Len(log) = 0 OBVIOUS
<1>2. hist \in Seq(Table) /\ hist # <<>> BY HistoryAssumption
<1>3. now \in 1 .. Len(hist) /\ snapAt \in 0 .. now /\ streamed \in 0 .. now /\ snapLeft \subseteq Symbol
  BY <1>2
<1>4. NoPart \in Part
  <2>1. <<>> \in Seq(Nat) OBVIOUS
  <2> QED BY <2>1 DEF NoPart, Part
<1>5. saved \in [Path -> Part] /\ ckpt \in [Path -> Part] BY <1>4
<1>6. \A p \in Path : ckpt[p].offset = 0 /\ offset[p] = 0 BY DEF NoPart
<1>7. offset \in [Path -> 0 .. Len(log)] /\ upto \in [Path -> 0 .. Len(log)]
      /\ written \in [Path -> Seq(Nat)]
  <2>1. 0 \in 0 .. Len(log) BY <1>1
  <2>2. upto = [p \in Path |-> 0] BY DEF Path
  <2>3. <<>> \in Seq(Nat) OBVIOUS
  <2> QED BY <2>1, <2>2, <2>3
<1>8. normalized \in Table BY EmptyType
<1> QED BY <1>1, <1>2, <1>3, <1>5, <1>6, <1>7, <1>8 DEF TypeOK

(* A commit moves its table by what BronzeRows and Upserted give.           *)
LEMMA CommitFilesIs ==
  ASSUME TypeOK, LegsInv, NEW p \in pending, CommitFiles(p)
  PROVE  /\ p \in Path /\ pending' = pending \ {p}
         /\ ckpt[p].offset \in Nat /\ upto[p] <= ckpt[p].offset /\ ckpt[p].offset <= Len(log)
         /\ upto' = [upto EXCEPT ![p] = ckpt[p].offset]
         /\ bronze' = IF p = "bronze" THEN bronze \o BronzeRows(upto[p], ckpt[p].offset)
                      ELSE bronze
         /\ normalized' = IF p = "normalized"
                          THEN Upserted(normalized, SubSeq(log, upto[p] + 1, ckpt[p].offset))
                          ELSE normalized
<1> DEFINE files == ckpt[p].written
           b == ckpt[p].offset
<1>1. /\ p \in Path /\ log \in Seq(Event) /\ normalized \in Table BY DEF TypeOK
<1>2. Leads(log, p, upto[p], b, files) BY DEF LegsInv
<1>3. b \in Nat /\ upto[p] <= b /\ b <= Len(log) /\ Holds(log, p, upto[p], b, files)
  BY <1>2, LeadsHolds
<1>4. /\ pending' = pending \ {p} /\ upto' = [upto EXCEPT ![p] = b]
      /\ bronze' = IF p = "bronze"
                   THEN bronze \o [i \in DOMAIN files |-> BronzeRow(Events(files)[i], files[i])]
                   ELSE bronze
      /\ normalized' = IF p = "normalized" THEN Upserted(normalized, Events(files))
                       ELSE normalized
  BY DEF CommitFiles
<1> HIDE DEF files, b
<1>5. ASSUME p = "bronze"
      PROVE  [i \in DOMAIN files |-> BronzeRow(Events(files)[i], files[i])] = BronzeRows(upto[p], b)
  <2>1. DOMAIN files = 1 .. Len(files) BY <1>3 DEF Holds
  <2>2. \A i \in 1 .. Len(files) : Events(files)[i] = log[files[i] + 1] BY <2>1 DEF Events
  <2>3. [i \in DOMAIN files |-> BronzeRow(Events(files)[i], files[i])] = RowsOf(files)
    BY <2>1, <2>2 DEF RowsOf
  <2> QED BY <1>2, <1>5, <2>3, LeadsBronzeRows
<1>6. ASSUME p = "normalized"
      PROVE  Upserted(normalized, Events(files)) = Upserted(normalized, SubSeq(log, upto[p] + 1, b))
  BY <1>1, <1>2, <1>6, LeadsUpserted
<1> QED BY <1>1, <1>3, <1>4, <1>5, <1>6 DEF b

LEMMA TypeAside ==
  ASSUME TypeOK, SourceInv, Aside
  PROVE  TypeOK'
<1>1. /\ log \in Seq(Event) /\ Len(log) \in Nat /\ hist' = hist /\ Len(hist) \in Nat
      /\ UNCHANGED <<jobVars, pathVars, ckptVars, tableVars>>
  BY AsideIs DEF TypeOK
<1>2. log' \in Seq(Event) /\ Len(log) <= Len(log') /\ Len(log') \in Nat
  <2>1. CASE log' = log BY <1>1, <2>1
  <2>2. ASSUME NEW e \in Event, log' = Append(log, e)
        PROVE  log' \in Seq(Event) /\ Len(log') = Len(log) + 1
    BY <1>1, <2>2, LogGrows
  <2> QED BY <2>1, <2>2, AsideIs
<1>3. offset' \in [Path -> 0 .. Len(log')] /\ upto' \in [Path -> 0 .. Len(log')]
  <2>1. 0 .. Len(log) \subseteq 0 .. Len(log') BY <1>1, <1>2
  <2> QED BY <1>1, <2>1 DEF pathVars, tableVars, TypeOK
<1>4. /\ now' \in 1 .. Len(hist) /\ snapAt' \in 0 .. now' /\ snapLeft' \subseteq Symbol
      /\ streamed' \in 0 .. now' /\ rewinds' \in Nat /\ strays' \in Nat
  <2>0. /\ now \in 1 .. Len(hist) /\ snapAt \in 0 .. now /\ snapLeft \subseteq Symbol
        /\ streamed \in 0 .. now /\ rewinds \in Nat /\ strays \in Nat
    BY DEF TypeOK
  <2>1. CASE ChangeRow BY <1>1, <2>0, <2>1 DEF ChangeRow
  <2>2. CASE SnapshotBegins BY <1>1, <2>0, <2>2 DEF SnapshotBegins
  <2>3. CASE SnapshotRow BY <1>1, <2>0, <2>3 DEF SnapshotRow
  <2>4. CASE StreamChange BY <1>1, <2>0, <2>4 DEF StreamChange
  <2>5. CASE ConnectorRewinds BY <1>1, <2>0, <2>5 DEF ConnectorRewinds
  <2>6. CASE StrayArrives BY <1>1, <2>0, <2>6 DEF StrayArrives
  <2> QED BY <2>1, <2>2, <2>3, <2>4, <2>5, <2>6 DEF Aside, Connector
<1> QED BY <1>1, <1>2, <1>3, <1>4 DEF TypeOK, jobVars, pathVars, ckptVars, tableVars

LEMMA TypeConsume ==
  ASSUME TypeOK, NEW p \in Path, HasRecord(p), NEW w, Consume(p, w)
  PROVE  TypeOK'
<1>1. /\ status = "running" /\ offset[p] < Len(log) /\ offset \in [Path -> 0 .. Len(log)]
      /\ Len(log) \in Nat /\ offset[p] \in Nat /\ written \in [Path -> Seq(Nat)]
  BY DEF HasRecord, TypeOK
<1>2. /\ offset' = [offset EXCEPT ![p] = @ + 1]
      /\ written' = IF w THEN [written EXCEPT ![p] = Append(@, offset[p])] ELSE written
      /\ UNCHANGED <<log, sourceVars, jobVars, ckptVars, tableVars>>
  BY DEF Consume
<1>3. offset' \in [Path -> 0 .. Len(log)] BY <1>1, <1>2
<1>4. written' \in [Path -> Seq(Nat)]
  <2>1. Append(written[p], offset[p]) \in Seq(Nat) BY <1>1
  <2> QED BY <1>1, <1>2, <2>1
<1>5. \A q \in Path : ckpt[q].offset <= offset'[q]
  <2>1. \A q \in Path : ckpt[q].offset <= offset[q] /\ ckpt[q].offset \in Nat /\ offset[q] \in Nat
    BY <1>1 DEF TypeOK, Part
  <2>2. \A q \in Path : offset[q] <= offset'[q] /\ offset'[q] \in Nat BY <1>1, <1>2, <2>1
  <2> QED BY <2>1, <2>2
<1> QED BY <1>2, <1>3, <1>4, <1>5 DEF TypeOK, sourceVars, jobVars, ckptVars, tableVars

LEMMA NoPartIs == NoPart \in Part /\ <<>> \in Seq(Nat)
<1>1. <<>> \in Seq(Nat) OBVIOUS
<1> QED BY <1>1 DEF NoPart, Part

LEMMA TypeBarrier ==
  ASSUME TypeOK, Barrier
  PROVE  TypeOK'
<1>1. PICK p \in Path \ (passed \cup pending) :
         /\ passed' = passed \cup {p}
         /\ saved' = [saved EXCEPT ![p] = [offset |-> offset[p], written |-> written[p]]]
         /\ written' = [written EXCEPT ![p] = <<>>]
  BY DEF Barrier
<1>2. UNCHANGED <<log, sourceVars, jobVars, offset, ckpt, tableVars>> BY DEF Barrier
<1>3. [offset |-> offset[p], written |-> written[p]] \in Part
  <2>1. offset[p] \in Nat /\ written[p] \in Seq(Nat) BY DEF TypeOK
  <2> QED BY <2>1 DEF Part
<1>4. saved' \in [Path -> Part] BY <1>1, <1>3 DEF TypeOK
<1>5. written' \in [Path -> Seq(Nat)] BY <1>1, NoPartIs DEF TypeOK
<1> QED BY <1>1, <1>2, <1>4, <1>5 DEF TypeOK, sourceVars, jobVars, tableVars

LEMMA TypeComplete ==
  ASSUME TypeOK, LegsInv, Complete
  PROVE  TypeOK'
<1>1. /\ passed = Path /\ passed' = {} /\ ckpt' = saved /\ saved' = [p \in Path |-> NoPart]
      /\ pending' = Path
      /\ UNCHANGED <<log, sourceVars, jobVars, pathVars, upto, bronze, normalized>>
  BY DEF Complete
<1>2. \A p \in Path : ckpt'[p].offset <= offset'[p]
  <2>1. status = "running" BY <1>1 DEF LegsInv, Path
  <2>2. \A p \in Path : Leads(log, p, saved[p].offset, offset[p], written[p])
    BY <1>1, <2>1 DEF LegsInv, Base
  <2>3. \A p \in Path : saved[p].offset <= offset[p] BY <2>2, LeadsHolds
  <2> QED BY <1>1, <2>3 DEF pathVars
<1>3. saved' \in [Path -> Part] BY <1>1, NoPartIs
<1> QED BY <1>1, <1>2, <1>3 DEF TypeOK, sourceVars, jobVars, pathVars

LEMMA TypeCommit ==
  ASSUME TypeOK, LegsInv, NEW p \in pending, CommitFiles(p),
         UNCHANGED <<log, sourceVars, jobVars, pathVars, ckptVars>>
  PROVE  TypeOK'
<1>1. /\ p \in Path /\ pending' = pending \ {p}
      /\ ckpt[p].offset \in Nat /\ upto[p] <= ckpt[p].offset /\ ckpt[p].offset <= Len(log)
      /\ upto' = [upto EXCEPT ![p] = ckpt[p].offset]
      /\ normalized' = IF p = "normalized"
                       THEN Upserted(normalized, SubSeq(log, upto[p] + 1, ckpt[p].offset))
                       ELSE normalized
  BY CommitFilesIs
<1>2. log \in Seq(Event) /\ upto[p] \in Nat /\ Len(log) \in Nat BY <1>1 DEF TypeOK
<1>3. upto' \in [Path -> 0 .. Len(log)] BY <1>1, <1>2 DEF TypeOK
<1>4. normalized' \in Table
  <2>1. SubSeq(log, upto[p] + 1, ckpt[p].offset) \in Seq(Event) BY <1>1, <1>2, SubSeqIs
  <2> QED BY <1>1, <2>1, UpsertedType DEF TypeOK
<1>5. pending' \subseteq Path BY <1>1 DEF TypeOK
<1> QED BY <1>3, <1>4, <1>5 DEF TypeOK, sourceVars, jobVars, pathVars, ckptVars

LEMMA TypeLose ==
  ASSUME TypeOK, crashes' = crashes \/ crashes' = crashes + 1, Lose
  PROVE  TypeOK'
<1>1. /\ failures' = failures + 1 /\ status' \in {"failed", "restarting"}
      /\ offset' = [p \in Path |-> 0] /\ written' = [p \in Path |-> <<>>]
      /\ passed' = {} /\ saved' = [p \in Path |-> NoPart]
      /\ UNCHANGED <<log, sourceVars, ckpt, tableVars>>
  BY DEF Lose
<1>2. offset' \in [Path -> 0 .. Len(log)]
  <2>1. Len(log) \in Nat BY DEF TypeOK
  <2> QED BY <1>1, <2>1
<1>3. written' \in [Path -> Seq(Nat)] /\ saved' \in [Path -> Part] BY <1>1, NoPartIs
<1>4. failures' \in Nat /\ crashes' \in Nat BY <1>1 DEF TypeOK
<1> QED BY <1>1, <1>2, <1>3, <1>4 DEF TypeOK, sourceVars, tableVars

LEMMA TypeRestore ==
  ASSUME TypeOK, LegsInv, Restore
  PROVE  TypeOK'
<1>1. /\ status' = "running" /\ pending = {} /\ offset' = [p \in Path |-> ckpt[p].offset]
      /\ UNCHANGED <<log, sourceVars, failures, crashes, written, ckptVars, tableVars>>
  BY DEF Restore
<1>2. \A p \in Path : upto[p] = ckpt[p].offset BY <1>1 DEF LegsInv
<1>3. offset' \in [Path -> 0 .. Len(log)] BY <1>1, <1>2 DEF TypeOK
<1>4. \A p \in Path : ckpt[p].offset <= offset'[p]
  <2>1. \A p \in Path : ckpt[p].offset \in Nat BY DEF TypeOK, Part
  <2> QED BY <1>1, <2>1
<1> QED BY <1>1, <1>3, <1>4 DEF TypeOK, sourceVars, ckptVars, tableVars

LEMMA TypeStep ==
  ASSUME TypeOK, LegsInv, SourceInv, [CdcNext]_cdcVars
  PROVE  TypeOK'
<1>1. CASE Aside BY <1>1, TypeAside
<1>2. CASE FlatMap BY <1>2, TypeConsume DEF FlatMap, Path
<1>3. CASE ReadChangelog BY <1>3, TypeConsume DEF ReadChangelog, Path
<1>4. CASE Barrier BY <1>4, TypeBarrier
<1>5. CASE Complete BY <1>5, TypeComplete
<1>6. CASE Commit BY <1>6, TypeCommit DEF Commit
<1>7. CASE RestoreCommits BY <1>7, TypeCommit DEF RestoreCommits
<1>8. CASE Crash BY <1>8, TypeLose DEF Crash
<1>9. CASE NullFails BY <1>9, TypeLose DEF NullFails
<1>10. CASE Restore BY <1>10, TypeRestore
<1>11. CASE UNCHANGED cdcVars
  BY <1>11 DEF cdcVars, sourceVars, jobVars, pathVars, ckptVars, tableVars, TypeOK
<1> QED BY <1>1, <1>2, <1>3, <1>4, <1>5, <1>6, <1>7, <1>8, <1>9, <1>10, <1>11
        DEF CdcNext, Checkpointing, Aside

-----------------------------------------------------------------------------
(* Each leg starts where the one before it ends.                            *)

LEMMA LegsInit == CdcInit => LegsInv
<1> SUFFICES ASSUME CdcInit PROVE LegsInv
  OBVIOUS
<1> USE DEF CdcInit, Init
<1>1. Len(log) = 0 /\ \A p \in Path : upto[p] = 0 BY DEF Path
<1>2. \A p \in Path : ckpt[p].offset = 0 BY DEF NoPart
<1>3. \A p \in Path : Base(p) = 0 /\ offset[p] = 0 /\ written[p] = <<>> BY <1>2 DEF Base
<1>4. \A p \in Path : Leads(log, p, 0, 0, <<>>) BY <1>1, LeadsNone
<1>5. \A p \in Path : Leads(log, p, Base(p), offset[p], written[p]) BY <1>3, <1>4
<1>6. passed = {} /\ pending = {} /\ status = "running" OBVIOUS
<1> QED BY <1>1, <1>2, <1>5, <1>6 DEF LegsInv

LEMMA LegsAside ==
  ASSUME TypeOK, SourceInv, LegsInv, Aside
  PROVE  LegsInv'
<1>1. UNCHANGED <<jobVars, pathVars, ckptVars, tableVars>> BY AsideIs
<1>2. /\ UNCHANGED <<status, offset, written, passed, saved, ckpt, upto, pending>>
  BY <1>1 DEF jobVars, pathVars, ckptVars, tableVars
<1>3. ASSUME NEW p, NEW a, NEW b, NEW files, Leads(log, p, a, b, files)
      PROVE  Leads(log', p, a, b, files)
  <2>1. CASE log' = log BY <1>3, <2>1
  <2>2. ASSUME NEW e \in Event, log' = Append(log, e) PROVE Leads(log', p, a, b, files)
    <3>1. log \in Seq(Event) BY DEF TypeOK
    <3> QED BY <1>3, <2>2, <3>1, LeadsGrows
  <2> QED BY <2>1, <2>2, AsideIs
<1>4. \A p \in Path : Base(p)' = Base(p) BY <1>2 DEF Base
<1>5. status = "running" => \A p \in Path : Leads(log', p, Base(p)', offset'[p], written'[p])
  BY <1>2, <1>3, <1>4 DEF LegsInv
<1>6. \A p \in pending : Leads(log', p, upto[p], ckpt[p].offset, ckpt[p].written)
  BY <1>3 DEF LegsInv
<1>7. \A p \in passed : Leads(log', p, ckpt[p].offset, saved[p].offset, saved[p].written)
  BY <1>3 DEF LegsInv
<1> QED BY <1>2, <1>5, <1>6, <1>7 DEF LegsInv

LEMMA LegsConsume ==
  ASSUME TypeOK, LegsInv, NEW p \in Path, HasRecord(p), Consume(p, Wrote(p, Here(p)))
  PROVE  LegsInv'
<1>1. /\ UNCHANGED <<log, status, passed, saved, ckpt, upto, pending>>
      /\ offset' = [offset EXCEPT ![p] = @ + 1]
      /\ written' = IF Wrote(p, Here(p)) THEN [written EXCEPT ![p] = Append(@, offset[p])]
                    ELSE written
  BY DEF Consume, jobVars, ckptVars, tableVars
<1>2. /\ status = "running" /\ offset[p] < Len(log) /\ Len(log) \in Nat
      /\ offset \in [Path -> 0 .. Len(log)] /\ written \in [Path -> Seq(Nat)]
  BY DEF HasRecord, TypeOK
<1>3. Leads(log, p, Base(p), offset[p], written[p]) BY <1>2 DEF LegsInv
<1>4. Leads(log, p, Base(p), offset[p] + 1,
            IF Wrote(p, log[offset[p] + 1]) THEN Append(written[p], offset[p]) ELSE written[p])
  BY <1>2, <1>3, LeadsOn
<1>5. /\ offset'[p] = offset[p] + 1
      /\ written'[p] = IF Wrote(p, log[offset[p] + 1]) THEN Append(written[p], offset[p])
                       ELSE written[p]
      /\ \A q \in Path : q # p => offset'[q] = offset[q] /\ written'[q] = written[q]
  BY <1>1, <1>2 DEF Here
<1>6. \A q \in Path : Base(q)' = Base(q) BY <1>1 DEF Base
<1>7. \A q \in Path : Leads(log, q, Base(q), offset'[q], written'[q])
  <2>1. ASSUME NEW q \in Path, q # p PROVE Leads(log, q, Base(q), offset'[q], written'[q])
    BY <1>2, <1>5, <2>1 DEF LegsInv
  <2>2. Leads(log, p, Base(p), offset'[p], written'[p]) BY <1>4, <1>5
  <2> QED BY <2>1, <2>2
<1>8. \A q \in Path : Leads(log', q, Base(q)', offset'[q], written'[q]) BY <1>1, <1>6, <1>7
<1> QED BY <1>1, <1>2, <1>8 DEF LegsInv

LEMMA LegsBarrier ==
  ASSUME TypeOK, LegsInv, Barrier
  PROVE  LegsInv'
<1>1. PICK p \in Path \ (passed \cup pending) :
         /\ passed' = passed \cup {p}
         /\ saved' = [saved EXCEPT ![p] = [offset |-> offset[p], written |-> written[p]]]
         /\ written' = [written EXCEPT ![p] = <<>>]
  BY DEF Barrier
<1>2. UNCHANGED <<log, status, offset, ckpt, upto, pending>> /\ status = "running"
  BY DEF Barrier, jobVars, tableVars
<1>3. /\ saved'[p].offset = offset[p] /\ saved'[p].written = written[p] /\ written'[p] = <<>>
      /\ \A q \in Path : q # p => saved'[q] = saved[q] /\ written'[q] = written[q]
  <2>1. saved \in [Path -> Part] /\ written \in [Path -> Seq(Nat)] BY DEF TypeOK
  <2> QED BY <1>1, <2>1
<1>4. Leads(log, p, ckpt[p].offset, offset[p], written[p])
  <2>1. Base(p) = ckpt[p].offset BY <1>1 DEF Base
  <2> QED BY <1>1, <1>2, <2>1 DEF LegsInv
<1>5. \A q \in passed' : Leads(log, q, ckpt[q].offset, saved'[q].offset, saved'[q].written)
  <2>1. ASSUME NEW q \in passed, q # p
        PROVE  Leads(log, q, ckpt[q].offset, saved'[q].offset, saved'[q].written)
    <3>1. q \in Path BY DEF TypeOK
    <3>2. saved'[q] = saved[q] BY <1>3, <2>1, <3>1
    <3> QED BY <3>2 DEF LegsInv
  <2>2. Leads(log, p, ckpt[p].offset, saved'[p].offset, saved'[p].written) BY <1>3, <1>4
  <2> QED BY <1>1, <2>1, <2>2
<1>6. \A q \in Path : Leads(log, q, Base(q)', offset[q], written'[q])
  <2>1. ASSUME NEW q \in Path, q # p PROVE Leads(log, q, Base(q)', offset[q], written'[q])
    <3>1. Base(q)' = Base(q) BY <1>1, <1>2, <1>3, <2>1 DEF Base
    <3> QED BY <1>2, <1>3, <2>1, <3>1 DEF LegsInv
  <2>2. Leads(log, p, Base(p)', offset[p], written'[p])
    <3>1. Base(p)' = offset[p] BY <1>1, <1>3 DEF Base
    <3>2. offset[p] \in Nat /\ offset[p] <= Len(log) BY <1>1 DEF TypeOK
    <3>3. Leads(log, p, offset[p], offset[p], <<>>) BY <3>2, LeadsNone
    <3> QED BY <1>3, <3>1, <3>3
  <2> QED BY <2>1, <2>2
<1>7. passed' \cap pending = {} BY <1>1 DEF LegsInv
<1>8. \A q \in Path : Leads(log', q, Base(q)', offset'[q], written'[q]) BY <1>2, <1>6
<1>9. \A q \in passed' : Leads(log', q, ckpt'[q].offset, saved'[q].offset, saved'[q].written)
  BY <1>2, <1>5
<1> QED BY <1>2, <1>7, <1>8, <1>9 DEF LegsInv

LEMMA LegsComplete ==
  ASSUME TypeOK, LegsInv, Complete
  PROVE  LegsInv'
<1>1. /\ passed = Path /\ passed' = {} /\ ckpt' = saved /\ pending' = Path
      /\ UNCHANGED <<log, status, offset, written, upto>>
  BY DEF Complete, jobVars, pathVars
<1>2. status = "running" /\ pending = {}
  BY <1>1 DEF LegsInv, Path, TypeOK
<1>3. \A p \in Path : upto[p] = ckpt[p].offset BY <1>2 DEF LegsInv
<1>4. \A p \in Path : Leads(log, p, upto[p], saved[p].offset, saved[p].written)
  BY <1>1, <1>3 DEF LegsInv
<1>5. \A p \in Path : Base(p)' = saved[p].offset /\ Base(p) = saved[p].offset
  BY <1>1 DEF Base
<1>6. \A p \in Path : Leads(log, p, Base(p)', offset[p], written[p])
  BY <1>2, <1>5 DEF LegsInv
<1>7. \A p \in pending' : Leads(log', p, upto'[p], ckpt'[p].offset, ckpt'[p].written)
  BY <1>1, <1>4
<1>8. \A p \in Path : Leads(log', p, Base(p)', offset'[p], written'[p]) BY <1>1, <1>6
<1> QED BY <1>1, <1>2, <1>7, <1>8 DEF LegsInv

LEMMA LegsCommit ==
  ASSUME TypeOK, LegsInv, NEW p \in pending, CommitFiles(p),
         UNCHANGED <<log, sourceVars, jobVars, pathVars, ckptVars>>
  PROVE  LegsInv'
<1>1. /\ UNCHANGED <<log, status, offset, written, passed, saved, ckpt>>
      /\ pending' = pending \ {p} /\ upto' = [upto EXCEPT ![p] = ckpt[p].offset] /\ p \in Path
  BY CommitFilesIs DEF jobVars, pathVars, ckptVars
<1>2. upto'[p] = ckpt[p].offset /\ \A q \in Path : q # p => upto'[q] = upto[q]
  BY <1>1 DEF TypeOK
<1>3. \A q \in Path : Base(q)' = Base(q) BY <1>1 DEF Base
<1>4. status = "running" => \A q \in Path : Leads(log', q, Base(q)', offset'[q], written'[q])
  BY <1>1, <1>3 DEF LegsInv
<1>5. \A q \in pending' : Leads(log, q, upto'[q], ckpt[q].offset, ckpt[q].written)
  BY <1>1, <1>2 DEF LegsInv, TypeOK
<1>6. \A q \in Path \ pending' : upto'[q] = ckpt[q].offset BY <1>1, <1>2 DEF LegsInv
<1> QED BY <1>1, <1>4, <1>5, <1>6 DEF LegsInv

LEMMA LegsLose ==
  ASSUME TypeOK, LegsInv, Lose
  PROVE  LegsInv'
<1>1. /\ status' \in {"failed", "restarting"} /\ written' = [p \in Path |-> <<>>]
      /\ passed' = {} /\ UNCHANGED <<log, ckpt, upto, pending>>
  BY DEF Lose, tableVars
<1> QED BY <1>1 DEF LegsInv

LEMMA LegsRestore ==
  ASSUME TypeOK, LegsInv, Restore
  PROVE  LegsInv'
<1>1. /\ status = "restarting" /\ status' = "running" /\ pending = {}
      /\ offset' = [p \in Path |-> ckpt[p].offset]
      /\ UNCHANGED <<log, written, passed, saved, ckpt, upto, pending>>
  BY DEF Restore, ckptVars, tableVars
<1>2. passed = {} /\ \A p \in Path : written[p] = <<>> BY <1>1 DEF LegsInv
<1>3. \A p \in Path : Base(p)' = ckpt[p].offset BY <1>1, <1>2 DEF Base
<1>4. \A p \in Path : ckpt[p].offset \in Nat /\ ckpt[p].offset <= Len(log)
  <2>1. \A p \in Path : upto[p] = ckpt[p].offset BY <1>1 DEF LegsInv
  <2> QED BY <2>1 DEF TypeOK
<1>5. \A p \in Path : Leads(log, p, ckpt[p].offset, ckpt[p].offset, <<>>) BY <1>4, LeadsNone
<1>6. \A p \in Path : Leads(log', p, Base(p)', offset'[p], written'[p])
  BY <1>1, <1>2, <1>3, <1>5
<1> QED BY <1>1, <1>2, <1>6 DEF LegsInv

LEMMA LegsStep ==
  ASSUME TypeOK, LegsInv, SourceInv, [CdcNext]_cdcVars
  PROVE  LegsInv'
<1>1. CASE Aside BY <1>1, LegsAside
<1>2. CASE FlatMap BY <1>2, LegsConsume DEF FlatMap, Path, Wrote
<1>3. CASE ReadChangelog BY <1>3, LegsConsume DEF ReadChangelog, Path, Wrote
<1>4. CASE Barrier BY <1>4, LegsBarrier
<1>5. CASE Complete BY <1>5, LegsComplete
<1>6. CASE Commit BY <1>6, LegsCommit DEF Commit
<1>7. CASE RestoreCommits BY <1>7, LegsCommit DEF RestoreCommits
<1>8. CASE Crash BY <1>8, LegsLose DEF Crash
<1>9. CASE NullFails BY <1>9, LegsLose DEF NullFails
<1>10. CASE Restore BY <1>10, LegsRestore
<1>11. CASE UNCHANGED cdcVars
  <2>1. UNCHANGED <<log, status, offset, written, passed, saved, ckpt, upto, pending>>
    BY <1>11 DEF cdcVars, jobVars, pathVars, ckptVars, tableVars
  <2> QED BY <2>1 DEF LegsInv, Base
<1> QED BY <1>1, <1>2, <1>3, <1>4, <1>5, <1>6, <1>7, <1>8, <1>9, <1>10, <1>11
        DEF CdcNext, Checkpointing, Aside

-----------------------------------------------------------------------------
(* Where the events come from.                                              *)

LEMMA QuietIs ==
  ASSUME [CdcNext]_cdcVars, ~ Aside
  PROVE  UNCHANGED <<log, sourceVars>>
<1>1. CASE FlatMap \/ ReadChangelog BY <1>1 DEF FlatMap, ReadChangelog, Consume
<1>2. CASE Barrier \/ Complete \/ Commit BY <1>2 DEF Barrier, Complete, Commit
<1>3. CASE Crash \/ NullFails \/ RestoreCommits \/ Restore
  BY <1>3 DEF Crash, NullFails, Lose, RestoreCommits, Restore
<1>4. CASE UNCHANGED cdcVars BY <1>4 DEF cdcVars
<1> QED BY <1>1, <1>2, <1>3, <1>4 DEF CdcNext, Checkpointing, Aside

LEMMA SourceInit == CdcInit => SourceInv /\ EventsInv
<1> SUFFICES ASSUME CdcInit PROVE SourceInv /\ EventsInv
  OBVIOUS
<1>1. Len(log) = 0 /\ hist \in Histories /\ snapAt = 0 /\ snapLeft = {} /\ streamed = 0
  BY DEF CdcInit, Init
<1> QED BY <1>1 DEF SourceInv, EventsInv

LEMMA SourceStep ==
  ASSUME TypeOK, SourceInv, [CdcNext]_cdcVars
  PROVE  SourceInv'
<1>0. /\ hist \in Histories /\ now \in 1 .. Len(hist) /\ Len(hist) \in Nat
      /\ snapAt \in 0 .. now /\ streamed \in 0 .. now
  BY DEF TypeOK, SourceInv
<1>1. CASE ChangeRow \/ StrayArrives
  <2>1. UNCHANGED <<hist, snapAt, snapLeft, streamed>> BY <1>1 DEF ChangeRow, StrayArrives
  <2> QED BY <2>1 DEF SourceInv
<1>2. CASE SnapshotBegins
  <2>1. /\ snapAt' = now /\ streamed' = now /\ hist' = hist
        /\ snapLeft' = {s \in Symbol : hist[now][s] # None}
    BY <1>2 DEF SnapshotBegins, Source
  <2> QED BY <1>0, <2>1 DEF SourceInv
<1>3. CASE SnapshotRow
  <2>1. PICK s \in snapLeft : snapLeft' = snapLeft \ {s} BY <1>3, SnapshotRowIs
  <2>2. UNCHANGED <<hist, snapAt, streamed>> BY <1>3 DEF SnapshotRow
  <2> QED BY <2>1, <2>2 DEF SourceInv
<1>4. CASE StreamChange
  <2>1. streamed' = streamed + 1 /\ snapAt # 0 /\ snapLeft = {} /\ snapAt <= streamed
    BY <1>4, StreamChangeIs
  <2>2. UNCHANGED <<hist, snapAt, snapLeft>> BY <1>4 DEF StreamChange
  <2> QED BY <1>0, <2>1, <2>2 DEF SourceInv
<1>5. CASE ConnectorRewinds
  <2>1. /\ snapAt # 0 /\ snapLeft = {} /\ streamed' \in snapAt .. streamed - 1
        /\ UNCHANGED <<hist, snapAt, snapLeft>>
    BY <1>5 DEF ConnectorRewinds
  <2> QED BY <1>0, <2>1 DEF SourceInv
<1>6. CASE ~ Aside
  <2>1. UNCHANGED <<hist, snapAt, snapLeft, streamed>> BY <1>6, QuietIs DEF sourceVars
  <2> QED BY <2>1 DEF SourceInv
<1> QED BY <1>1, <1>2, <1>3, <1>4, <1>5, <1>6 DEF Aside, Connector

LEMMA ChangeToStays == ASSUME hist' = hist, NEW k PROVE ChangeTo(k)' = ChangeTo(k)
BY DEF ChangeTo, OldRow, RowOf

LEMMA EmittedStays ==
  ASSUME TypeOK, SourceInv, Aside, NEW k, NEW n \in Nat, n <= Len(log), Emitted(k, n),
         NEW m \in Nat, n <= m
  PROVE  Emitted(k, m)'
<1>1. PICK o \in 1 .. n : log[o] = ChangeTo(k) BY DEF Emitted
<1>2. hist' = hist /\ log \in Seq(Event) BY AsideIs DEF TypeOK
<1>3. o \in 1 .. Len(log) BY <1>2
<1>4. log'[o] = log[o]
  <2>1. CASE log' = log BY <2>1
  <2>2. ASSUME NEW e \in Event, log' = Append(log, e) PROVE log'[o] = log[o]
    BY <1>2, <1>3, <2>2, LogGrows
  <2> QED BY <2>1, <2>2, AsideIs
<1>5. o \in 1 .. m /\ log'[o] = ChangeTo(k)' BY <1>1, <1>2, <1>4, ChangeToStays
<1> QED BY <1>5 DEF Emitted

(* An event that was a change is one afterwards. *)
LEMMA ChangeStays ==
  ASSUME TypeOK, SourceInv, Aside, snapAt' = snapAt, snapLeft' = snapLeft,
         NEW o \in 1 .. Len(log), IsChange(o)
  PROVE  IsChange(o)'
<1>1. hist' = hist /\ log \in Seq(Event) /\ Len(log) \in Nat BY AsideIs DEF TypeOK
<1>2. log'[o] = log[o]
  <2>1. CASE log' = log BY <2>1
  <2>2. ASSUME NEW e \in Event, log' = Append(log, e) PROVE log'[o] = log[o]
    BY <1>1, <2>2, LogGrows
  <2> QED BY <2>1, <2>2, AsideIs
<1>3. PICK k \in (snapAt + 1) .. now :
         log[o] = ChangeTo(k) /\ \A j \in (snapAt + 1) .. (k - 1) : Emitted(j, o - 1)
  BY DEF IsChange
<1>4. now' \in Nat /\ now \in Nat /\ now <= now' /\ snapAt \in Nat
  <2>0. now \in Nat /\ snapAt \in Nat BY DEF TypeOK
  <2>1. CASE ChangeRow BY <2>0, <2>1 DEF ChangeRow
  <2>2. CASE ~ ChangeRow
    <3>1. now' = now
      BY <2>2 DEF Aside, Connector, SnapshotBegins, SnapshotRow, StreamChange,
                  ConnectorRewinds, StrayArrives
    <3> QED BY <2>0, <3>1
  <2> QED BY <2>1, <2>2
<1>5. k \in (snapAt + 1) .. now' BY <1>4
<1>6. log'[o] = ChangeTo(k)' BY <1>1, <1>2, <1>3, ChangeToStays
<1>7. ASSUME NEW j \in (snapAt + 1) .. (k - 1) PROVE Emitted(j, o - 1)'
  <2>1. o - 1 \in Nat /\ o - 1 <= Len(log) /\ Emitted(j, o - 1) BY <1>1, <1>3, <1>7
  <2> QED BY <2>1, EmittedStays
<1>8. snapAt' # 0 /\ snapLeft' = {} BY DEF IsChange
<1>9. \E i \in (snapAt' + 1) .. now' :
         log'[o] = ChangeTo(i)' /\ \A j \in (snapAt' + 1) .. (i - 1) : Emitted(j, o - 1)'
  BY <1>5, <1>6, <1>7
<1> QED BY <1>8, <1>9 DEF IsChange


(* As the topic grows, by one event or none. *)
LEMMA OldStays ==
  ASSUME TypeOK, SourceInv, Aside
  PROVE  /\ Len(log) \in Nat /\ Len(log') \in Nat /\ Len(log) <= Len(log')
         /\ \A o \in 1 .. Len(log) : log'[o] = log[o]
<1>1. log \in Seq(Event) /\ Len(log) \in Nat BY DEF TypeOK
<1>2. CASE log' = log BY <1>1, <1>2
<1>3. ASSUME NEW e \in Event, log' = Append(log, e)
      PROVE  /\ Len(log') \in Nat /\ Len(log) <= Len(log')
             /\ \A o \in 1 .. Len(log) : log'[o] = log[o]
  BY <1>1, <1>3, LogGrows
<1> QED BY <1>1, <1>2, <1>3, AsideIs

LEMMA AllEmittedStays ==
  ASSUME TypeOK, SourceInv, EventsInv, Aside, snapAt # 0,
         NEW k \in (snapAt + 1) .. streamed
  PROVE  \E o \in 1 .. Len(log) : log'[o] = ChangeTo(k)' /\ o \in 1 .. Len(log')
<1>1. PICK o \in 1 .. Len(log) : log[o] = ChangeTo(k) BY DEF EventsInv
<1>2. hist' = hist BY AsideIs
<1>3. log'[o] = log[o] /\ o \in 1 .. Len(log') BY OldStays
<1>4. ChangeTo(k)' = ChangeTo(k) BY <1>2, ChangeToStays
<1> QED BY <1>1, <1>3, <1>4

(* An event stays what it is when what the snapshot has read stays. *)
LEMMA EventStays ==
  ASSUME TypeOK, SourceInv, EventsInv, Aside, snapAt' = snapAt, snapLeft' = snapLeft,
         NEW o \in 1 .. Len(log)
  PROVE  IsStray(log'[o]) \/ IsRead(o)' \/ IsChange(o)'
<1>1. hist' = hist BY AsideIs
<1>2. log'[o] = log[o] BY OldStays
<1>3. CASE IsStray(log[o]) BY <1>2, <1>3
<1>4. CASE IsRead(o) BY <1>1, <1>2, <1>4 DEF IsRead, Read, RowOf
<1>5. CASE IsChange(o) BY <1>5, ChangeStays
<1> QED BY <1>3, <1>4, <1>5 DEF EventsInv

LEMMA EventsRow ==
  ASSUME TypeOK, SourceInv, EventsInv, SnapshotRow
  PROVE  EventsInv'
<1>1. PICK s \in snapLeft : /\ log' = Append(log, Read(s)) /\ Read(s) \in Event
                            /\ snapLeft' = snapLeft \ {s} /\ s \in Symbol
                            /\ hist[snapAt][s] # None
                            /\ snapAt \in 1 .. Len(hist) /\ streamed = snapAt
  BY SnapshotRowIs
<1>2. UNCHANGED <<hist, snapAt, streamed>> BY DEF SnapshotRow
<1>3. /\ Len(log') = Len(log) + 1 /\ Len(log) \in Nat /\ log'[Len(log) + 1] = Read(s)
      /\ \A o \in 1 .. Len(log) : log'[o] = log[o]
      /\ \A o \in 1 .. Len(log') : o \in 1 .. Len(log) \/ o = Len(log) + 1
  BY <1>1, LogGrows DEF TypeOK
<1>4. \A x \in Symbol : Read(x)' = Read(x) BY <1>2 DEF Read, RowOf
<1>5. snapAt' # 0 /\ s \in Symbol \ snapLeft' /\ hist'[snapAt'][s] # None BY <1>1, <1>2
<1>6. ASSUME NEW o \in 1 .. Len(log') PROVE IsStray(log'[o]) \/ IsRead(o)'
  <2>1. CASE o = Len(log) + 1
    <3>1. log'[o] = Read(s)' BY <1>1, <1>3, <1>4, <2>1
    <3> QED BY <1>5, <3>1 DEF IsRead
  <2>2. CASE o \in 1 .. Len(log)
    <3>1. ~ IsChange(o) BY <1>1 DEF IsChange
    <3>2. CASE IsStray(log[o]) BY <1>3, <2>2, <3>2
    <3>3. CASE IsRead(o)
      <4>1. PICK x \in Symbol \ snapLeft : hist[snapAt][x] # None /\ log[o] = Read(x)
        BY <3>3 DEF IsRead
      <4>2. log'[o] = Read(x)' BY <1>3, <1>4, <2>2, <4>1
      <4>3. x \in Symbol \ snapLeft' /\ hist'[snapAt'][x] # None BY <1>1, <1>2, <4>1
      <4> QED BY <1>5, <4>2, <4>3 DEF IsRead
    <3> QED BY <2>2, <3>1, <3>2, <3>3 DEF EventsInv
  <2> QED BY <1>3, <2>1, <2>2
<1>7. \A k \in (snapAt' + 1) .. streamed' : FALSE
  <2>1. snapAt \in Nat BY <1>1
  <2> QED BY <1>1, <1>2, <2>1
<1> QED BY <1>6, <1>7 DEF EventsInv

LEMMA EventsStream ==
  ASSUME TypeOK, SourceInv, EventsInv, StreamChange
  PROVE  EventsInv'
<1> DEFINE n == Len(log)
           top == streamed + 1
           c == ChangeTo(top)
<1>1. /\ log' = Append(log, c) /\ c \in Event /\ streamed' = top
      /\ top \in 2 .. Len(hist) /\ top <= now
      /\ snapAt # 0 /\ snapLeft = {} /\ snapAt <= streamed
  BY StreamChangeIs
<1>2. UNCHANGED <<hist, snapAt, snapLeft, now>> /\ Aside
  BY DEF StreamChange, Aside, Connector
<1>3. \A k : ChangeTo(k)' = ChangeTo(k) BY <1>2, ChangeToStays
<1>4. snapAt \in Nat /\ streamed \in Nat /\ now \in Nat /\ log \in Seq(Event) BY DEF TypeOK
<1> HIDE DEF c
<1>5. /\ Len(log') = n + 1 /\ n \in Nat /\ log'[n + 1] = c
      /\ \A o \in 1 .. n : log'[o] = log[o]
      /\ \A o \in 1 .. n + 1 : o \in 1 .. n \/ o = n + 1
  BY <1>1, <1>4, LogGrows
<1> HIDE DEF n
<1>6. ASSUME NEW k \in (snapAt + 1) .. streamed
      PROVE  \E o \in 1 .. n : log'[o] = ChangeTo(k)'
  BY <1>1, <1>2, <1>6, AllEmittedStays DEF n
<1>7. ASSUME NEW i, i = n + 1 PROVE IsChange(i)'
  <2>1. log'[i] = ChangeTo(top)
    <3>1. log'[i] = c BY <1>5, <1>7
    <3> QED BY <3>1 DEF c
  <2>2. ASSUME NEW k, k = top PROVE IsChange(i)'
    <3>1. log'[i] = ChangeTo(k)' BY <1>3, <2>1, <2>2
    <3>2. k \in (snapAt' + 1) .. now' BY <1>1, <1>2, <1>4, <2>2
    <3>3. \A j \in (snapAt' + 1) .. (k - 1) : Emitted(j, i - 1)'
      <4>1. ASSUME NEW j \in (snapAt + 1) .. streamed PROVE Emitted(j, i - 1)'
        <5>1. i - 1 = n BY <1>5, <1>7
        <5>2. \E o \in 1 .. (i - 1) : log'[o] = ChangeTo(j)' BY <1>6, <5>1
        <5> QED BY <5>2 DEF Emitted
      <4>2. k - 1 = streamed BY <1>4, <2>2
      <4> QED BY <1>2, <4>1, <4>2
    <3>4. snapAt' # 0 /\ snapLeft' = {} BY <1>1, <1>2
    <3> QED BY <3>1, <3>2, <3>3, <3>4 DEF IsChange
  <2> HIDE DEF top
  <2> QED BY <2>2
<1>8. \A o \in 1 .. Len(log') : IsStray(log'[o]) \/ IsRead(o)' \/ IsChange(o)'
  <2>1. ASSUME NEW o \in 1 .. n PROVE IsStray(log'[o]) \/ IsRead(o)' \/ IsChange(o)'
    BY <1>2, <2>1, EventStays DEF n
  <2> QED BY <1>5, <1>7, <2>1
<1>9. \A k \in (snapAt' + 1) .. streamed' : \E o \in 1 .. Len(log') : log'[o] = ChangeTo(k)'
  <2>1. ASSUME NEW k \in (snapAt + 1) .. top PROVE \E o \in 1 .. n + 1 : log'[o] = ChangeTo(k)'
    <3>1. CASE k = top
      <4>1. log'[n + 1] = ChangeTo(k)
        <5>1. ChangeTo(top) = ChangeTo(k) BY <3>1
        <5> QED BY <1>5, <5>1 DEF c
      <4>2. log'[n + 1] = ChangeTo(k)' BY <1>3, <4>1
      <4>3. n + 1 \in 1 .. n + 1 BY <1>5
      <4> QED BY <4>2, <4>3
    <3>2. CASE k # top
      <4>1. k \in (snapAt + 1) .. streamed BY <1>4, <2>1, <3>2
      <4>2. PICK o \in 1 .. n : log'[o] = ChangeTo(k)' BY <1>6, <4>1
      <4>3. o \in 1 .. n + 1 BY <1>5
      <4> QED BY <4>2, <4>3
    <3> QED BY <3>1, <3>2
  <2> QED BY <1>1, <1>2, <1>5, <2>1
<1> QED BY <1>8, <1>9 DEF EventsInv

LEMMA EventsStep ==
  ASSUME TypeOK, SourceInv, EventsInv, [CdcNext]_cdcVars
  PROVE  EventsInv'
<1>0. /\ hist \in Histories /\ now \in 1 .. Len(hist) /\ Len(hist) \in Nat
      /\ snapAt \in 0 .. now /\ streamed \in 0 .. now /\ log \in Seq(Event) /\ Len(log) \in Nat
  BY DEF TypeOK, SourceInv
<1>1. CASE ChangeRow \/ ConnectorRewinds \/ StrayArrives
  <2>1. UNCHANGED <<snapAt, snapLeft>> /\ streamed' \in Nat /\ streamed' <= streamed /\ Aside
    BY <1>0, <1>1 DEF ChangeRow, ConnectorRewinds, StrayArrives, Aside
  <2>2. ASSUME NEW o \in 1 .. Len(log) PROVE IsStray(log'[o]) \/ IsRead(o)' \/ IsChange(o)'
    BY <2>1, <2>2, EventStays
  <2>3. \A o \in 1 .. Len(log') : IsStray(log'[o]) \/ IsRead(o)' \/ IsChange(o)'
    <3>1. CASE StrayArrives
      <4>1. PICK e \in Event : log' = Append(log, e) /\ IsStray(e) BY <3>1, StrayArrivesIs
      <4>2. \A o \in 1 .. Len(log') : o \in 1 .. Len(log) \/ IsStray(log'[o])
        BY <1>0, <4>1, LogGrows
      <4> QED BY <2>2, <4>2
    <3>2. CASE ~ StrayArrives
      <4>1. log' = log BY <1>1, <3>2 DEF ChangeRow, ConnectorRewinds
      <4> QED BY <2>2, <4>1
    <3> QED BY <3>1, <3>2
  <2>4. snapAt' # 0 => \A k \in (snapAt' + 1) .. streamed' :
                          \E o \in 1 .. Len(log') : log'[o] = ChangeTo(k)'
    <3>1. ASSUME snapAt # 0, NEW k \in (snapAt + 1) .. streamed'
          PROVE  \E o \in 1 .. Len(log') : log'[o] = ChangeTo(k)'
      <4>1. k \in (snapAt + 1) .. streamed BY <1>0, <2>1, <3>1
      <4> QED BY <2>1, <3>1, <4>1, AllEmittedStays
    <3> QED BY <2>1, <3>1
  <2> QED BY <2>3, <2>4 DEF EventsInv
<1>2. CASE SnapshotBegins
  <2>1. snapAt = 0 /\ snapAt' = now /\ streamed' = now /\ log' = log
    BY <1>2 DEF SnapshotBegins
  <2>2. \A o \in 1 .. Len(log) : IsStray(log[o]) BY <2>1 DEF EventsInv, IsChange, IsRead
  <2>3. \A k \in (snapAt' + 1) .. streamed' : FALSE BY <1>0, <2>1
  <2> QED BY <2>1, <2>2, <2>3 DEF EventsInv
<1>3. CASE SnapshotRow BY <1>3, EventsRow
<1>4. CASE StreamChange BY <1>4, EventsStream
<1>5. CASE ~ Aside
  <2>1. UNCHANGED <<log, hist, now, snapAt, snapLeft, streamed>>
    BY <1>5, QuietIs DEF sourceVars
  <2>2. \A k : ChangeTo(k)' = ChangeTo(k) BY <2>1, ChangeToStays
  <2>3. \A x : Read(x)' = Read(x) BY <2>1 DEF Read, RowOf
  <2> QED BY <2>1, <2>2, <2>3 DEF EventsInv, IsRead, IsChange, Emitted
<1> QED BY <1>1, <1>2, <1>3, <1>4, <1>5 DEF Aside, Connector

-----------------------------------------------------------------------------
(* What the topic shows of the source table.                                *)

LEMMA StateIs ==
  ASSUME TypeOK, SourceInv
  PROVE  /\ hist \in Histories /\ Len(hist) \in Nat /\ now \in 1 .. Len(hist)
         /\ snapAt \in 0 .. now /\ streamed \in 0 .. now /\ snapLeft \subseteq Symbol
         /\ log \in Seq(Event) /\ Len(log) \in Nat
         /\ \A k \in 1 .. Len(hist) : hist[k] \in Table
         /\ snapAt # 0 => \A k \in (snapAt + 1) .. now : k \in 2 .. Len(hist)
BY DEF TypeOK, SourceInv

LEMMA ReadsAre ==
  ASSUME TypeOK, SourceInv, EventsInv, NEW o \in 1 .. Len(log), log[o].op = "r"
  PROVE  log[o].after.symbol \in Symbol \ snapLeft
<1>1. CASE IsStray(log[o]) BY <1>1 DEF IsStray
<1>2. CASE IsRead(o)
  <2>1. PICK s \in Symbol \ snapLeft : hist[snapAt][s] # None /\ log[o] = Read(s) /\ snapAt # 0
    BY <1>2 DEF IsRead
  <2>2. hist \in Histories /\ snapAt \in 1 .. Len(hist) BY <2>1, StateIs
  <2>3. Read(s).after.symbol = s BY <2>1, <2>2, ReadIs
  <2> QED BY <2>1, <2>3
<1>3. CASE IsChange(o)
  <2>1. PICK k \in (snapAt + 1) .. now : log[o] = ChangeTo(k) /\ snapAt # 0
    BY <1>3 DEF IsChange
  <2>2. hist \in Histories /\ k \in 2 .. Len(hist) BY <2>1, StateIs
  <2>3. ChangeTo(k).op \in {"c", "u", "d"} BY <2>2, ChangeToIs
  <2> QED BY <2>1, <2>3
<1> QED BY <1>1, <1>2, <1>3 DEF EventsInv

(* The new event of a step, and what it makes of the table. *)
LEMMA TableAtStep ==
  ASSUME TypeOK, SourceInv, NEW e \in Event, log' = Append(log, e)
  PROVE  /\ \A n \in 0 .. Len(log) : TableAt(log', n) = TableAt(log, n)
         /\ TableAt(log', Len(log')) = Upsert(TableAt(log, Len(log)), e)
         /\ TableAt(log, Len(log)) \in Table
         /\ \A n \in 0 .. Len(log') : n \in 0 .. Len(log) \/ n = Len(log')
<1>1. log \in Seq(Event) /\ Len(log) \in Nat BY StateIs
<1>2. log' \in Seq(Event) /\ Len(log') = Len(log) + 1 /\ log'[Len(log) + 1] = e
  BY <1>1, LogGrows
<1>3. \A n \in 0 .. Len(log) : TableAt(log', n) = TableAt(log, n) BY <1>1, TableAtGrows
<1>4. TableAt(log', Len(log')) = Upsert(TableAt(log', Len(log') - 1), log'[Len(log')])
  <2>1. Len(log') \in Nat /\ 0 < Len(log') /\ Len(log') <= Len(log') BY <1>1, <1>2
  <2> QED BY <1>2, <2>1, TableAtNext
<1>5. Len(log') - 1 = Len(log) /\ Len(log) \in 0 .. Len(log) BY <1>1, <1>2
<1>6. TableAt(log, Len(log)) \in Table BY <1>1, TableAtType
<1>7. \A n \in 0 .. Len(log') : n \in 0 .. Len(log) \/ n = Len(log') BY <1>1, <1>2
<1>8. TableAt(log', Len(log')) = Upsert(TableAt(log, Len(log)), e)
  BY <1>2, <1>3, <1>4, <1>5
<1> QED BY <1>3, <1>6, <1>7, <1>8

LEMMA SnapshotInWas ==
  ASSUME TypeOK, SourceInv, Aside, snapAt' = snapAt, NEW n \in 0 .. Len(log), SnapshotIn(n)'
  PROVE  SnapshotIn(n)
<1>1. hist' = hist /\ snapAt # 0 BY AsideIs DEF SnapshotIn
<1>2. \A o \in 1 .. n : log'[o] = log[o] BY OldStays
<1>3. ASSUME NEW s \in Symbol, hist[snapAt][s] # None
      PROVE  \E o \in 1 .. n : log[o].op = "r" /\ log[o].after.symbol = s
  <2>1. PICK o \in 1 .. n : log'[o].op = "r" /\ log'[o].after.symbol = s
    BY <1>1, <1>3 DEF SnapshotIn
  <2> QED BY <1>2, <2>1
<1> QED BY <1>1, <1>3 DEF SnapshotIn

(* Earlier prefixes show what they showed. *)
LEMMA ShowsStays ==
  ASSUME TypeOK, SourceInv, Aside, snapAt' = snapAt, streamed \in Nat, streamed' \in Nat,
         streamed <= streamed', NEW n \in 0 .. Len(log), Shows(n)
  PROVE  Shows(n)'
<1>1. hist' = hist BY AsideIs
<1>2. TableAt(log', n) = TableAt(log, n)
  <2>1. CASE log' = log BY <2>1
  <2>2. ASSUME NEW e \in Event, log' = Append(log, e) PROVE TableAt(log', n) = TableAt(log, n)
    BY <2>2, TableAtStep
  <2> QED BY <2>1, <2>2, AsideIs
<1>3. ASSUME SnapshotIn(n)' PROVE \E k \in snapAt' .. streamed' : TableAt(log', n) = hist'[k]
  <2>1. SnapshotIn(n) BY <1>3, SnapshotInWas
  <2>2. PICK k \in snapAt .. streamed : TableAt(log, n) = hist[k] BY <2>1 DEF Shows
  <2>3. k \in snapAt' .. streamed'
    <3>1. snapAt \in Nat BY StateIs
    <3> QED BY <2>2, <3>1
  <2> QED BY <1>1, <1>2, <2>2, <2>3
<1> QED BY <1>3 DEF Shows

LEMMA TopicInit == CdcInit => TopicInv
<1> SUFFICES ASSUME CdcInit PROVE TopicInv
  OBVIOUS
<1>1. log = <<>> /\ snapAt = 0 /\ snapLeft = {} BY DEF CdcInit, Init
<1>2. 0 .. Len(log) = {0} /\ Len(log) = 0 BY <1>1
<1>3. TableAt(log, 0) = Empty BY TableAtNone
<1>4. Told = Empty BY <1>1 DEF Told, Empty
<1>5. Shows(0) BY <1>1 DEF Shows, SnapshotIn
<1> QED BY <1>1, <1>2, <1>3, <1>4, <1>5 DEF TopicInv

LEMMA TopicBegins ==
  ASSUME TypeOK, SourceInv, EventsInv, TopicInv, SnapshotBegins
  PROVE  TopicInv'
<1>1. /\ snapAt = 0 /\ snapAt' = now /\ streamed' = now /\ UNCHANGED <<log, hist, now>>
      /\ snapLeft' = {s \in Symbol : hist[now][s] # None}
  BY DEF SnapshotBegins, Source
<1>2. now \in 1 .. Len(hist) /\ hist[now] \in Table /\ Len(log) \in Nat BY StateIs
<1>3. \A n \in 0 .. Len(log) : TableAt(log, n) = Empty BY <1>1 DEF TopicInv
<1>4. TableAt(log', Len(log')) = Told'
  <2>1. Told' = [s \in Symbol |-> IF s \in snapLeft' THEN None ELSE hist[now][s]]
    BY <1>1, <1>2 DEF Told
  <2>2. \A s \in Symbol : (IF s \in snapLeft' THEN None ELSE hist[now][s]) = None BY <1>1
  <2>3. Told' = Empty BY <2>1, <2>2 DEF Empty
  <2>4. Len(log) \in 0 .. Len(log) BY <1>2
  <2> QED BY <1>1, <1>3, <2>3, <2>4
<1>5. ASSUME NEW n \in 0 .. Len(log) PROVE Shows(n)'
  <2>1. ASSUME SnapshotIn(n)' PROVE \E k \in snapAt' .. streamed' : TableAt(log', n) = hist'[k]
    <3>1. \A o \in 1 .. n : log[o].op # "r"
      <4>1. \A o \in 1 .. Len(log) : IsStray(log[o]) BY <1>1 DEF EventsInv, IsRead, IsChange
      <4> QED BY <1>2, <4>1 DEF IsStray
    <3>2. \A s \in Symbol : hist[now][s] = None BY <1>1, <2>1, <3>1 DEF SnapshotIn
    <3>3. hist[now] = Empty BY <1>2, <3>2 DEF Table, Empty
    <3>4. TableAt(log', n) = hist'[now] /\ now \in snapAt' .. streamed' BY <1>1, <1>2, <1>3, <3>3
    <3> QED BY <3>4
  <2> QED BY <2>1 DEF Shows
<1>6. snapAt' # 0 BY <1>1, <1>2
<1> QED BY <1>1, <1>4, <1>5, <1>6 DEF TopicInv

LEMMA TopicRow ==
  ASSUME TypeOK, SourceInv, EventsInv, TopicInv, SnapshotRow
  PROVE  TopicInv'
<1>1. PICK s \in snapLeft : /\ log' = Append(log, Read(s)) /\ Read(s) \in Event
                            /\ snapLeft' = snapLeft \ {s} /\ s \in Symbol
                            /\ hist[snapAt][s] # None
                            /\ snapAt \in 1 .. Len(hist) /\ streamed = snapAt
  BY SnapshotRowIs
<1>2. UNCHANGED <<hist, snapAt, streamed, rewinds>> /\ Aside
  BY DEF SnapshotRow, Aside, Connector
<1>3. snapAt # 0 /\ snapAt \in Nat /\ hist[snapAt] \in Table /\ hist \in Histories
  BY <1>1, StateIs
<1>4. /\ TableAt(log', Len(log')) = Upsert(TableAt(log, Len(log)), Read(s))
      /\ TableAt(log, Len(log)) \in Table
      /\ \A n \in 0 .. Len(log') : n \in 0 .. Len(log) \/ n = Len(log')
  BY <1>1, TableAtStep
<1>5. ASSUME rewinds = 0 PROVE TableAt(log', Len(log')) = Told'
  <2>1. TableAt(log, Len(log)) = Told BY <1>5 DEF TopicInv
  <2>2. \A t \in Table : Upsert(t, Read(s)) = [t EXCEPT ![s] = hist[snapAt][s]]
    BY <1>1, <1>3, ReadIs
  <2>3. TableAt(log', Len(log')) = [Told EXCEPT ![s] = hist[snapAt][s]] BY <1>4, <2>1, <2>2
  <2>4. Told' = [Told EXCEPT ![s] = hist[snapAt][s]] BY <1>1, <1>2, <1>3 DEF Told
  <2> QED BY <2>3, <2>4
<1>6. \A o \in 1 .. Len(log') : log'[o].op = "r" => log'[o].after.symbol \notin snapLeft'
  <2>1. /\ \A o \in 1 .. Len(log) : log'[o] = log[o]
        /\ \A o \in 1 .. Len(log') : o \in 1 .. Len(log) \/ o = Len(log) + 1
        /\ log'[Len(log) + 1] = Read(s)
    BY <1>1, LogGrows, StateIs
  <2>2. Read(s).after.symbol = s BY <1>1, <1>3, ReadIs
  <2>3. \A o \in 1 .. Len(log) : log[o].op = "r" => log[o].after.symbol \notin snapLeft
    BY ReadsAre
  <2> QED BY <1>1, <2>1, <2>2, <2>3
<1>7. ASSUME rewinds = 0, NEW n, n = Len(log') PROVE Shows(n)'
  <2>1. ASSUME SnapshotIn(n)' PROVE \E k \in snapAt' .. streamed' : TableAt(log', n) = hist'[k]
    <3>1. snapLeft' = {}
      <4>1. ASSUME NEW x \in snapLeft' PROVE FALSE
        <5>1. x \in Symbol /\ hist[snapAt][x] # None BY <1>1, <1>3, <4>1 DEF SourceInv, TypeOK
        <5>2. PICK o \in 1 .. n : log'[o].op = "r" /\ log'[o].after.symbol = x
          BY <1>2, <2>1, <5>1 DEF SnapshotIn
        <5> QED BY <1>6, <1>7, <4>1, <5>2
      <4> QED BY <4>1
    <3>2. Told' = hist[streamed] BY <1>1, <1>2, <1>3, <3>1 DEF Told, Table
    <3>3. TableAt(log', n) = hist'[streamed] BY <1>2, <1>5, <1>7, <3>2
    <3>4. streamed \in snapAt' .. streamed' BY <1>1, <1>2, <1>3
    <3> QED BY <3>3, <3>4
  <2> QED BY <2>1 DEF Shows
<1>8. ASSUME rewinds = 0, NEW n \in 0 .. Len(log) PROVE Shows(n)'
  <2>1. Shows(n) /\ streamed \in Nat /\ streamed' \in Nat /\ streamed <= streamed'
    BY <1>1, <1>2, <1>3, <1>8 DEF TopicInv
  <2> QED BY <1>2, <2>1, ShowsStays
<1>9. rewinds' = 0 => \A n \in 0 .. Len(log') : Shows(n)' BY <1>2, <1>4, <1>7, <1>8
<1> QED BY <1>2, <1>3, <1>5, <1>9 DEF TopicInv

LEMMA TopicStream ==
  ASSUME TypeOK, SourceInv, EventsInv, TopicInv, StreamChange
  PROVE  TopicInv'
<1> DEFINE top == streamed + 1
           c == ChangeTo(top)
<1>1. /\ log' = Append(log, c) /\ c \in Event /\ streamed' = top
      /\ top \in 2 .. Len(hist) /\ top <= now
      /\ snapAt # 0 /\ snapLeft = {} /\ snapAt <= streamed
  BY StreamChangeIs
<1>2. UNCHANGED <<hist, snapAt, snapLeft, now, rewinds>> /\ Aside
  BY DEF StreamChange, Aside, Connector
<1>3. /\ snapAt \in Nat /\ streamed \in Nat /\ hist \in Histories /\ streamed \in 1 .. Len(hist)
      /\ \A k \in 1 .. Len(hist) : hist[k] \in Table
  BY <1>1, StateIs
<1>4. Upsert(hist[streamed], c) = hist[top]
  <2>1. Upsert(hist[top - 1], c) = hist[top] BY <1>1, <1>3, ChangeApplies
  <2>2. top - 1 = streamed BY <1>3
  <2> QED BY <2>1, <2>2
<1> HIDE DEF c
<1>5. /\ TableAt(log', Len(log')) = Upsert(TableAt(log, Len(log)), c)
      /\ \A n \in 0 .. Len(log') : n \in 0 .. Len(log) \/ n = Len(log')
  BY <1>1, TableAtStep
<1>6. ASSUME rewinds = 0 PROVE TableAt(log', Len(log')) = hist[top]
  <2>1. TableAt(log, Len(log)) = Told BY <1>6 DEF TopicInv
  <2>2. Told = hist[streamed] BY <1>1, <1>3 DEF Told, Table
  <2> QED BY <1>4, <1>5, <2>1, <2>2
<1>7. Told' = hist[top]
  <2>1. top \in 1 .. Len(hist) BY <1>1
  <2>2. hist[top] \in Table BY <1>3, <2>1
  <2> HIDE DEF top
  <2> QED BY <1>1, <1>2, <2>2 DEF Told, Table
<1>8. ASSUME rewinds = 0, NEW n, n = Len(log') PROVE Shows(n)'
  <2>1. TableAt(log', n) = hist'[top] BY <1>2, <1>6, <1>8
  <2>2. top \in snapAt' .. streamed' BY <1>1, <1>2, <1>3
  <2> HIDE DEF top
  <2> QED BY <2>1, <2>2 DEF Shows
<1>9. ASSUME rewinds = 0, NEW n \in 0 .. Len(log) PROVE Shows(n)'
  <2>1. Shows(n) /\ streamed \in Nat /\ streamed' \in Nat /\ streamed <= streamed'
    BY <1>1, <1>3, <1>9 DEF TopicInv
  <2> QED BY <1>2, <2>1, ShowsStays
<1>10. rewinds' = 0 => \A n \in 0 .. Len(log') : Shows(n)' BY <1>2, <1>5, <1>8, <1>9
<1>11. rewinds' = 0 => TableAt(log', Len(log')) = Told' BY <1>2, <1>6, <1>7
<1> QED BY <1>1, <1>2, <1>10, <1>11 DEF TopicInv

LEMMA TopicStray ==
  ASSUME TypeOK, SourceInv, EventsInv, TopicInv, StrayArrives
  PROVE  TopicInv'
<1>1. PICK e \in Event : log' = Append(log, e) /\ IsStray(e) BY StrayArrivesIs
<1>2. UNCHANGED <<hist, snapAt, snapLeft, streamed, rewinds>> /\ Aside
  BY DEF StrayArrives, Aside
<1>3. /\ TableAt(log', Len(log')) = Upsert(TableAt(log, Len(log)), e)
      /\ \A n \in 0 .. Len(log) : TableAt(log', n) = TableAt(log, n)
      /\ \A n \in 0 .. Len(log') : n \in 0 .. Len(log) \/ n = Len(log')
  BY <1>1, TableAtStep
<1>4. TableAt(log', Len(log')) = TableAt(log, Len(log)) BY <1>1, <1>3, StrayIs
<1>5. Len(log) \in 0 .. Len(log) /\ Len(log) \in Nat BY StateIs
<1>6. snapAt' = 0 => \A n \in 0 .. Len(log') : TableAt(log', n) = Empty
  <2>1. ASSUME snapAt = 0, NEW n \in 0 .. Len(log') PROVE TableAt(log', n) = Empty
    <3>1. CASE n \in 0 .. Len(log) BY <1>3, <2>1, <3>1 DEF TopicInv
    <3>2. CASE n = Len(log') BY <1>4, <1>5, <2>1, <3>2 DEF TopicInv
    <3> QED BY <1>3, <3>1, <3>2
  <2> QED BY <1>2, <2>1
<1>7. Told' = Told BY <1>2 DEF Told
<1>8. ASSUME rewinds = 0, NEW n \in 0 .. Len(log) PROVE Shows(n)'
  <2>1. Shows(n) /\ streamed \in Nat /\ streamed' \in Nat /\ streamed <= streamed'
    BY <1>2, <1>8, StateIs DEF TopicInv
  <2> QED BY <1>2, <2>1, ShowsStays
<1>9. ASSUME rewinds = 0, NEW n, n = Len(log') PROVE Shows(n)'
  <2>1. ASSUME SnapshotIn(n)' PROVE \E k \in snapAt' .. streamed' : TableAt(log', n) = hist'[k]
    <3>1. /\ \A o \in 1 .. Len(log) : log'[o] = log[o]
          /\ \A o \in 1 .. Len(log') : o \in 1 .. Len(log) \/ o = Len(log) + 1
          /\ log'[Len(log) + 1].op # "r"
      BY <1>1, LogGrows, StateIs DEF IsStray
    <3>2. \A o \in 1 .. n : log'[o].op = "r" => o \in 1 .. Len(log) /\ log'[o] = log[o]
      BY <1>9, <3>1
    <3>3. snapAt # 0 BY <1>2, <2>1 DEF SnapshotIn
    <3>4. ASSUME NEW s \in Symbol, hist[snapAt][s] # None
          PROVE  \E o \in 1 .. Len(log) : log[o].op = "r" /\ log[o].after.symbol = s
      <4>1. PICK o \in 1 .. n : log'[o].op = "r" /\ log'[o].after.symbol = s
        BY <1>2, <2>1, <3>4 DEF SnapshotIn
      <4> QED BY <3>2, <4>1
    <3>5. SnapshotIn(Len(log)) BY <3>3, <3>4 DEF SnapshotIn
    <3>6. \E k \in snapAt .. streamed : TableAt(log, Len(log)) = hist[k]
      BY <1>5, <1>9, <3>5 DEF TopicInv, Shows
    <3> QED BY <1>2, <1>4, <1>9, <3>6
  <2> QED BY <2>1 DEF Shows
<1>10. rewinds' = 0 => \A n \in 0 .. Len(log') : Shows(n)' BY <1>2, <1>3, <1>8, <1>9
<1>11. rewinds' = 0 => TableAt(log', Len(log')) = Told' BY <1>2, <1>4, <1>7 DEF TopicInv
<1> QED BY <1>6, <1>10, <1>11 DEF TopicInv

LEMMA TopicStep ==
  ASSUME TypeOK, SourceInv, EventsInv, TopicInv, [CdcNext]_cdcVars
  PROVE  TopicInv'
<1>1. CASE ChangeRow \/ ~ Aside
  <2>1. UNCHANGED <<log, hist, snapAt, snapLeft, streamed, rewinds>>
    BY <1>1, QuietIs DEF ChangeRow, sourceVars
  <2> QED BY <2>1 DEF TopicInv, Shows, SnapshotIn, Told
<1>2. CASE SnapshotBegins BY <1>2, TopicBegins
<1>3. CASE SnapshotRow BY <1>3, TopicRow
<1>4. CASE StreamChange BY <1>4, TopicStream
<1>5. CASE StrayArrives BY <1>5, TopicStray
<1>6. CASE ConnectorRewinds
  <2>1. /\ UNCHANGED <<log, snapAt>> /\ snapAt # 0 /\ rewinds' = rewinds + 1 /\ rewinds \in Nat
    BY <1>6 DEF ConnectorRewinds, TypeOK
  <2> QED BY <2>1 DEF TopicInv
<1> QED BY <1>1, <1>2, <1>3, <1>4, <1>5, <1>6 DEF Aside, Connector

-----------------------------------------------------------------------------
(* What the tables hold.                                                    *)

LEMMA NormalizedStep ==
  ASSUME TypeOK, LegsInv, SourceInv, NormalizedInv, [CdcNext]_cdcVars
  PROVE  NormalizedInv'
<1> DEFINE a == upto.normalized
<1>0. log \in Seq(Event) /\ a \in 0 .. Len(log) /\ a \in Nat /\ a <= Len(log)
  <2>1. upto["normalized"] \in 0 .. Len(log) /\ Len(log) \in Nat BY DEF TypeOK, Path
  <2> QED BY <2>1 DEF TypeOK
<1> HIDE DEF a
<1>1. CASE Aside
  <2>1. upto' = upto /\ normalized' = normalized BY <1>1, AsideIs DEF tableVars
  <2>2. TableAt(log', a) = TableAt(log, a)
    <3>1. CASE log' = log BY <3>1
    <3>2. ASSUME NEW e \in Event, log' = Append(log, e) PROVE TableAt(log', a) = TableAt(log, a)
      BY <1>0, <3>2, TableAtGrows
    <3> QED BY <1>1, <3>1, <3>2, AsideIs
  <2>3. upto'.normalized = a BY <2>1 DEF a
  <2> QED BY <2>1, <2>2, <2>3 DEF NormalizedInv, a
<1>2. ASSUME NEW p \in pending, CommitFiles(p), log' = log PROVE NormalizedInv'
  <2>1. /\ p \in Path /\ ckpt[p].offset \in Nat /\ upto[p] <= ckpt[p].offset
        /\ ckpt[p].offset <= Len(log) /\ upto' = [upto EXCEPT ![p] = ckpt[p].offset]
        /\ normalized' = IF p = "normalized"
                         THEN Upserted(normalized, SubSeq(log, upto[p] + 1, ckpt[p].offset))
                         ELSE normalized
    BY <1>2, CommitFilesIs
  <2>2. CASE p = "normalized"
    <3> DEFINE b == ckpt[p].offset
    <3>1. upto[p] = a BY <2>2 DEF a
    <3>2. upto'.normalized = b BY <2>1, <2>2 DEF TypeOK, Path
    <3> HIDE DEF b
    <3>3. normalized' = Upserted(TableAt(log, a), SubSeq(log, a + 1, b))
      BY <2>1, <2>2, <3>1 DEF NormalizedInv, a, b
    <3>4. Upserted(TableAt(log, a), SubSeq(log, a + 1, b)) = TableAt(log, b)
      BY <1>0, <2>1, <3>1, TableAtOn DEF b
    <3> QED BY <1>2, <3>2, <3>3, <3>4 DEF NormalizedInv
  <2>3. CASE p # "normalized"
    <3>1. normalized' = normalized /\ upto'.normalized = upto.normalized BY <2>1, <2>3 DEF TypeOK, Path
    <3> QED BY <1>2, <3>1 DEF NormalizedInv
  <2> QED BY <2>2, <2>3
<1>3. CASE Commit \/ RestoreCommits BY <1>2, <1>3 DEF Commit, RestoreCommits
<1>4. CASE UNCHANGED <<log, upto, normalized>> BY <1>4 DEF NormalizedInv
<1>5. CASE FlatMap \/ ReadChangelog BY <1>4, <1>5 DEF FlatMap, ReadChangelog, Consume, tableVars
<1>6. CASE Barrier \/ Complete BY <1>4, <1>6 DEF Barrier, Complete, tableVars
<1>7. CASE Crash \/ NullFails \/ Restore
  BY <1>4, <1>7 DEF Crash, NullFails, Lose, Restore, tableVars
<1>8. CASE UNCHANGED cdcVars BY <1>4, <1>8 DEF cdcVars, tableVars
<1> QED BY <1>1, <1>3, <1>5, <1>6, <1>7, <1>8 DEF CdcNext, Checkpointing, Aside

LEMMA RowType ==
  ASSUME NEW e \in Event, NEW o \in Nat, Emits(e)
  PROVE  BronzeRow(e, o) \in Row
<1> DEFINE img == IF e.after # None THEN e.after ELSE e.before
<1>1. img \in Image BY DEF Emits, Event
<1>2. img.symbol \in Symbol BY <1>1 DEF Image
<1>3. e.op \in {"r", "c", "u", "d"} BY DEF Emits
<1> HIDE DEF img
<1>4. BronzeRow(e, o) = [op |-> e.op, symbol |-> img.symbol, before |-> e.before,
                         after |-> e.after, lsn |-> e.lsn, offset |-> o]
  BY DEF BronzeRow, img
<1> QED BY <1>2, <1>3, <1>4 DEF Row, Event

IsConcat(u, s, t) == u = s \o t

LEMMA ConcatIs ==
  ASSUME NEW S, NEW s \in Seq(S), NEW t \in Seq(S), NEW u, IsConcat(u, s, t)
  PROVE  /\ u \in Seq(S) /\ Len(u) = Len(s) + Len(t)
         /\ \A i \in 1 .. Len(s) : u[i] = s[i]
         /\ \A i \in 1 .. Len(t) : u[Len(s) + i] = t[i]
BY DEF IsConcat

LEMMA BronzeCommits ==
  ASSUME TypeOK, LegsInv, BronzeInv, CommitFiles("bronze"), "bronze" \in pending, log' = log
  PROVE  BronzeInv'
<1> DEFINE a == upto["bronze"]
           b == ckpt["bronze"].offset
           files == ckpt["bronze"].written
           rows == RowsOf(files)
           m == Len(files)
           n == Len(bronze)
<1>1. /\ b \in Nat /\ a <= b /\ b <= Len(log) /\ upto' = [upto EXCEPT !["bronze"] = b]
      /\ bronze' = bronze \o BronzeRows(a, b)
  BY CommitFilesIs
<1>2. Leads(log, "bronze", a, b, files) BY DEF LegsInv
<1>3. a \in Nat /\ upto'.bronze = b /\ Len(log) \in Nat /\ log \in Seq(Event)
  <2>1. "bronze" \in Path BY DEF Path
  <2> QED BY <1>1, <2>1 DEF TypeOK
<1> HIDE DEF a, b, files, rows, m, n
<1>4. Holds(log, "bronze", a, b, files) /\ bronze' = bronze \o rows
  BY <1>1, <1>2, LeadsHolds, LeadsBronzeRows DEF rows
<1>5. /\ files \in Seq(Nat) /\ m \in Nat
      /\ \A i \in 1 .. m : files[i] \in a .. (b - 1) /\ Emits(log[files[i] + 1])
      /\ \A o \in (a + 1) .. b : Emits(log[o]) => \E i \in 1 .. m : files[i] = o - 1
  BY <1>4 DEF Holds, Wrote, m
<1>6. rows = [i \in 1 .. m |-> BronzeRow(log[files[i] + 1], files[i])] BY DEF rows, RowsOf, m
<1>7. \A i \in 1 .. m : rows[i] \in Row
  <2>1. ASSUME NEW i \in 1 .. m PROVE rows[i] \in Row
    <3>1. files[i] + 1 \in 1 .. Len(log) /\ files[i] \in Nat BY <1>1, <1>3, <1>5
    <3>2. log[files[i] + 1] \in Event BY <1>3, <3>1
    <3>3. BronzeRow(log[files[i] + 1], files[i]) \in Row BY <1>5, <3>1, <3>2, RowType
    <3> QED BY <1>6, <3>3
  <2> QED BY <2>1
<1>8. rows \in Seq(Row) /\ Len(rows) = m
  <2>1. rows \in [1 .. m -> Row] BY <1>6, <1>7
  <2> QED BY <1>5, <2>1
<1>9. bronze \in Seq(Row) /\ n \in Nat BY DEF BronzeInv, n
<1>10. /\ bronze' \in Seq(Row) /\ Len(bronze') = n + m
       /\ \A i \in 1 .. n : bronze'[i] = bronze[i]
       /\ \A i \in 1 .. m : bronze'[n + i] = rows[i]
  <2>1. IsConcat(bronze', bronze, rows) BY <1>4 DEF IsConcat
  <2> QED BY <1>8, <1>9, <2>1, ConcatIs DEF n
<1>11. /\ \A i \in 1 .. n : \E o \in 1 .. a : Emits(log[o]) /\ bronze[i] = BronzeRow(log[o], o - 1)
       /\ \A o \in 1 .. a : Emits(log[o]) => \E i \in 1 .. n : bronze[i] = BronzeRow(log[o], o - 1)
  <2>1. a = upto.bronze BY DEF a
  <2> QED BY <2>1 DEF BronzeInv, n
<1>12. ASSUME NEW i \in 1 .. n + m
       PROVE  \E o \in 1 .. b : Emits(log[o]) /\ bronze'[i] = BronzeRow(log[o], o - 1)
  <2>1. CASE i \in 1 .. n
    <3>1. PICK o \in 1 .. a : Emits(log[o]) /\ bronze[i] = BronzeRow(log[o], o - 1) BY <1>11, <2>1
    <3>2. o \in 1 .. b BY <1>1, <1>3
    <3> QED BY <1>10, <2>1, <3>1, <3>2
  <2>2. CASE i \notin 1 .. n
    <3> DEFINE j == i - n
    <3>1. j \in 1 .. m /\ i = n + j BY <1>5, <1>9, <1>12, <2>2
    <3> HIDE DEF j
    <3>2. bronze'[i] = rows[j] BY <1>10, <3>1
    <3>3. rows[j] = BronzeRow(log[files[j] + 1], files[j]) BY <1>6, <3>1
    <3>4. files[j] + 1 \in 1 .. b /\ Emits(log[files[j] + 1]) /\ (files[j] + 1) - 1 = files[j]
      <4>1. files[j] \in a .. (b - 1) /\ Emits(log[files[j] + 1]) BY <1>5, <3>1, Zenon
      <4> QED BY <1>1, <1>3, <4>1
    <3> QED BY <3>2, <3>3, <3>4
  <2> QED BY <2>1, <2>2
<1>13. ASSUME NEW o \in 1 .. b, Emits(log[o])
       PROVE  \E i \in 1 .. n + m : bronze'[i] = BronzeRow(log[o], o - 1)
  <2>1. CASE o \in 1 .. a
    <3>1. PICK i \in 1 .. n : bronze[i] = BronzeRow(log[o], o - 1) BY <1>11, <1>13, <2>1
    <3>2. i \in 1 .. n + m BY <1>5, <1>9
    <3> QED BY <1>10, <3>1, <3>2
  <2>2. CASE o \notin 1 .. a
    <3>1. o \in (a + 1) .. b BY <1>1, <1>3, <1>13, <2>2
    <3>2. PICK j \in 1 .. m : files[j] = o - 1 BY <1>5, <1>13, <3>1
    <3>3. rows[j] = BronzeRow(log[o], o - 1)
      <4>1. files[j] + 1 = o BY <1>1, <3>1, <3>2
      <4> QED BY <1>6, <3>2, <4>1
    <3>4. n + j \in 1 .. n + m BY <1>5, <1>9
    <3> QED BY <1>10, <3>3, <3>4
  <2> QED BY <2>1, <2>2
<1>14. upto'.bronze = b /\ log' = log BY <1>3
<1> QED BY <1>10, <1>12, <1>13, <1>14 DEF BronzeInv

LEMMA BronzeStep ==
  ASSUME TypeOK, LegsInv, SourceInv, BronzeInv, [CdcNext]_cdcVars
  PROVE  BronzeInv'
<1>1. CASE Aside
  <2>1. upto' = upto /\ bronze' = bronze BY <1>1, AsideIs DEF tableVars
  <2>2. \A o \in 1 .. upto.bronze : log'[o] = log[o]
    <3>1. upto["bronze"] \in 0 .. Len(log) BY DEF TypeOK, Path
    <3>2. \A o \in 1 .. Len(log) : log'[o] = log[o] /\ Len(log) \in Nat BY <1>1, OldStays
    <3> QED BY <3>1, <3>2
  <2>3. upto'.bronze = upto.bronze BY <2>1
  <2> QED BY <2>1, <2>2, <2>3 DEF BronzeInv
<1>2. CASE UNCHANGED <<log, upto, bronze>> BY <1>2 DEF BronzeInv
<1>3. ASSUME NEW p \in pending, CommitFiles(p), log' = log PROVE BronzeInv'
  <2>1. CASE p = "bronze" BY <1>3, <2>1, BronzeCommits
  <2>2. CASE p # "bronze"
    <3>1. /\ p \in Path /\ bronze' = bronze /\ upto' = [upto EXCEPT ![p] = ckpt[p].offset]
      BY <1>3, <2>2, CommitFilesIs
    <3>2. upto'.bronze = upto.bronze BY <2>2, <3>1 DEF TypeOK, Path
    <3> QED BY <1>3, <3>1, <3>2 DEF BronzeInv
  <2> QED BY <2>1, <2>2
<1>4. CASE Commit \/ RestoreCommits BY <1>3, <1>4 DEF Commit, RestoreCommits
<1>5. CASE FlatMap \/ ReadChangelog BY <1>2, <1>5 DEF FlatMap, ReadChangelog, Consume, tableVars
<1>6. CASE Barrier \/ Complete BY <1>2, <1>6 DEF Barrier, Complete, tableVars
<1>7. CASE Crash \/ NullFails \/ Restore
  BY <1>2, <1>7 DEF Crash, NullFails, Lose, Restore, tableVars
<1>8. CASE UNCHANGED cdcVars BY <1>2, <1>8 DEF cdcVars, tableVars
<1> QED BY <1>1, <1>4, <1>5, <1>6, <1>7, <1>8 DEF CdcNext, Checkpointing, Aside

-----------------------------------------------------------------------------
(* The theorems.                                                            *)

LEMMA InvInit == CdcInit => IInv
<1> SUFFICES ASSUME CdcInit PROVE IInv
  OBVIOUS
<1>1. log = <<>> /\ bronze = <<>> /\ normalized = Empty /\ upto.bronze = 0 /\ upto.normalized = 0
  BY DEF CdcInit, Init
<1>2. NormalizedInv BY <1>1, TableAtNone DEF NormalizedInv
<1>3. BronzeInv
  <2>1. bronze \in Seq(Row) /\ Len(bronze) = 0 BY <1>1
  <2> QED BY <1>1, <2>1 DEF BronzeInv
<1> QED BY <1>2, <1>3, TypeInit, LegsInit, SourceInit, TopicInit DEF IInv

(* The types, and behind every property below: where the paths' legs and    *)
(* the events come from, what the topic shows and what the tables hold, as  *)
(* every step of the connector, the job and its failures leaves it.         *)
THEOREM InductiveInvariant == CdcSpec => []IInv
<1>1. IInv /\ [CdcNext]_cdcVars => IInv'
  <2> SUFFICES ASSUME IInv, [CdcNext]_cdcVars PROVE IInv'
    OBVIOUS
  <2> USE DEF IInv
  <2>1. TypeOK' BY TypeStep
  <2>2. LegsInv' BY LegsStep
  <2>3. SourceInv' /\ EventsInv' BY SourceStep, EventsStep
  <2>4. TopicInv' BY TopicStep
  <2>5. NormalizedInv' /\ BronzeInv' BY NormalizedStep, BronzeStep
  <2> QED BY <2>1, <2>2, <2>3, <2>4, <2>5
<1> QED BY <1>1, InvInit, PTL DEF CdcSpec

(* The types of flink's state and of the tables; no path is behind the      *)
(* checkpoint it would restart from.                                        *)
THEOREM TypeCorrectness == CdcSpec => []TypeOK
<1>1. IInv => TypeOK BY DEF IInv
<1> QED BY <1>1, InductiveInvariant, PTL

(* A commit of normalized.symbol_config shows a state the source table was  *)
(* in, as long as the connector has repeated nothing.                       *)
THEOREM SourceState == CdcSpec => []NormalizedIsSourceState
<1>1. IInv => NormalizedIsSourceState
  <2> SUFFICES ASSUME IInv, rewinds = 0, SnapshotIn(upto.normalized)
               PROVE  \E k \in snapAt .. now : normalized = hist[k]
    BY DEF NormalizedIsSourceState
  <2> USE DEF IInv
  <2>1. upto["normalized"] \in 0 .. Len(log) BY DEF TypeOK, Path
  <2>2. Shows(upto.normalized) BY <2>1 DEF TopicInv
  <2>3. PICK k \in snapAt .. streamed : TableAt(log, upto.normalized) = hist[k]
    BY <2>2 DEF Shows
  <2>4. k \in snapAt .. now BY StateIs, <2>3
  <2> QED BY <2>3, <2>4 DEF NormalizedInv
<1> QED BY <1>1, InductiveInvariant, PTL

LEMMA TablesOperators ==
  /\ \A a, b : Tables!BronzeRows(a, b) = BronzeRows(a, b)
  /\ \A t, s : Tables!Upserted(t, s) = Upserted(t, s)
<1>1. ASSUME NEW a, NEW b PROVE Tables!BronzeRows(a, b) = BronzeRows(a, b)
  BY DEF Tables!BronzeRows, BronzeRows, Tables!BronzeRow, BronzeRow, Tables!Emits, Emits
<1>2. ASSUME NEW t, NEW s PROVE Tables!Upserted(t, s) = Upserted(t, s)
  BY DEF Tables!Upserted, Upserted, Tables!Upsert, Upsert, Tables!Parsed, Parsed
<1> QED BY <1>1, <1>2

(* A commit is one advance of its table, or none if its leg is empty.       *)
LEMMA CommitRefines ==
  ASSUME IInv, NEW p \in pending, CommitFiles(p), log' = log
  PROVE  [Tables!Next]_(Tables!vars)
<1> USE DEF IInv
<1> DEFINE a == upto[p]
           b == ckpt[p].offset
<1>1. /\ p \in Path /\ b \in Nat /\ a <= b /\ b <= Len(log)
      /\ upto' = [upto EXCEPT ![p] = b]
      /\ bronze' = IF p = "bronze" THEN bronze \o BronzeRows(a, b) ELSE bronze
      /\ normalized' = IF p = "normalized" THEN Upserted(normalized, SubSeq(log, a + 1, b))
                       ELSE normalized
  BY CommitFilesIs
<1>2. /\ a \in Nat /\ Len(log) \in Nat /\ log \in Seq(Event) /\ normalized \in Table
      /\ bronze \in Seq(Row) /\ upto \in [Path -> 0 .. Len(log)]
  BY <1>1 DEF TypeOK, BronzeInv
<1> HIDE DEF a, b
<1>3. CASE a = b
  <2>1. upto' = upto BY <1>1, <1>2, <1>3 DEF a
  <2>2. bronze' = bronze
    <3>1. Leads(log, "bronze", a, a, <<>>) BY <1>1, <1>2, <1>3, LeadsNone
    <3>2. BronzeRows(a, a) = <<>> BY <3>1, LeadsBronzeRows, RowsOfNone
    <3>3. bronze \o <<>> = bronze BY <1>2, ConcatEmptySeq
    <3> QED BY <1>1, <1>3, <3>2, <3>3
  <2>3. normalized' = normalized
    <3>1. SubSeq(log, a + 1, a) = <<>> BY <1>2, SubSeqNone
    <3> QED BY <1>1, <1>2, <1>3, <3>1, UpsertedNone
  <2> QED BY <2>1, <2>2, <2>3 DEF Tables!vars
<1>4. CASE a # b /\ p = "bronze"
  <2>1. b \in (upto.bronze + 1) .. Len(log) BY <1>1, <1>2, <1>4 DEF a
  <2>2. upto' = [upto EXCEPT !.bronze = b] BY <1>1, <1>4
  <2>3. bronze' = bronze \o Tables!BronzeRows(upto.bronze, b)
    BY <1>1, <1>4, TablesOperators DEF a
  <2>4. UNCHANGED <<log, normalized>> BY <1>1, <1>4
  <2>5. Tables!BronzeAdvances BY <2>1, <2>2, <2>3, <2>4 DEF Tables!BronzeAdvances
  <2> QED BY <2>5 DEF Tables!Next
<1>5. CASE a # b /\ p = "normalized"
  <2>1. b \in (upto.normalized + 1) .. Len(log) BY <1>1, <1>2, <1>5 DEF a
  <2>2. upto' = [upto EXCEPT !.normalized = b] BY <1>1, <1>5
  <2>3. normalized' = Tables!Upserted(normalized, SubSeq(log, upto.normalized + 1, b))
    BY <1>1, <1>5, TablesOperators DEF a
  <2>4. UNCHANGED <<log, bronze>> BY <1>1, <1>5
  <2>5. Tables!NormalizedAdvances BY <2>1, <2>2, <2>3, <2>4 DEF Tables!NormalizedAdvances
  <2> QED BY <2>5 DEF Tables!Next
<1> QED BY <1>1, <1>3, <1>4, <1>5 DEF Path

LEMMA RefinementStep ==
  ASSUME IInv, [CdcNext]_cdcVars
  PROVE  [Tables!Next]_(Tables!vars)
<1> USE DEF IInv
<1>1. CASE UNCHANGED <<log, upto, bronze, normalized>> BY <1>1 DEF Tables!vars
<1>2. CASE Aside
  <2>1. UNCHANGED <<upto, bronze, normalized>> BY <1>2, AsideIs DEF tableVars
  <2>2. ASSUME NEW e \in Event, log' = Append(log, e) PROVE Tables!Arrive
    <3>1. /\ log' \in Seq(Event) /\ Len(log') = Len(log) + 1 /\ Len(log) \in Nat
          /\ \A o \in 1 .. Len(log) : log'[o] = log[o]
      BY <2>2, LogGrows, StateIs
    <3>2. SubSeq(log', 1, Len(log)) = log
      <4> DEFINE n == Len(log)
                 u == SubSeq(log', 0 + 1, n)
      <4>1. u \in Seq(Event) /\ Len(u) = n - 0 /\ \A i \in 1 .. n - 0 : u[i] = log'[0 + i]
        <5>1. 0 \in Nat /\ n \in Nat /\ 0 <= n /\ n <= Len(log') BY <3>1
        <5> QED BY <3>1, <5>1, SubSeqIs
      <4>2. u = SubSeq(log', 1, n) OBVIOUS
      <4> HIDE DEF u
      <4>3. Len(u) = n /\ \A i \in 1 .. n : u[i] = log[i] BY <3>1, <4>1
      <4>4. u = log BY <4>1, <4>3, SeqEqual, StateIs
      <4> QED BY <4>2, <4>4
    <3> QED BY <2>1, <3>1, <3>2 DEF Tables!Arrive
  <2> QED BY <1>1, <1>2, <2>1, <2>2, AsideIs DEF Tables!Next
<1>3. CASE Commit \/ RestoreCommits BY <1>3, CommitRefines DEF Commit, RestoreCommits
<1>4. CASE FlatMap \/ ReadChangelog BY <1>1, <1>4 DEF FlatMap, ReadChangelog, Consume, tableVars
<1>5. CASE Barrier \/ Complete BY <1>1, <1>5 DEF Barrier, Complete, tableVars
<1>6. CASE Crash \/ NullFails \/ Restore
  BY <1>1, <1>6 DEF Crash, NullFails, Lose, Restore, tableVars
<1>7. CASE UNCHANGED cdcVars BY <1>1, <1>7 DEF cdcVars, tableVars
<1> QED BY <1>2, <1>3, <1>4, <1>5, <1>6, <1>7 DEF CdcNext, Checkpointing, Aside

(* The job implements CdcTables: wherever crashes fall between barriers,    *)
(* the completion and the two commits, both tables only move along the      *)
(* topic, each event counted once and none left out.                        *)
THEOREM Refinement == CdcSpec => ImplementsCdcTables
<1>1. CdcInit => Tables!Init
  BY DEF CdcInit, Init, Tables!Init, Empty, Tables!Empty
<1>2. IInv /\ [CdcNext]_cdcVars => [Tables!Next]_(Tables!vars) BY RefinementStep
<1> QED BY <1>1, <1>2, InductiveInvariant, PTL DEF CdcSpec, ImplementsCdcTables, Tables!Spec

-----------------------------------------------------------------------------
(* What the bronze rows are, and which there are.                           *)

(* Row i is of symbol s, as state k has it. *)
RowTells(i, s, k) ==
    bronze[i].symbol = s /\ bronze[i].after = RowOf(hist[k], s) /\ bronze[i].lsn = k

LEMMA UptoBronze == ASSUME TypeOK PROVE upto.bronze \in 0 .. Len(log)
<1>1. upto["bronze"] \in 0 .. Len(log) BY DEF TypeOK, Path
<1> QED BY <1>1

LEMMA BronzeReadIs ==
  ASSUME IInv, NEW s \in Symbol, hist[snapAt][s] # None, snapAt # 0, NEW i, NEW o,
         bronze[i] = BronzeRow(Read(s), o)
  PROVE  RowTells(i, s, snapAt)
<1>1. snapAt \in 1 .. Len(hist) /\ hist \in Histories BY StateIs DEF IInv
<1>2. /\ Read(s).lsn = snapAt /\ Read(s).after = RowOf(hist[snapAt], s)
      /\ BronzeRow(Read(s), 0).symbol = s
  BY <1>1, ReadIs
<1> QED BY <1>2 DEF RowTells, BronzeRow

LEMMA BronzeChangeIs ==
  ASSUME IInv, NEW k \in (snapAt + 1) .. now, snapAt # 0, NEW i, NEW o,
         bronze[i] = BronzeRow(ChangeTo(k), o)
  PROVE  RowTells(i, Changed(k), k)
<1>1. k \in 2 .. Len(hist) /\ hist \in Histories BY StateIs DEF IInv
<1>2. /\ ChangeTo(k).lsn = k /\ ChangeTo(k).after = RowOf(hist[k], Changed(k))
      /\ BronzeRow(ChangeTo(k), 0).symbol = Changed(k)
  BY <1>1, ChangeToIs
<1> QED BY <1>2 DEF RowTells, BronzeRow

LEMMA RowIs ==
  ASSUME IInv, snapAt # 0, NEW i \in 1 .. Len(bronze)
  PROVE  \/ \E s \in Symbol : hist[snapAt][s] # None /\ RowTells(i, s, snapAt)
         \/ \E k \in (snapAt + 1) .. now :
               Emitted(k, upto.bronze) /\ RowTells(i, Changed(k), k)
<1> USE DEF IInv
<1>1. PICK o \in 1 .. upto.bronze : Emits(log[o]) /\ bronze[i] = BronzeRow(log[o], o - 1)
  BY DEF BronzeInv
<1>2. o \in 1 .. Len(log) BY UptoBronze
<1>3. CASE IsStray(log[o]) BY <1>1, <1>3, StrayIs
<1>4. CASE IsRead(o)
  <2>1. PICK s \in Symbol : hist[snapAt][s] # None /\ log[o] = Read(s) BY <1>4 DEF IsRead
  <2>2. RowTells(i, s, snapAt) BY <1>1, <2>1, BronzeReadIs
  <2> QED BY <2>1, <2>2
<1>5. CASE IsChange(o)
  <2>1. PICK k \in (snapAt + 1) .. now : log[o] = ChangeTo(k) BY <1>5 DEF IsChange
  <2>2. RowTells(i, Changed(k), k) BY <1>1, <2>1, BronzeChangeIs
  <2>3. Emitted(k, upto.bronze) BY <2>1 DEF Emitted
  <2> QED BY <2>2, <2>3
<1> QED BY <1>2, <1>3, <1>4, <1>5 DEF EventsInv

LEMMA ChangeRowThere ==
  ASSUME IInv, snapAt # 0, NEW k \in (snapAt + 1) .. now, Emitted(k, upto.bronze)
  PROVE  \E i \in 1 .. Len(bronze) : RowTells(i, Changed(k), k)
<1> USE DEF IInv
<1>1. PICK o \in 1 .. upto.bronze : log[o] = ChangeTo(k) BY DEF Emitted
<1>2. k \in 2 .. Len(hist) /\ hist \in Histories BY StateIs
<1>3. Emits(log[o]) BY <1>1, <1>2, ChangeToIs
<1>4. PICK i \in 1 .. Len(bronze) : bronze[i] = BronzeRow(log[o], o - 1) BY <1>3 DEF BronzeInv
<1> QED BY <1>1, <1>4, BronzeChangeIs

LEMMA ReadRowThere ==
  ASSUME IInv, SnapshotIn(upto.bronze), NEW s \in Symbol, hist[snapAt][s] # None
  PROVE  \E i \in 1 .. Len(bronze) : RowTells(i, s, snapAt)
<1> USE DEF IInv
<1>0. snapAt # 0 BY DEF SnapshotIn
<1>1. PICK o \in 1 .. upto.bronze : log[o].op = "r" /\ log[o].after.symbol = s
  BY DEF SnapshotIn
<1>2. o \in 1 .. Len(log) BY UptoBronze
<1>3. IsRead(o)
  <2>1. ~ IsStray(log[o]) BY <1>1 DEF IsStray
  <2>2. ASSUME IsChange(o) PROVE FALSE
    <3>1. PICK k \in (snapAt + 1) .. now : log[o] = ChangeTo(k) BY <2>2 DEF IsChange
    <3>2. k \in 2 .. Len(hist) /\ hist \in Histories BY <1>0, StateIs
    <3>3. ChangeTo(k).op \in {"c", "u", "d"} BY <3>2, ChangeToIs
    <3> QED BY <1>1, <3>1, <3>3
  <2> QED BY <1>2, <2>1, <2>2 DEF EventsInv
<1>4. PICK x \in Symbol : hist[snapAt][x] # None /\ log[o] = Read(x) BY <1>3 DEF IsRead
<1>5. snapAt \in 1 .. Len(hist) /\ hist \in Histories BY <1>0, StateIs
<1>6. x = s /\ Emits(log[o]) BY <1>1, <1>4, <1>5, ReadIs
<1>7. PICK i \in 1 .. Len(bronze) : bronze[i] = BronzeRow(log[o], o - 1) BY <1>6 DEF BronzeInv
<1> QED BY <1>0, <1>4, <1>6, <1>7, BronzeReadIs

(* Every change before one that was emitted was emitted. *)
LEMMA EmittedBefore ==
  ASSUME IInv, snapAt # 0, NEW n \in 0 .. Len(log), NEW k \in (snapAt + 1) .. now,
         Emitted(k, n), NEW j \in (snapAt + 1) .. (k - 1)
  PROVE  Emitted(j, n)
<1> USE DEF IInv
<1>1. PICK o \in 1 .. n : log[o] = ChangeTo(k) BY DEF Emitted
<1>2. k \in 2 .. Len(hist) /\ hist \in Histories /\ o \in 1 .. Len(log) BY StateIs
<1>3. ChangeTo(k).op \in {"c", "u", "d"} /\ ChangeTo(k).lsn = k BY <1>2, ChangeToIs
<1>4. IsChange(o)
  <2>1. ~ IsStray(log[o]) BY <1>1, <1>3 DEF IsStray
  <2>2. ASSUME IsRead(o) PROVE FALSE
    <3>1. \E s \in Symbol : log[o] = Read(s) BY <2>2 DEF IsRead
    <3>2. log[o].op = "r" BY <3>1 DEF Read
    <3> QED BY <1>1, <1>3, <3>2
  <2> QED BY <1>2, <2>1, <2>2 DEF EventsInv
<1>5. PICK x \in (snapAt + 1) .. now :
         log[o] = ChangeTo(x) /\ \A y \in (snapAt + 1) .. (x - 1) : Emitted(y, o - 1)
  BY <1>4 DEF IsChange
<1>6. x \in 2 .. Len(hist) BY StateIs
<1>7. ChangeTo(x).lsn = x BY <1>2, <1>6, ChangeToIs
<1>8. x = k BY <1>1, <1>3, <1>5, <1>7
<1>9. Emitted(j, o - 1) BY <1>5, <1>8
<1> QED BY <1>9 DEF Emitted

(* A symbol that no change from m to k is of is as it was. *)
LEMMA SymbolStays ==
  ASSUME hist \in Histories, NEW m \in 1 .. Len(hist), NEW k \in m .. Len(hist),
         NEW s \in Symbol, \A j \in (m + 1) .. k : Changed(j) # s
  PROVE  hist[k][s] = hist[m][s]
<1> DEFINE T == {j \in m .. k : hist[j][s] = hist[m][s]}
<1>1. m \in T OBVIOUS
<1>2. ASSUME NEW j \in (m + 1) .. k, j - 1 \in T PROVE j \in T
  <2>1. j \in 2 .. Len(hist) /\ Changed(j) # s BY <1>2, HistoryAssumption
  <2>2. hist[j][s] = hist[j - 1][s] BY <2>1, ChangedIs
  <2> QED BY <1>2, <2>2
<1>3. \A j \in m .. k : j \in T
  <2> HIDE DEF T
  <2>1. m \in Nat /\ k \in Nat BY HistoryAssumption
  <2>2. \A j \in (m + 1) .. k : j - 1 \in T => j \in T BY <1>2
  <2> QED BY <1>1, <2>1, <2>2, Induction
<1> QED BY <1>3

(* The bronze table in source_lsn order gives the source table as it was    *)
(* after the last change it has, though the connector repeats events.       *)
LEMMA BronzeRederivesState ==
  ASSUME IInv, SnapshotIn(upto.bronze)
  PROVE  \E k \in snapAt .. now :
            /\ \A i \in DOMAIN bronze : bronze[i].lsn <= k
            /\ \A s \in Symbol :
                  /\ hist[k][s] # None => LastRows(s) # {}
                  /\ \A i \in LastRows(s) : bronze[i].after = RowOf(hist[k], s)
<1> USE DEF IInv
<1>0. /\ snapAt \in Nat /\ now \in Nat /\ snapAt <= now /\ snapAt # 0 /\ hist \in Histories
      /\ now \in 1 .. Len(hist) /\ Len(hist) \in Nat /\ Len(bronze) \in Nat
      /\ DOMAIN bronze = 1 .. Len(bronze) /\ upto.bronze \in 0 .. Len(log)
  BY StateIs, UptoBronze DEF SnapshotIn, BronzeInv
<1> DEFINE Ks == {k \in snapAt .. now : k = snapAt \/ Emitted(k, upto.bronze)}
<1>1. PICK top \in Ks : \A k \in Ks : k <= top
  <2>1. Ks \subseteq Nat /\ snapAt \in Ks /\ \A k \in Ks : k <= now BY <1>0
  <2> HIDE DEF Ks
  <2> QED BY <1>0, <2>1, GreatestNat
<1>2. top \in Nat /\ snapAt <= top /\ top <= now /\ top \in 1 .. Len(hist) BY <1>0, <1>1
<1>3. \A j \in (snapAt + 1) .. top : j \in (snapAt + 1) .. now /\ Emitted(j, upto.bronze)
  <2>1. ASSUME NEW j \in (snapAt + 1) .. top PROVE Emitted(j, upto.bronze)
    <3>1. top \in (snapAt + 1) .. now /\ Emitted(top, upto.bronze) BY <1>0, <1>1, <1>2, <2>1
    <3>2. CASE j = top BY <3>1, <3>2
    <3>3. CASE j # top
      <4>1. j \in (snapAt + 1) .. (top - 1) BY <1>2, <2>1, <3>3
      <4> QED BY <1>0, <3>1, <4>1, EmittedBefore
    <3> QED BY <3>2, <3>3
  <2> QED BY <1>0, <1>2, <2>1
<1>4. ASSUME NEW i \in 1 .. Len(bronze)
      PROVE  \/ \E s \in Symbol : hist[snapAt][s] # None /\ RowTells(i, s, snapAt)
             \/ \E k \in (snapAt + 1) .. top : RowTells(i, Changed(k), k)
  <2>1. CASE \E s \in Symbol : hist[snapAt][s] # None /\ RowTells(i, s, snapAt) BY <2>1
  <2>2. ASSUME NEW k \in (snapAt + 1) .. now, Emitted(k, upto.bronze), RowTells(i, Changed(k), k)
        PROVE  \E j \in (snapAt + 1) .. top : RowTells(i, Changed(j), j)
    <3>1. k \in Ks BY <1>0, <2>2
    <3>2. k \in (snapAt + 1) .. top BY <1>0, <1>1, <1>2, <3>1
    <3> QED BY <2>2, <3>2
  <2> QED BY <1>0, <1>4, <2>1, <2>2, RowIs
<1> HIDE DEF Ks
<1>5. ASSUME NEW i \in 1 .. Len(bronze) PROVE bronze[i].lsn <= top
  BY <1>0, <1>2, <1>4 DEF RowTells
<1>6. ASSUME NEW s \in Symbol
      PROVE  /\ hist[top][s] # None => LastRows(s) # {}
             /\ \A i \in LastRows(s) : bronze[i].after = RowOf(hist[top], s)
  <2> DEFINE Cs == {j \in snapAt .. top : j = snapAt \/ Changed(j) = s}
  <2>1. PICK m \in Cs : \A j \in Cs : j <= m
    <3>1. Cs \subseteq Nat /\ snapAt \in Cs /\ \A j \in Cs : j <= top BY <1>0, <1>2
    <3> HIDE DEF Cs
    <3> QED BY <1>2, <3>1, GreatestNat
  <2>2. m \in Nat /\ snapAt <= m /\ m <= top /\ m \in 1 .. Len(hist) BY <1>0, <1>2, <2>1
  <2>3. hist[top][s] = hist[m][s]
    <3>1. \A j \in (m + 1) .. top : Changed(j) # s BY <1>0, <1>2, <2>1, <2>2
    <3>2. top \in m .. Len(hist) BY <1>2, <2>2
    <3> HIDE DEF Cs
    <3> QED BY <1>0, <2>2, <3>1, <3>2, SymbolStays
  <2>4. RowOf(hist[top], s) = RowOf(hist[m], s) BY <2>3 DEF RowOf
  <2> DEFINE Fits(i) == /\ bronze[i].lsn \in Nat /\ bronze[i].lsn <= m
                        /\ bronze[i].lsn = m => bronze[i].after = RowOf(hist[m], s)
                        /\ m = snapAt => hist[snapAt][s] # None
  <2>5. ASSUME NEW i \in 1 .. Len(bronze), bronze[i].symbol = s PROVE Fits(i)
    <3>1. CASE \E x \in Symbol : hist[snapAt][x] # None /\ RowTells(i, x, snapAt)
      <4>1. hist[snapAt][s] # None /\ RowTells(i, s, snapAt) BY <2>5, <3>1 DEF RowTells
      <4> QED BY <1>0, <2>2, <4>1 DEF RowTells
    <3>2. ASSUME NEW k \in (snapAt + 1) .. top, RowTells(i, Changed(k), k)
          PROVE  Fits(i)
      <4>1. Changed(k) = s /\ bronze[i].lsn = k /\ bronze[i].after = RowOf(hist[k], s)
        BY <2>5, <3>2 DEF RowTells
      <4>2. k \in Cs BY <1>0, <1>2, <3>2, <4>1
      <4>3. k <= m /\ k \in Nat /\ snapAt < k BY <1>0, <2>1, <3>2, <4>2
      <4> HIDE DEF Cs
      <4> QED BY <1>0, <2>2, <4>1, <4>3
    <3> HIDE DEF Fits
    <3> QED BY <1>4, <3>1, <3>2
  <2>6. ASSUME m # snapAt \/ hist[snapAt][s] # None
        PROVE  \E i \in 1 .. Len(bronze) : bronze[i].symbol = s /\ bronze[i].lsn = m
    <3>1. CASE m = snapAt
      <4>1. PICK i \in 1 .. Len(bronze) : RowTells(i, s, snapAt) BY <2>6, <3>1, ReadRowThere
      <4> QED BY <3>1, <4>1 DEF RowTells
    <3>2. CASE m # snapAt
      <4>1. Changed(m) = s /\ m \in (snapAt + 1) .. top BY <1>0, <1>2, <2>1, <2>2, <3>2
      <4>2. PICK i \in 1 .. Len(bronze) : RowTells(i, Changed(m), m)
        BY <1>0, <1>3, <4>1, ChangeRowThere
      <4> QED BY <4>1, <4>2 DEF RowTells
    <3> QED BY <3>1, <3>2
  <2> HIDE DEF Cs
  <2>7. ASSUME hist[top][s] # None PROVE LastRows(s) # {}
    <3>1. m # snapAt \/ hist[snapAt][s] # None BY <2>3, <2>7
    <3>2. PICK i \in 1 .. Len(bronze) : bronze[i].symbol = s /\ bronze[i].lsn = m BY <2>6, <3>1
    <3>3. \A j \in 1 .. Len(bronze) : bronze[j].symbol = s => bronze[j].lsn <= bronze[i].lsn
      BY <2>5, <3>2
    <3>4. i \in LastRows(s) BY <1>0, <3>2, <3>3 DEF LastRows
    <3> QED BY <3>4
  <2>8. ASSUME NEW i \in LastRows(s) PROVE bronze[i].after = RowOf(hist[top], s)
    <3>1. /\ i \in 1 .. Len(bronze) /\ bronze[i].symbol = s
          /\ \A j \in 1 .. Len(bronze) : bronze[j].symbol = s => bronze[j].lsn <= bronze[i].lsn
      BY <1>0, <2>8 DEF LastRows
    <3>2. m # snapAt \/ hist[snapAt][s] # None BY <2>5, <3>1
    <3>3. PICK j \in 1 .. Len(bronze) : bronze[j].symbol = s /\ bronze[j].lsn = m BY <2>6, <3>2
    <3>4. bronze[i].lsn \in Nat /\ bronze[i].lsn <= m /\ m <= bronze[i].lsn
      BY <2>5, <3>1, <3>3
    <3>5. bronze[i].lsn = m BY <2>2, <3>4
    <3> QED BY <2>4, <2>5, <3>1, <3>5
  <2> QED BY <2>7, <2>8
<1>7. top \in snapAt .. now BY <1>0, <1>2
<1> QED BY <1>0, <1>5, <1>6, <1>7

(* What sink_bronze.sql says of bronze.symbol_config_cdc holds: it          *)
(* re-derives the source table, whatever restarted and was repeated.        *)
THEOREM Rederives == CdcSpec => []BronzeRederives
<1>1. IInv => BronzeRederives BY BronzeRederivesState DEF BronzeRederives
<1> QED BY <1>1, InductiveInvariant, PTL

=============================================================================
