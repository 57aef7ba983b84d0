---------------------------- MODULE Ingest_proofs ----------------------------
(***************************************************************************)
(* What holds of the ingest client for every set of levels and quantities,*)
(* every number of retries and any length of the exchange's history, and of*)
(* the process that runs the clients for every set of symbols and every   *)
(* number of retries.                                                     *)
(*                                                                        *)
(* The client's inductive invariant IInv is TypeOK with four facts: every *)
(* event on its way is one the exchange has broadcast (EventsInv), retries*)
(* stay within their limit (RetriesInv), the local book is the exchange's *)
(* as far as the snapshot and the diffs tell (SyncInv), and broadcast ids *)
(* only grow along topic, event in hand, websocket queue (OrderInv).      *)
(***************************************************************************)
EXTENDS IngestClient, IngestService, TLAPS

-----------------------------------------------------------------------------
(* Books and diffs: what ApplyDiff and a snapshot return, in terms of the   *)
(* quantities an observer reads from a book.                                *)

(* Reading a level of a book gives a quantity, or zero. *)
LEMMA QtyAtType ==
    ASSUME NEW b \in Book, NEW l \in Level
    PROVE  QtyAt(b, l) \in Qty \cup {0}
<1>1. PICK S \in SUBSET Level : b \in [S -> Qty]
  BY DEF Book
<1>2. DOMAIN b = S
  BY <1>1
<1>3. CASE l \in S
  BY <1>1, <1>2, <1>3 DEF QtyAt
<1>4. CASE l \notin S
  BY <1>2, <1>4 DEF QtyAt
<1>5. QED
  BY <1>3, <1>4

(* Zero is read exactly from the levels the book does not hold. *)
LEMMA QtyAtZero ==
    ASSUME NEW b \in Book, NEW l \in Level
    PROVE  QtyAt(b, l) # 0 <=> l \in DOMAIN b
<1>1. PICK S \in SUBSET Level : b \in [S -> Qty]
  BY DEF Book
<1>2. DOMAIN b = S
  BY <1>1
<1>3. CASE l \in S
  <2>1. b[l] \in Qty
    BY <1>1, <1>3
  <2>2. b[l] # 0
    BY <2>1, QtyAssumption
  <2>3. QED
    BY <1>2, <1>3, <2>2 DEF QtyAt
<1>4. CASE l \notin S
  BY <1>2, <1>4 DEF QtyAt
<1>5. QED
  BY <1>3, <1>4

(* The empty book is a book. *)
LEMMA EmptyBookType == EmptyBook \in Book
<1>1. EmptyBook \in [{} -> Qty]
  BY DEF EmptyBook
<1>2. QED
  BY <1>1 DEF Book

(* Applying a diff to a book gives a book. *)
LEMMA ApplyDiffType ==
    ASSUME NEW b \in Book, NEW d \in Diff
    PROVE  ApplyDiff(b, d) \in Book
<1>1. PICK S \in SUBSET Level : b \in [S -> Qty]
  BY DEF Book
<1>2. PICK T \in SUBSET Level : d \in [T -> Qty \cup {0}]
  BY DEF Diff
<1> DEFINE removed == {l \in DOMAIN d : d[l] = 0}
           kept == (DOMAIN b \cup DOMAIN d) \ removed
<1>3. DOMAIN b = S /\ DOMAIN d = T
  BY <1>1, <1>2
<1>4. \A l \in kept : (IF l \in DOMAIN d THEN d[l] ELSE b[l]) \in Qty
  <2> SUFFICES ASSUME NEW l \in kept
               PROVE  (IF l \in DOMAIN d THEN d[l] ELSE b[l]) \in Qty
    OBVIOUS
  <2>1. CASE l \in DOMAIN d
    BY <1>2, <1>3, <2>1
  <2>2. CASE l \notin DOMAIN d
    BY <1>1, <1>3, <2>2
  <2>3. QED
    BY <2>1, <2>2
<1>5. ApplyDiff(b, d) \in [kept -> Qty]
  BY <1>4 DEF ApplyDiff
<1>6. kept \in SUBSET Level
  BY <1>1, <1>2, <1>3
<1>7. QED
  BY <1>5, <1>6 DEF Book

(* After a diff, a level it carries reads as the diff says and any other *)
(* level reads as before.                                                *)
LEMMA QtyAtApplyDiff ==
    ASSUME NEW b \in Book, NEW d \in Diff, NEW l \in Level
    PROVE  QtyAt(ApplyDiff(b, d), l) = IF l \in DOMAIN d THEN d[l] ELSE QtyAt(b, l)
<1> DEFINE removed == {k \in DOMAIN d : d[k] = 0}
           kept == (DOMAIN b \cup DOMAIN d) \ removed
<1>1. DOMAIN ApplyDiff(b, d) = kept
  BY DEF ApplyDiff
<1>2. \A k \in kept : ApplyDiff(b, d)[k] = IF k \in DOMAIN d THEN d[k] ELSE b[k]
  BY DEF ApplyDiff
<1>3. CASE l \in kept
  BY <1>1, <1>2, <1>3 DEF QtyAt
<1>4. CASE l \notin kept
  BY <1>1, <1>4 DEF QtyAt
<1>5. QED
  BY <1>3, <1>4

-----------------------------------------------------------------------------
(* The inductive invariant.                                                 *)

(* An event the exchange has broadcast when it has broadcast ids up to n:   *)
(* it covers ids the history has, and the id before them.                   *)
Genuine(e, n) == e.first >= 2 /\ e.first <= e.last /\ e.last <= n

EventsInv ==
    /\ \A i \in 1 .. Len(wsq) : Genuine(wsq[i], emitted)
    /\ \A i \in 1 .. Len(buffer) : Genuine(buffer[i], emitted)
    /\ pc = "producing" => Genuine(cur, emitted)
    /\ snap.st = "ok" => snap.id \in 1 .. Len(hist)

RetriesInv == pc # "gave_up" => retries <= MaxRetries

Synced == pc \in {"replay", "streaming", "producing"}

SyncedTo ==
    /\ snap.st = "ok" /\ snap.id <= lastId /\ lastId \in 1 .. Len(hist)
    /\ \A l \in Level : QtyAt(book, l) = QtyAt(hist[lastId], l) \/ BeyondSnapshot(l)

SyncInv == Synced => SyncedTo

OrderInv ==
    /\ \A i \in 1 .. Len(topic) : topic[i].last <= emitted
    /\ \A i, j \in 1 .. Len(topic) : i < j => topic[i].last < topic[j].last
    /\ \A i, j \in 1 .. Len(wsq) : i < j => wsq[i].last < wsq[j].last
    /\ \A i \in 1 .. Len(topic), j \in 1 .. Len(wsq) : topic[i].last < wsq[j].last
    /\ pc = "producing" =>
          /\ \A i \in 1 .. Len(topic) : topic[i].last < cur.last
          /\ \A j \in 1 .. Len(wsq) : cur.last < wsq[j].last

IInv == TypeOK /\ EventsInv /\ RetriesInv /\ SyncInv /\ OrderInv

-----------------------------------------------------------------------------
(* Facts about the exchange's events.                                       *)

(* The payload of a broadcast event is a diff. *)
LEMMA PayloadType ==
    ASSUME TypeOK, NEW e \in Event, Genuine(e, emitted)
    PROVE  Payload(e) \in Diff
<1> DEFINE touched == {l \in Level : \E k \in (e.first - 1) .. e.last :
                          QtyAt(hist[k], l) # QtyAt(hist[e.last], l)}
<1>1. e.last \in 1 .. Len(hist)
  BY DEF TypeOK, Genuine, Event
<1>2. hist[e.last] \in Book
  BY <1>1 DEF TypeOK
<1>3. \A l \in touched : QtyAt(hist[e.last], l) \in Qty \cup {0}
  BY <1>2, QtyAtType
<1>4. Payload(e) \in [touched -> Qty \cup {0}]
  BY <1>3 DEF Payload
<1>5. QED
  BY <1>4 DEF Diff

(* A level is in the payload with its quantity at the last id, or it has one *)
(* quantity over the ids of the event and the id just before: the reason the *)
(* client may start from a snapshot that falls inside an event.              *)
LEMMA PayloadReaches ==
    ASSUME TypeOK, NEW e \in Event, Genuine(e, emitted), NEW l \in Level
    PROVE  \/ /\ l \in DOMAIN Payload(e)
              /\ Payload(e)[l] = QtyAt(hist[e.last], l)
           \/ /\ l \notin DOMAIN Payload(e)
              /\ \A k \in (e.first - 1) .. e.last :
                    QtyAt(hist[k], l) = QtyAt(hist[e.last], l)
<1> DEFINE touched == {j \in Level : \E m \in (e.first - 1) .. e.last :
                          QtyAt(hist[m], j) # QtyAt(hist[e.last], j)}
<1>1. DOMAIN Payload(e) = touched
  BY DEF Payload
<1>2. CASE l \in touched
  <2>1. Payload(e)[l] = QtyAt(hist[e.last], l)
    BY <1>2 DEF Payload
  <2>2. QED
    BY <1>1, <1>2, <2>1
<1>3. CASE l \notin touched
  BY <1>1, <1>3
<1>4. QED
  BY <1>2, <1>3

-----------------------------------------------------------------------------
(* The invariant holds initially and every step keeps it.                   *)

(* Init establishes the invariant. *)
LEMMA InitIInv == Init => IInv
<1> SUFFICES ASSUME Init PROVE IInv
  OBVIOUS
<1> USE DEF Init
<1>1. EmptyBook \in Book
  BY EmptyBookType
<1>2. TypeOK
  <2>1. hist \in Seq(Book) /\ hist # <<>> /\ emitted \in 1 .. Len(hist)
    BY <1>1
  <2>2. wsq \in Seq(Event) /\ buffer \in Seq(Event) /\ topic \in Seq(Record)
    OBVIOUS
  <2>3. snap \in Snapshot /\ cur \in Event
    BY DEF NoSnapshot, Snapshot, NoEvent, Event
  <2>4. retries \in 0 .. (MaxRetries + 1)
    BY RetriesAssumption
  <2>5. book \in Book /\ lastId \in Nat /\ pc \in PC
    BY <1>1 DEF PC
  <2>6. QED
    BY <2>1, <2>2, <2>3, <2>4, <2>5 DEF TypeOK
<1>3. EventsInv /\ OrderInv
  BY DEF EventsInv, OrderInv, NoSnapshot
<1>4. RetriesInv /\ SyncInv
  BY RetriesAssumption DEF RetriesInv, SyncInv, Synced, SyncedTo, BeyondSnapshot
<1>5. QED
  BY <1>2, <1>3, <1>4 DEF IInv

(* Every path out of a connection ends in Fail, which keeps the invariant    *)
(* whatever the topic does meanwhile.                                        *)
LEMMA FailKeeps ==
    ASSUME IInv, Fail, pc # "gave_up", UNCHANGED exchangeVars
    PROVE  /\ EventsInv' /\ RetriesInv' /\ SyncInv'
           /\ pc' \in PC /\ pc' # "producing"
           /\ retries' \in 0 .. (MaxRetries + 1)
           /\ ws' = "none" /\ wsq' = <<>> /\ buffer' = <<>>
           /\ snap' \in Snapshot /\ cur' \in Event
           /\ book' \in Book /\ lastId' \in Nat /\ segment' \in BOOLEAN
<1> USE DEF IInv, Fail, Disconnect, exchangeVars
<1>1. EventsInv'
  BY DEF EventsInv, NoSnapshot
<1>2. RetriesInv' /\ retries' \in 0 .. (MaxRetries + 1)
  BY RetriesAssumption DEF RetriesInv, TypeOK
<1>3. SyncInv' /\ pc' \in PC /\ pc' # "producing"
  BY DEF SyncInv, Synced, SyncedTo, BeyondSnapshot, PC
<1>4. snap' \in Snapshot /\ cur' \in Event
  BY DEF NoSnapshot, Snapshot, NoEvent, Event
<1>5. book' \in Book
  BY EmptyBookType
<1>6. QED
  BY <1>1, <1>2, <1>3, <1>4, <1>5

(* Failing without a word to Kafka keeps the invariant. *)
LEMMA QuietFailKeeps ==
    ASSUME IInv, Fail, pc # "gave_up", UNCHANGED exchangeVars, UNCHANGED kafkaVars
    PROVE  IInv'
<1>1. /\ EventsInv' /\ RetriesInv' /\ SyncInv'
      /\ pc' \in PC /\ pc' # "producing"
      /\ retries' \in 0 .. (MaxRetries + 1)
      /\ ws' = "none" /\ wsq' = <<>> /\ buffer' = <<>>
      /\ snap' \in Snapshot /\ cur' \in Event
      /\ book' \in Book /\ lastId' \in Nat /\ segment' \in BOOLEAN
  BY FailKeeps
<1>2. hist' = hist /\ emitted' = emitted
  BY DEF exchangeVars
<1>3. topic' = topic /\ dlq' = dlq /\ swallowed' = swallowed
  BY DEF kafkaVars
<1>4. TypeOK /\ OrderInv
  BY DEF IInv
<1>5. TypeOK'
  BY <1>1, <1>2, <1>3, <1>4 DEF TypeOK
<1>6. OrderInv'
  BY <1>1, <1>2, <1>3, <1>4 DEF OrderInv
<1>7. QED
  BY <1>1, <1>5, <1>6 DEF IInv

(* What appending the record of the event in hand does to the topic. *)
LEMMA AppendKeeps ==
    ASSUME IInv, pc = "producing", topic' = Append(topic, CurRecord),
           UNCHANGED exchangeVars, wsq' = wsq \/ wsq' = <<>>, pc' # "producing"
    PROVE  topic' \in Seq(Record) /\ OrderInv'
<1>1. CurRecord \in Record
  BY DEF IInv, TypeOK, CurRecord, Record, Event
<1>2. topic' \in Seq(Record)
  BY <1>1 DEF IInv, TypeOK
<1>3. /\ Len(topic') = Len(topic) + 1
      /\ \A i \in 1 .. Len(topic') :
            topic'[i].last = IF i <= Len(topic) THEN topic[i].last ELSE cur.last
  BY <1>1 DEF IInv, TypeOK, CurRecord
<1>4. \A i \in 1 .. Len(topic') : topic'[i].last <= emitted'
  BY <1>3 DEF IInv, TypeOK, OrderInv, EventsInv, Genuine, exchangeVars
<1>5. \A i, j \in 1 .. Len(topic') : i < j => topic'[i].last < topic'[j].last
  <2> SUFFICES ASSUME NEW i \in 1 .. Len(topic'), NEW j \in 1 .. Len(topic'), i < j
               PROVE  topic'[i].last < topic'[j].last
    OBVIOUS
  <2>1. topic \in Seq(Record) /\ Len(topic) \in Nat
    BY DEF IInv, TypeOK
  <2>2. i \in 1 .. Len(topic) /\ topic'[i].last = topic[i].last
    BY <1>3, <2>1
  <2>3. CASE j \in 1 .. Len(topic)
    BY <1>3, <2>1, <2>2, <2>3 DEF IInv, OrderInv
  <2>4. CASE j = Len(topic) + 1
    BY <1>3, <2>1, <2>2, <2>4 DEF IInv, OrderInv
  <2>5. QED
    BY <1>3, <2>1, <2>3, <2>4
<1>6. /\ \A i, j \in 1 .. Len(wsq') : i < j => wsq'[i].last < wsq'[j].last
      /\ \A i \in 1 .. Len(topic'), j \in 1 .. Len(wsq') :
            topic'[i].last < wsq'[j].last
  BY <1>3 DEF IInv, TypeOK, OrderInv
<1>7. QED
  BY <1>2, <1>4, <1>5, <1>6 DEF OrderInv

(* Taking the head off a queue of events. *)
LEMMA TakeHead ==
    ASSUME NEW q \in Seq(Event), q # <<>>
    PROVE  /\ Head(q) \in Event /\ Head(q) = q[1] /\ 1 \in 1 .. Len(q)
           /\ Tail(q) \in Seq(Event) /\ Len(Tail(q)) = Len(q) - 1
           /\ \A i \in 1 .. Len(Tail(q)) : Tail(q)[i] = q[i + 1] /\ i + 1 \in 2 .. Len(q)
  OBVIOUS

(* A snapshot is a book: at each level it carries it says what the book says, *)
(* and the levels it lacks are not in it.                                     *)
LEMMA SnapshotOfBook ==
    ASSUME NEW b \in Book
    PROVE  /\ SnapshotOf(b) \in Book
           /\ \A l \in Level : \/ QtyAt(SnapshotOf(b), l) = QtyAt(b, l)
                             \/ /\ l \in DOMAIN b /\ ~ InSnapshot(b, l)
                                /\ l \notin DOMAIN SnapshotOf(b)
<1>1. PICK S \in SUBSET Level : b \in [S -> Qty]
  BY DEF Book
<1> DEFINE kept == {k \in Level : InSnapshot(b, k)}
<1>2. \A l \in kept : l \in DOMAIN b /\ b[l] \in Qty
  BY <1>1 DEF InSnapshot
<1>3. SnapshotOf(b) \in [kept -> Qty]
  BY <1>2 DEF SnapshotOf
<1>4. DOMAIN SnapshotOf(b) = kept /\ \A l \in kept : SnapshotOf(b)[l] = b[l]
  BY DEF SnapshotOf
<1>5. \A l \in Level : l \in kept => QtyAt(SnapshotOf(b), l) = QtyAt(b, l)
  BY <1>2, <1>4 DEF QtyAt
<1>6. \A l \in Level : l \notin DOMAIN b => QtyAt(SnapshotOf(b), l) = QtyAt(b, l)
  BY <1>2, <1>4 DEF QtyAt
<1>7. SnapshotOf(b) \in Book
  BY <1>3 DEF Book
<1>8. QED
  BY <1>4, <1>5, <1>6, <1>7

(* Applying the event at the head of a queue, when it is in sequence, takes  *)
(* the book from the exchange's book at lastId to the one at the event: a    *)
(* level the event carries agrees afterwards, whatever it was before, and    *)
(* any other level is as it was on both sides.                               *)
LEMMA ApplyKeepsSync ==
    ASSUME IInv, Synced, NEW e \in Event, Genuine(e, emitted), InSequence(e, lastId),
           book' = ApplyDiff(book, Payload(e)), lastId' = e.last,
           hist' = hist, snap' = snap
    PROVE  SyncedTo' /\ book' \in Book /\ lastId' \in Nat
<1>1. TypeOK /\ SyncedTo /\ lastId \in 1 .. Len(hist) /\ snap.id \in 1 .. lastId
  BY DEF IInv, EventsInv, SyncInv, SyncedTo, TypeOK
<1>2. /\ e.first \in Nat /\ e.last \in Nat /\ e.last \in 1 .. Len(hist)
      /\ lastId \in (e.first - 1) .. e.last /\ lastId < e.last
  BY <1>1 DEF TypeOK, Genuine, Event, InSequence, Gap, Stale
<1>3. book \in Book /\ Payload(e) \in Diff
  BY <1>1, PayloadType DEF TypeOK
<1>4. book' \in Book
  BY <1>3, ApplyDiffType
<1>5. ASSUME NEW l \in Level
      PROVE  (QtyAt(book, l) = QtyAt(hist[lastId], l) \/ BeyondSnapshot(l))'
  <2>1. QtyAt(book', l) = IF l \in DOMAIN Payload(e) THEN Payload(e)[l] ELSE QtyAt(book, l)
    BY <1>3, QtyAtApplyDiff
  <2>2. CASE l \in DOMAIN Payload(e)
    BY <1>1, <2>1, <2>2, PayloadReaches
  <2>3. CASE l \notin DOMAIN Payload(e)
    <3>1. \A k \in (e.first - 1) .. e.last : QtyAt(hist[k], l) = QtyAt(hist[e.last], l)
      BY <1>1, <2>3, PayloadReaches
    <3>2. CASE QtyAt(book, l) = QtyAt(hist[lastId], l)
      BY <1>2, <2>1, <2>3, <3>1, <3>2
    <3>3. CASE BeyondSnapshot(l)
      <4>1. QtyAt(hist[lastId], l) = QtyAt(hist[snap.id], l)
        BY <1>1, <3>3 DEF BeyondSnapshot
      <4>2. \A k \in snap.id .. e.last : QtyAt(hist[k], l) = QtyAt(hist[snap.id], l)
        <5> SUFFICES ASSUME NEW k \in snap.id .. e.last
                     PROVE  QtyAt(hist[k], l) = QtyAt(hist[snap.id], l)
          OBVIOUS
        <5>1. k \in snap.id .. lastId \/ k \in (e.first - 1) .. e.last
          BY <1>1, <1>2
        <5>2. QtyAt(hist[lastId], l) = QtyAt(hist[e.last], l)
          BY <1>2, <3>1
        <5>3. QED
          BY <3>1, <3>3, <4>1, <5>1, <5>2 DEF BeyondSnapshot
      <4>3. l \notin DOMAIN book'
        BY <1>3, <1>4, <2>1, <2>3, <3>3, QtyAtZero DEF BeyondSnapshot
      <4>4. QED
        BY <3>3, <4>2, <4>3 DEF BeyondSnapshot
    <3>4. QED
      BY <1>1, <3>2, <3>3 DEF SyncedTo
  <2>4. QED
    BY <2>2, <2>3
<1>6. snap'.st = "ok" /\ snap'.id <= lastId'
  BY <1>1, <1>2 DEF SyncedTo
<1>7. QED
  BY <1>2, <1>4, <1>5, <1>6 DEF SyncedTo

(* The ids everywhere are numbers, and none is past the last broadcast. *)
LEMMA IdsBounded ==
    ASSUME IInv
    PROVE  /\ emitted \in Nat /\ Len(hist) \in Nat /\ 1 <= emitted /\ emitted <= Len(hist)
           /\ \A i \in 1 .. Len(wsq) :
                /\ wsq[i] \in Event /\ wsq[i].first \in Nat /\ wsq[i].last \in Nat
                /\ wsq[i].last <= emitted
           /\ \A i \in 1 .. Len(buffer) :
                /\ buffer[i] \in Event /\ buffer[i].first \in Nat /\ buffer[i].last \in Nat
           /\ \A i \in 1 .. Len(topic) : topic[i].last \in Nat /\ topic[i].last <= emitted
           /\ cur.first \in Nat /\ cur.last \in Nat
           /\ pc = "producing" => cur.last <= emitted
<1>1. TypeOK /\ EventsInv /\ OrderInv
  BY DEF IInv
<1>2. emitted \in Nat /\ Len(hist) \in Nat /\ 1 <= emitted /\ emitted <= Len(hist)
  BY <1>1 DEF TypeOK
<1>3. \A i \in 1 .. Len(wsq) : wsq[i] \in Event
  BY <1>1 DEF TypeOK
<1>4. \A i \in 1 .. Len(buffer) : buffer[i] \in Event
  BY <1>1 DEF TypeOK
<1>5. \A i \in 1 .. Len(topic) : topic[i] \in Record
  BY <1>1 DEF TypeOK
<1>6. cur \in Event
  BY <1>1 DEF TypeOK
<1>7. \A e \in Event : e.first \in Nat /\ e.last \in Nat
  BY DEF Event
<1>8. \A r \in Record : r.last \in Nat
  BY DEF Record
<1>9. \A i \in 1 .. Len(wsq) : wsq[i].last <= emitted
  BY <1>1 DEF EventsInv, Genuine
<1>10. \A i \in 1 .. Len(topic) : topic[i].last <= emitted
  BY <1>1 DEF OrderInv
<1>11. pc = "producing" => cur.last <= emitted
  BY <1>1 DEF EventsInv, Genuine
<1>12. QED
  BY <1>2, <1>3, <1>4, <1>5, <1>6, <1>7, <1>8, <1>9, <1>10, <1>11

(* The exchange may append to its history and broadcast ids: what was said   *)
(* of events already on their way stays true.                                *)
LEMMA ExchangeGrows ==
    ASSUME IInv, hist' \in Seq(Book), Len(hist) <= Len(hist'),
           \A i \in 1 .. Len(hist) : hist'[i] = hist[i],
           emitted' \in Nat, emitted <= emitted', emitted' <= Len(hist'),
           UNCHANGED <<ws, snap, buffer, cur, segment, bookVars, kafkaVars, pc, retries>>
    PROVE  /\ wsq' \in Seq(Event) => TypeOK'
           /\ (\A i \in 1 .. Len(wsq') : Genuine(wsq'[i], emitted')) => EventsInv'
           /\ \A i \in 1 .. Len(wsq) : Genuine(wsq[i], emitted')
           /\ RetriesInv' /\ SyncInv'
           /\ wsq' = wsq => OrderInv'
<1>1. TypeOK /\ EventsInv /\ RetriesInv /\ SyncInv /\ OrderInv
  BY DEF IInv
<1>2. /\ ws' = ws /\ snap' = snap /\ buffer' = buffer /\ cur' = cur
      /\ segment' = segment /\ book' = book /\ lastId' = lastId
      /\ topic' = topic /\ dlq' = dlq /\ swallowed' = swallowed
      /\ pc' = pc /\ retries' = retries
  BY DEF bookVars, kafkaVars
<1>3. hist' # <<>> /\ Len(hist') \in Nat /\ emitted' \in 1 .. Len(hist')
  BY IdsBounded
<1>4. wsq' \in Seq(Event) => TypeOK'
  BY <1>1, <1>2, <1>3 DEF TypeOK
<1>5. \A i \in 1 .. Len(wsq) : Genuine(wsq[i], emitted')
  BY <1>1, IdsBounded DEF EventsInv, Genuine
<1>6. \A i \in 1 .. Len(buffer) : Genuine(buffer[i], emitted')
  BY <1>1, IdsBounded DEF EventsInv, Genuine
<1>7. pc = "producing" => Genuine(cur, emitted')
  BY <1>1, <1>2, IdsBounded DEF EventsInv, Genuine
<1>8. snap.st = "ok" => snap.id \in 1 .. Len(hist')
  BY <1>1, <1>3, IdsBounded DEF EventsInv, TypeOK, Snapshot
<1>9. (\A i \in 1 .. Len(wsq') : Genuine(wsq'[i], emitted')) => EventsInv'
  BY <1>2, <1>6, <1>7, <1>8 DEF EventsInv, Genuine
<1>10. SyncInv'
  <2> SUFFICES ASSUME Synced, SyncedTo PROVE SyncedTo'
    BY <1>1, <1>2 DEF SyncInv, Synced
  <2>1. snap'.id \in 1 .. lastId' /\ lastId' \in 1 .. Len(hist') /\ snap'.st = "ok"
    BY <1>1, <1>2, IdsBounded DEF SyncedTo, EventsInv, TypeOK
  <2>2. \A k \in snap.id .. lastId : hist'[k] = hist[k]
    BY <1>1, <1>2, <2>1, IdsBounded DEF SyncedTo
  <2>3. hist'[snap.id] = hist[snap.id] /\ hist'[lastId] = hist[lastId]
    BY <1>2, <2>1, <2>2
  <2>4. \A l \in Level : BeyondSnapshot(l) => BeyondSnapshot(l)'
    BY <1>2, <2>2, <2>3 DEF BeyondSnapshot
  <2>5. QED
    BY <1>2, <2>1, <2>3, <2>4 DEF SyncedTo
<1>11. RetriesInv'
  BY <1>1, <1>2 DEF RetriesInv
<1>12. \A i \in 1 .. Len(topic) : topic[i].last <= emitted'
  BY IdsBounded
<1>13. wsq' = wsq => OrderInv'
  BY <1>1, <1>2, <1>12 DEF OrderInv
<1>14. QED
  BY <1>4, <1>5, <1>9, <1>10, <1>11, <1>13

(* The exchange's history stays one of books. *)
LEMMA UpdateKeeps ==
    ASSUME IInv, ExchangeUpdate
    PROVE  IInv'
<1>1. PICK l \in Level, q \in Qty \cup {0} :
        hist' = Append(hist, Quoted(hist[Len(hist)], l, q))
  BY DEF ExchangeUpdate
<1>2. hist \in Seq(Book) /\ hist[Len(hist)] \in Book
  BY IdsBounded DEF IInv, TypeOK
<1> DEFINE b == hist[Len(hist)]
           qty == [k \in Level |-> IF k = l THEN q ELSE QtyAt(b, k)]
           quoted == {k \in Level : qty[k] # 0}
<1>3. \A k \in Level : qty[k] \in Qty \cup {0}
  BY <1>2, QtyAtType
<1>4. Quoted(b, l, q) \in Book
  <2>1. Quoted(b, l, q) \in [quoted -> Qty]
    BY <1>3 DEF Quoted
  <2>2. quoted \in SUBSET Level
    OBVIOUS
  <2>3. QED
    BY <2>1, <2>2 DEF Book
<1>5. /\ hist' \in Seq(Book) /\ Len(hist') = Len(hist) + 1
      /\ \A i \in 1 .. Len(hist) : hist'[i] = hist[i]
  BY <1>1, <1>2, <1>4
<1>6. UNCHANGED <<emitted, connVars, bookVars, kafkaVars, pc, retries>>
  BY DEF ExchangeUpdate
<1>7. emitted' = emitted /\ wsq' = wsq
      /\ UNCHANGED <<ws, snap, buffer, cur, segment, bookVars, kafkaVars, pc, retries>>
  BY <1>6 DEF connVars
<1>8. Len(hist) <= Len(hist') /\ emitted' <= Len(hist') /\ emitted' \in Nat
      /\ emitted <= emitted'
  BY <1>5, <1>7, IdsBounded
<1>9. wsq \in Seq(Event)
  BY DEF IInv, TypeOK
<1>10. /\ wsq' \in Seq(Event) => TypeOK'
       /\ (\A i \in 1 .. Len(wsq') : Genuine(wsq'[i], emitted')) => EventsInv'
       /\ \A i \in 1 .. Len(wsq) : Genuine(wsq[i], emitted')
       /\ RetriesInv' /\ SyncInv'
       /\ wsq' = wsq => OrderInv'
  BY <1>5, <1>7, <1>8, ExchangeGrows
<1>11. QED
  BY <1>7, <1>9, <1>10 DEF IInv

(* A message the websocket does not get moves the broadcast id only. *)
LEMMA MissedKeeps ==
    ASSUME IInv, BroadcastMissed
    PROVE  IInv'
<1>1. emitted' = Len(hist) /\ UNCHANGED <<hist, connVars, bookVars, kafkaVars, pc, retries>>
  BY DEF BroadcastMissed
<1>2. hist' = hist /\ wsq' = wsq
      /\ UNCHANGED <<ws, snap, buffer, cur, segment, bookVars, kafkaVars, pc, retries>>
  BY <1>1 DEF connVars
<1>3. /\ hist' \in Seq(Book) /\ Len(hist) <= Len(hist')
      /\ \A i \in 1 .. Len(hist) : hist'[i] = hist[i]
      /\ emitted' \in Nat /\ emitted <= emitted' /\ emitted' <= Len(hist')
  BY <1>1, <1>2, IdsBounded DEF IInv, TypeOK
<1>4. wsq \in Seq(Event)
  BY DEF IInv, TypeOK
<1>5. /\ wsq' \in Seq(Event) => TypeOK'
      /\ (\A i \in 1 .. Len(wsq') : Genuine(wsq'[i], emitted')) => EventsInv'
      /\ \A i \in 1 .. Len(wsq) : Genuine(wsq[i], emitted')
      /\ RetriesInv' /\ SyncInv'
      /\ wsq' = wsq => OrderInv'
  BY <1>2, <1>3, ExchangeGrows
<1>6. QED
  BY <1>2, <1>4, <1>5 DEF IInv

(* A delivered message is newer than all before it. *)
LEMMA DeliveredKeeps ==
    ASSUME IInv, BroadcastDelivered
    PROVE  IInv'
<1>1. /\ emitted < Len(hist) /\ emitted' = Len(hist) /\ wsq' = Append(wsq, NextEvent)
      /\ UNCHANGED <<hist, ws, snap, buffer, cur, segment, bookVars, kafkaVars, pc, retries>>
  BY DEF BroadcastDelivered
<1>2. /\ hist' = hist /\ pc' = pc /\ topic' = topic /\ cur' = cur
      /\ UNCHANGED <<ws, snap, buffer, cur, segment, bookVars, kafkaVars, pc, retries>>
  BY <1>1 DEF kafkaVars
<1>3. /\ hist' \in Seq(Book) /\ Len(hist) <= Len(hist')
      /\ \A i \in 1 .. Len(hist) : hist'[i] = hist[i]
      /\ emitted' \in Nat /\ emitted <= emitted' /\ emitted' <= Len(hist')
  BY <1>1, <1>2, IdsBounded DEF IInv, TypeOK
<1>4. /\ wsq' \in Seq(Event) => TypeOK'
      /\ (\A i \in 1 .. Len(wsq') : Genuine(wsq'[i], emitted')) => EventsInv'
      /\ \A i \in 1 .. Len(wsq) : Genuine(wsq[i], emitted')
      /\ RetriesInv' /\ SyncInv'
  BY <1>2, <1>3, ExchangeGrows
<1>5. /\ NextEvent \in Event
      /\ NextEvent.first = emitted + 1 /\ NextEvent.last = Len(hist)
  BY IdsBounded DEF NextEvent, Event
<1>6. wsq \in Seq(Event) /\ Len(wsq) \in Nat
  BY DEF IInv, TypeOK
<1>7. /\ wsq' \in Seq(Event) /\ Len(wsq') = Len(wsq) + 1
      /\ \A i \in 1 .. Len(wsq) : wsq'[i] = wsq[i]
      /\ wsq'[Len(wsq) + 1] = NextEvent
  BY <1>1, <1>5, <1>6
<1>8. \A i \in 1 .. Len(wsq') : i \in 1 .. Len(wsq) \/ i = Len(wsq) + 1
  BY <1>6, <1>7
<1>9. Genuine(NextEvent, emitted')
  BY <1>1, <1>2, <1>5, IdsBounded DEF Genuine, NextEvent
<1>10. \A i \in 1 .. Len(wsq') : Genuine(wsq'[i], emitted')
  <2>1. NextEvent.first >= 2 /\ NextEvent.first <= NextEvent.last /\ NextEvent.last <= emitted'
    BY <1>1, <1>5, IdsBounded
  <2>2. QED
    BY <1>4, <1>7, <1>8, <2>1 DEF Genuine
<1>11. \A i \in 1 .. Len(wsq) : wsq'[i].last < wsq'[Len(wsq) + 1].last
  BY <1>1, <1>5, <1>7, IdsBounded
<1>12. OrderInv
  BY DEF IInv
<1>13. \A i, j \in 1 .. Len(wsq') : i < j => wsq'[i].last < wsq'[j].last
  <2> SUFFICES ASSUME NEW i \in 1 .. Len(wsq'), NEW j \in 1 .. Len(wsq'), i < j
               PROVE  wsq'[i].last < wsq'[j].last
    OBVIOUS
  <2>1. i \in 1 .. Len(wsq)
    BY <1>6, <1>7
  <2>2. CASE j \in 1 .. Len(wsq)
    BY <1>7, <1>12, <2>1, <2>2 DEF OrderInv
  <2>3. CASE j = Len(wsq) + 1
    BY <1>11, <2>1, <2>3
  <2>4. QED
    BY <1>8, <2>2, <2>3
<1>14. \A i \in 1 .. Len(topic), j \in 1 .. Len(wsq') : topic[i].last < wsq'[j].last
  <2> SUFFICES ASSUME NEW i \in 1 .. Len(topic), NEW j \in 1 .. Len(wsq')
               PROVE  topic[i].last < wsq'[j].last
    OBVIOUS
  <2>1. CASE j \in 1 .. Len(wsq)
    BY <1>7, <1>12, <2>1 DEF OrderInv
  <2>2. CASE j = Len(wsq) + 1
    BY <1>1, <1>5, <1>7, <2>2, IdsBounded
  <2>3. QED
    BY <1>8, <2>1, <2>2
<1>15. pc = "producing" => \A j \in 1 .. Len(wsq') : cur.last < wsq'[j].last
  <2> SUFFICES ASSUME pc = "producing", NEW j \in 1 .. Len(wsq')
               PROVE  cur.last < wsq'[j].last
    OBVIOUS
  <2>1. CASE j \in 1 .. Len(wsq)
    BY <1>7, <1>12, <2>1 DEF OrderInv
  <2>2. CASE j = Len(wsq) + 1
    BY <1>1, <1>5, <1>7, <2>2, IdsBounded
  <2>3. QED
    BY <1>8, <2>1, <2>2
<1>16. \A i \in 1 .. Len(topic) : topic[i].last <= emitted'
  BY <1>1, IdsBounded
<1>17. OrderInv'
  BY <1>2, <1>12, <1>13, <1>14, <1>15, <1>16 DEF OrderInv
<1>18. QED
  BY <1>4, <1>7, <1>10, <1>17 DEF IInv

(* Each step of the exchange keeps the invariant: the history only grows at *)
(* its end, and a broadcast id is newer than every one before it.           *)
LEMMA ExchangeKeeps == IInv /\ ExchangeStep => IInv'
<1>1. ASSUME IInv, WsCloses PROVE IInv'
  <2>1. ws' \in {"closed_ok", "closed_err"}
        /\ UNCHANGED <<exchangeVars, wsq, snap, buffer, cur, segment, bookVars,
                       kafkaVars, pc, retries>>
    BY <1>1 DEF WsCloses
  <2>2. TypeOK'
    BY <1>1, <2>1 DEF IInv, TypeOK, exchangeVars, bookVars, kafkaVars
  <2>3. EventsInv' /\ RetriesInv' /\ SyncInv' /\ OrderInv'
    BY <1>1, <2>1 DEF IInv, EventsInv, Genuine, RetriesInv, SyncInv, Synced, SyncedTo,
                      BeyondSnapshot, OrderInv,
                      exchangeVars, bookVars, kafkaVars
  <2>4. QED
    BY <2>2, <2>3 DEF IInv
<1>2. QED
  BY <1>1, UpdateKeeps, DeliveredKeeps, MissedKeeps DEF ExchangeStep

(* So does each outcome of the snapshot request. *)
LEMMA SnapshotKeeps == IInv /\ SnapshotStep => IInv'
<1> SUFFICES ASSUME IInv, SnapshotStep PROVE IInv'
  OBVIOUS
<1> USE DEF IInv, exchangeVars, bookVars, kafkaVars
<1>1. snap' \in Snapshot /\ (snap'.st = "ok" => snap'.id \in 1 .. Len(hist))
  BY DEF SnapshotStep, SnapshotArrives, SnapshotFails, Snapshot, TypeOK
<1>2. UNCHANGED <<exchangeVars, ws, wsq, buffer, cur, segment, bookVars,
                  kafkaVars, pc, retries>>
  BY DEF SnapshotStep, SnapshotArrives, SnapshotFails
<1>3. TypeOK'
  BY <1>1, <1>2 DEF TypeOK
<1>4. ~ Synced'
  BY <1>2 DEF SnapshotStep, SnapshotArrives, SnapshotFails, SyncInv, SyncedTo, Synced
<1>5. EventsInv' /\ RetriesInv' /\ OrderInv'
  BY <1>1, <1>2 DEF EventsInv, Genuine, RetriesInv, OrderInv
<1>6. QED
  BY <1>3, <1>4, <1>5 DEF SyncInv

(* Connecting, or failing to, and waking from a backoff. *)
LEMMA ConnectKeeps == IInv /\ ConnectStep => IInv'
<1>1. ASSUME IInv, Connect PROVE IInv'
  <2>1. /\ pc = "connecting" /\ pc' = "check" /\ ws' = "open"
        /\ snap' = [st |-> "pending", id |-> 0]
        /\ UNCHANGED <<exchangeVars, wsq, buffer, cur, segment, bookVars, kafkaVars, retries>>
    BY <1>1 DEF Connect
  <2>2. snap' \in Snapshot /\ snap'.st # "ok"
    BY <2>1 DEF Snapshot
  <2>3. TypeOK'
    BY <1>1, <2>1, <2>2 DEF IInv, TypeOK, PC, exchangeVars, bookVars, kafkaVars
  <2>4. EventsInv' /\ RetriesInv' /\ SyncInv' /\ OrderInv'
    BY <1>1, <2>1, <2>2 DEF IInv, EventsInv, RetriesInv, SyncInv, Synced, SyncedTo,
                            BeyondSnapshot, OrderInv,
                            exchangeVars, bookVars, kafkaVars
  <2>5. QED
    BY <2>3, <2>4 DEF IInv
<1>2. ASSUME IInv, ConnectFails PROVE IInv'
  BY <1>2, QuietFailKeeps DEF ConnectFails
<1>3. ASSUME IInv, Wake PROVE IInv'
  <2>1. /\ pc = "backoff" /\ pc' = "connecting"
        /\ UNCHANGED <<exchangeVars, connVars, bookVars, kafkaVars, retries>>
    BY <1>3 DEF Wake
  <2>2. TypeOK'
    BY <1>3, <2>1 DEF IInv, TypeOK, PC, exchangeVars, connVars, bookVars, kafkaVars
  <2>3. EventsInv' /\ RetriesInv' /\ SyncInv' /\ OrderInv'
    BY <1>3, <2>1 DEF IInv, EventsInv, RetriesInv, SyncInv, Synced, SyncedTo,
                      BeyondSnapshot, OrderInv,
                      exchangeVars, connVars, bookVars, kafkaVars
  <2>4. QED
    BY <2>2, <2>3 DEF IInv
<1>4. QED
  BY <1>1, <1>2, <1>3 DEF ConnectStep

(* Buffering while the snapshot is fetched; the snapshot is a book the       *)
(* exchange has had, so taking it starts the client in sync.                 *)
LEMMA BufferKeeps == IInv /\ BufferStep => IInv'
<1>1. ASSUME IInv, KeepBuffering \/ RecvTimesOut PROVE IInv'
  <2>1. /\ pc' \in {"check", "recv"}
        /\ pc # "gave_up"
        /\ UNCHANGED <<exchangeVars, connVars, bookVars, kafkaVars, retries>>
    BY <1>1 DEF KeepBuffering, RecvTimesOut
  <2>2. TypeOK'
    BY <1>1, <2>1 DEF IInv, TypeOK, PC, exchangeVars, connVars, bookVars, kafkaVars
  <2>3. EventsInv' /\ RetriesInv' /\ SyncInv' /\ OrderInv'
    BY <1>1, <2>1 DEF IInv, EventsInv, RetriesInv, SyncInv, Synced, SyncedTo,
                      BeyondSnapshot, OrderInv,
                      exchangeVars, connVars, bookVars, kafkaVars
  <2>4. QED
    BY <2>2, <2>3 DEF IInv
<1>2. ASSUME IInv, TakeSnapshot PROVE IInv'
  <2>1. /\ pc = "check" /\ pc' = "replay" /\ snap.st = "ok"
        /\ book' = SnapshotOf(hist[snap.id]) /\ lastId' = snap.id
        /\ UNCHANGED <<exchangeVars, connVars, kafkaVars, retries>>
    BY <1>2 DEF TakeSnapshot
  <2>2. snap.id \in 1 .. Len(hist)
    BY <1>2, <2>1 DEF IInv, EventsInv
  <2>3. book' \in Book /\ lastId' \in Nat
    BY <1>2, <2>1, <2>2, SnapshotOfBook DEF IInv, TypeOK
  <2>4. TypeOK'
    BY <1>2, <2>1, <2>3 DEF IInv, TypeOK, PC, exchangeVars, connVars, kafkaVars
  <2>5. EventsInv' /\ RetriesInv' /\ OrderInv'
    BY <1>2, <2>1 DEF IInv, EventsInv, RetriesInv, OrderInv,
                      exchangeVars, connVars, kafkaVars
  <2>6. SyncInv'
    <3>1. hist[snap.id] \in Book /\ hist' = hist /\ snap' = snap
      BY <1>2, <2>1, <2>2 DEF IInv, TypeOK, exchangeVars, connVars
    <3>2. \A k \in snap'.id .. lastId' : k = snap.id
      BY <2>1, <2>2, <3>1
    <3>3. QED
      BY <2>1, <2>2, <3>1, <3>2, SnapshotOfBook DEF SyncInv, SyncedTo, BeyondSnapshot
  <2>7. QED
    BY <2>4, <2>5, <2>6 DEF IInv
<1>3. ASSUME IInv, SnapshotError \/ RecvRaises PROVE IInv'
  BY <1>3, QuietFailKeeps DEF SnapshotError, RecvRaises
<1>4. ASSUME IInv, RecvBuffers PROVE IInv'
  <2>1. /\ pc = "recv" /\ pc' = "check" /\ wsq # <<>>
        /\ buffer' = Append(buffer, Head(wsq)) /\ wsq' = Tail(wsq)
        /\ UNCHANGED <<exchangeVars, ws, snap, cur, segment, bookVars, kafkaVars, retries>>
    BY <1>4 DEF RecvBuffers
  <2>2. wsq \in Seq(Event) /\ buffer \in Seq(Event) /\ Len(wsq) \in Nat /\ Len(buffer) \in Nat
    BY <1>4 DEF IInv, TypeOK
  <2>3. /\ Head(wsq) \in Event /\ Head(wsq) = wsq[1] /\ 1 \in 1 .. Len(wsq)
        /\ wsq' \in Seq(Event) /\ Len(wsq') = Len(wsq) - 1
        /\ \A i \in 1 .. Len(wsq') : wsq'[i] = wsq[i + 1] /\ i + 1 \in 2 .. Len(wsq)
    BY <2>1, <2>2, TakeHead
  <2>4. /\ buffer' \in Seq(Event) /\ Len(buffer') = Len(buffer) + 1
        /\ \A i \in 1 .. Len(buffer) : buffer'[i] = buffer[i]
        /\ buffer'[Len(buffer) + 1] = wsq[1]
    BY <2>1, <2>2, <2>3
  <2>5. emitted' = emitted /\ hist' = hist
    BY <2>1 DEF exchangeVars
  <2>6. \A i \in 1 .. Len(buffer') : i \in 1 .. Len(buffer) \/ i = Len(buffer) + 1
    BY <2>2, <2>4
  <2>7. \A i \in 1 .. Len(buffer') : Genuine(buffer'[i], emitted)
    BY <1>4, <2>3, <2>4, <2>6 DEF IInv, EventsInv
  <2>8. \A i \in 1 .. Len(wsq') : Genuine(wsq'[i], emitted)
    BY <1>4, <2>2, <2>3 DEF IInv, EventsInv
  <2>9. TypeOK'
    BY <1>4, <2>1, <2>3, <2>4 DEF IInv, TypeOK, PC, exchangeVars, bookVars, kafkaVars
  <2>10. EventsInv'
    BY <1>4, <2>1, <2>5, <2>7, <2>8 DEF IInv, EventsInv
  <2>11. RetriesInv' /\ SyncInv'
    BY <1>4, <2>1 DEF IInv, RetriesInv, SyncInv, Synced, SyncedTo, BeyondSnapshot
  <2>12. OrderInv'
    BY <1>4, <2>1, <2>2, <2>3, <2>5 DEF IInv, OrderInv, kafkaVars
  <2>13. QED
    BY <2>9, <2>10, <2>11, <2>12 DEF IInv
<1>5. QED
  BY <1>1, <1>2, <1>3, <1>4 DEF BufferStep

(* Replaying the buffer: a stale event is skipped, an event in sequence     *)
(* takes the book forward along the exchange's history, a gap ends it.      *)
LEMMA ReplayKeeps == IInv /\ ReplayStep => IInv'
<1>1. ASSUME IInv, pc = "replay", pc' = "replay", buffer # <<>>, buffer' = Tail(buffer),
             UNCHANGED <<exchangeVars, ws, wsq, snap, cur, segment, kafkaVars, retries>>,
             book' \in Book, lastId' \in Nat, SyncInv'
      PROVE  IInv'
  <2>1. buffer \in Seq(Event) /\ Len(buffer) \in Nat
    BY <1>1 DEF IInv, TypeOK
  <2>2. /\ buffer' \in Seq(Event)
        /\ \A i \in 1 .. Len(buffer') : buffer'[i] = buffer[i + 1] /\ i + 1 \in 2 .. Len(buffer)
    BY <1>1, <2>1, TakeHead
  <2>3. emitted' = emitted /\ hist' = hist
    BY <1>1 DEF exchangeVars
  <2>4. \A i \in 1 .. Len(buffer') : Genuine(buffer'[i], emitted)
    BY <1>1, <2>1, <2>2 DEF IInv, EventsInv
  <2>6. TypeOK'
    BY <1>1, <2>2 DEF IInv, TypeOK, exchangeVars, kafkaVars
  <2>7. EventsInv'
    BY <1>1, <2>3, <2>4 DEF IInv, EventsInv
  <2>8. RetriesInv' /\ OrderInv'
    BY <1>1, <2>3 DEF IInv, RetriesInv, OrderInv, kafkaVars
  <2>9. QED
    BY <1>1, <2>6, <2>7, <2>8 DEF IInv
<1>2. ASSUME IInv, ReplayStale PROVE IInv'
  <2>1. /\ pc = "replay" /\ pc' = "replay" /\ buffer # <<>> /\ buffer' = Tail(buffer)
        /\ book' = book /\ lastId' = lastId
        /\ UNCHANGED <<exchangeVars, ws, wsq, snap, cur, segment, kafkaVars, retries>>
    BY <1>2 DEF ReplayStale, bookVars
  <2>2. book' \in Book /\ lastId' \in Nat /\ SyncInv'
    BY <1>2, <2>1 DEF IInv, TypeOK, SyncInv, Synced, SyncedTo, BeyondSnapshot, exchangeVars
  <2>3. QED
    BY <1>1, <1>2, <2>1, <2>2
<1>3. ASSUME IInv, ReplayApplies PROVE IInv'
  <2>1. /\ pc = "replay" /\ pc' = "replay" /\ buffer # <<>> /\ buffer' = Tail(buffer)
        /\ InSequence(Head(buffer), lastId)
        /\ book' = ApplyDiff(book, Payload(Head(buffer))) /\ lastId' = Head(buffer).last
        /\ UNCHANGED <<exchangeVars, ws, wsq, snap, cur, segment, kafkaVars, retries>>
    BY <1>3 DEF ReplayApplies
  <2>2. buffer \in Seq(Event) /\ hist' = hist
    BY <1>3, <2>1 DEF IInv, TypeOK, exchangeVars
  <2>3. Head(buffer) \in Event /\ Genuine(Head(buffer), emitted)
    BY <1>3, <2>1, <2>2, TakeHead DEF IInv, EventsInv
  <2>4. book' \in Book /\ lastId' \in Nat /\ SyncInv'
    BY <1>3, <2>1, <2>2, <2>3, ApplyKeepsSync DEF Synced, SyncInv
  <2>5. QED
    BY <1>1, <1>3, <2>1, <2>2, <2>4
<1>4. ASSUME IInv, ReplayGap PROVE IInv'
  BY <1>4, QuietFailKeeps DEF ReplayGap
<1>5. ASSUME IInv, ReplayDone PROVE IInv'
  <2>1. /\ pc = "replay" /\ pc' = "streaming"
        /\ UNCHANGED <<exchangeVars, connVars, bookVars, kafkaVars, retries>>
    BY <1>5 DEF ReplayDone
  <2>2. TypeOK'
    BY <1>5, <2>1 DEF IInv, TypeOK, PC, exchangeVars, connVars, bookVars, kafkaVars
  <2>3. EventsInv' /\ RetriesInv' /\ SyncInv' /\ OrderInv'
    BY <1>5, <2>1 DEF IInv, EventsInv, RetriesInv, SyncInv, Synced, SyncedTo,
                      BeyondSnapshot, OrderInv,
                      exchangeVars, connVars, bookVars, kafkaVars
  <2>4. QED
    BY <2>2, <2>3 DEF IInv
<1>6. QED
  BY <1>2, <1>3, <1>4, <1>5 DEF ReplayStep

(* Reading a message from the websocket while streaming: whether apply()    *)
(* skips it or applies it, it is next in the order of the topic.            *)
LEMMA StreamKeeps == IInv /\ StreamStep => IInv'
<1>1. ASSUME IInv, pc = "streaming", pc' = "producing", wsq # <<>>,
             cur' = Head(wsq), wsq' = Tail(wsq),
             UNCHANGED <<exchangeVars, ws, snap, buffer, segment, kafkaVars, retries>>,
             book' \in Book, lastId' \in Nat, SyncInv'
      PROVE  IInv'
  <2>1. wsq \in Seq(Event) /\ Len(wsq) \in Nat
    BY <1>1 DEF IInv, TypeOK
  <2>2. /\ cur' \in Event /\ cur' = wsq[1] /\ 1 \in 1 .. Len(wsq)
        /\ wsq' \in Seq(Event) /\ Len(wsq') = Len(wsq) - 1
        /\ \A i \in 1 .. Len(wsq') : wsq'[i] = wsq[i + 1] /\ i + 1 \in 2 .. Len(wsq)
    BY <1>1, <2>1, TakeHead
  <2>3. emitted' = emitted /\ hist' = hist /\ topic' = topic /\ snap' = snap
    BY <1>1 DEF exchangeVars, kafkaVars
  <2>4. \A i \in 1 .. Len(wsq') : Genuine(wsq'[i], emitted)
    BY <1>1, <2>1, <2>2 DEF IInv, EventsInv
  <2>5. Genuine(cur', emitted)
    BY <1>1, <2>2 DEF IInv, EventsInv
  <2>7. TypeOK'
    BY <1>1, <2>2 DEF IInv, TypeOK, PC, exchangeVars, kafkaVars
  <2>8. EventsInv'
    BY <1>1, <2>3, <2>4, <2>5 DEF IInv, EventsInv
  <2>9. RetriesInv'
    BY <1>1 DEF IInv, RetriesInv
  <2>11. OrderInv
    BY <1>1 DEF IInv
  <2>12. \A i, j \in 1 .. Len(wsq') : i < j => wsq'[i].last < wsq'[j].last
    <3> SUFFICES ASSUME NEW i \in 1 .. Len(wsq'), NEW j \in 1 .. Len(wsq'), i < j
                 PROVE  wsq'[i].last < wsq'[j].last
      OBVIOUS
    <3>1. /\ wsq'[i] = wsq[i + 1] /\ i + 1 \in 1 .. Len(wsq)
          /\ wsq'[j] = wsq[j + 1] /\ j + 1 \in 1 .. Len(wsq) /\ i + 1 < j + 1
      BY <2>1, <2>2
    <3>2. QED
      BY <2>11, <3>1 DEF OrderInv
  <2>13. \A i \in 1 .. Len(topic), j \in 1 .. Len(wsq') : topic[i].last < wsq'[j].last
    <3> SUFFICES ASSUME NEW i \in 1 .. Len(topic), NEW j \in 1 .. Len(wsq')
                 PROVE  topic[i].last < wsq'[j].last
      OBVIOUS
    <3>1. wsq'[j] = wsq[j + 1] /\ j + 1 \in 1 .. Len(wsq)
      BY <2>1, <2>2
    <3>2. QED
      BY <2>11, <3>1 DEF OrderInv
  <2>14. \A i \in 1 .. Len(topic) : topic[i].last < cur'.last
    BY <2>2, <2>11 DEF OrderInv
  <2>15. \A j \in 1 .. Len(wsq') : cur'.last < wsq'[j].last
    <3> SUFFICES ASSUME NEW j \in 1 .. Len(wsq')
                 PROVE  cur'.last < wsq'[j].last
      OBVIOUS
    <3>1. wsq'[j] = wsq[j + 1] /\ j + 1 \in 1 .. Len(wsq) /\ 1 < j + 1 /\ cur' = wsq[1]
      BY <2>1, <2>2
    <3>2. QED
      BY <2>2, <2>11, <3>1 DEF OrderInv
  <2>16. OrderInv'
    BY <2>3, <2>11, <2>12, <2>13, <2>14, <2>15 DEF OrderInv
  <2>17. QED
    BY <1>1, <2>7, <2>8, <2>9, <2>16 DEF IInv
<1>2. ASSUME IInv, ReceiveStale PROVE IInv'
  <2>1. /\ pc = "streaming" /\ pc' = "producing" /\ wsq # <<>>
        /\ cur' = Head(wsq) /\ wsq' = Tail(wsq)
        /\ book' = book /\ lastId' = lastId
        /\ UNCHANGED <<exchangeVars, ws, snap, buffer, segment, kafkaVars, retries>>
    BY <1>2 DEF ReceiveStale, bookVars
  <2>2. book' \in Book /\ lastId' \in Nat /\ SyncInv'
    BY <1>2, <2>1 DEF IInv, TypeOK, SyncInv, Synced, SyncedTo, BeyondSnapshot, exchangeVars
  <2>3. QED
    BY <1>1, <1>2, <2>1, <2>2
<1>3. ASSUME IInv, ReceiveApplies PROVE IInv'
  <2>1. /\ pc = "streaming" /\ pc' = "producing" /\ wsq # <<>>
        /\ InSequence(Head(wsq), lastId)
        /\ book' = ApplyDiff(book, Payload(Head(wsq))) /\ lastId' = Head(wsq).last
        /\ cur' = Head(wsq) /\ wsq' = Tail(wsq)
        /\ UNCHANGED <<exchangeVars, ws, snap, buffer, segment, kafkaVars, retries>>
    BY <1>3 DEF ReceiveApplies
  <2>2. wsq \in Seq(Event) /\ hist' = hist
    BY <1>3, <2>1 DEF IInv, TypeOK, exchangeVars
  <2>3. Head(wsq) \in Event /\ Genuine(Head(wsq), emitted)
    BY <1>3, <2>1, <2>2, TakeHead DEF IInv, EventsInv
  <2>4. book' \in Book /\ lastId' \in Nat /\ SyncInv'
    BY <1>3, <2>1, <2>2, <2>3, ApplyKeepsSync DEF Synced, SyncInv
  <2>5. QED
    BY <1>1, <1>3, <2>1, <2>2, <2>4
<1>4. ASSUME IInv, ReceiveGap \/ StreamBreaks PROVE IInv'
  BY <1>4, QuietFailKeeps DEF ReceiveGap, StreamBreaks
<1>5. ASSUME IInv, StreamEnds PROVE IInv'
  <2>1. /\ retries' = 0 /\ pc' = "connecting" /\ Disconnect
        /\ UNCHANGED <<exchangeVars, kafkaVars>>
    BY <1>5 DEF StreamEnds
  <2>2. /\ ws' = "none" /\ wsq' = <<>> /\ buffer' = <<>> /\ segment' = FALSE
        /\ snap' = NoSnapshot /\ cur' = NoEvent /\ book' = EmptyBook /\ lastId' = 0
    BY <2>1 DEF Disconnect
  <2>3. snap' \in Snapshot /\ snap'.st = "none" /\ cur' \in Event
    BY <2>2 DEF NoSnapshot, Snapshot, NoEvent, Event
  <2>4. retries' \in 0 .. (MaxRetries + 1) /\ retries' <= MaxRetries
    BY <2>1, RetriesAssumption
  <2>5. TypeOK'
    <3>1. TypeOK /\ hist' = hist /\ emitted' = emitted
          /\ topic' = topic /\ dlq' = dlq /\ swallowed' = swallowed
      BY <1>5, <2>1 DEF IInv, exchangeVars, kafkaVars
    <3>2. wsq' \in Seq(Event) /\ buffer' \in Seq(Event)
      BY <2>2
    <3>3. book' \in Book /\ lastId' \in Nat /\ pc' \in PC
      BY <2>1, <2>2, EmptyBookType DEF PC
    <3>4. QED
      BY <2>2, <2>3, <2>4, <3>1, <3>2, <3>3 DEF TypeOK
  <2>6. EventsInv' /\ RetriesInv' /\ SyncInv'
    BY <2>1, <2>2, <2>3, <2>4 DEF EventsInv, RetriesInv, SyncInv, Synced, SyncedTo,
                                  BeyondSnapshot
  <2>7. OrderInv'
    BY <1>5, <2>1, <2>2 DEF IInv, OrderInv, exchangeVars, kafkaVars
  <2>8. QED
    BY <2>5, <2>6, <2>7 DEF IInv
<1>6. QED
  BY <1>2, <1>3, <1>4, <1>5 DEF StreamStep

(* Every outcome of produce(): the record is written or not, and the client  *)
(* goes on or fails; an event is never written twice.                        *)
LEMMA ProduceKeeps == IInv /\ ProduceStep => IInv'
<1>1. ASSUME IInv, Produced PROVE IInv'
  <2>1. /\ pc = "producing" /\ pc' = "streaming"
        /\ topic' = Append(topic, CurRecord) /\ segment' = TRUE /\ cur' = NoEvent
        /\ UNCHANGED <<exchangeVars, ws, wsq, snap, buffer, bookVars, dlq, swallowed, retries>>
    BY <1>1 DEF Produced
  <2>2. topic' \in Seq(Record) /\ OrderInv'
    BY <1>1, <2>1, AppendKeeps
  <2>3. cur' \in Event
    BY <2>1 DEF NoEvent, Event
  <2>4. TypeOK'
    BY <1>1, <2>1, <2>2, <2>3 DEF IInv, TypeOK, PC, exchangeVars, bookVars
  <2>5. EventsInv' /\ RetriesInv' /\ SyncInv'
    BY <1>1, <2>1 DEF IInv, EventsInv, RetriesInv, SyncInv, Synced, SyncedTo,
                      BeyondSnapshot, exchangeVars, bookVars
  <2>6. QED
    BY <2>2, <2>4, <2>5 DEF IInv
<1>2. ASSUME IInv, ProduceFails PROVE IInv'
  BY <1>2, QuietFailKeeps DEF ProduceFails
<1>3. ASSUME IInv, ProduceUnacknowledged PROVE IInv'
  <2>1. /\ pc = "producing" /\ topic' = Append(topic, CurRecord) /\ Fail
        /\ UNCHANGED exchangeVars /\ UNCHANGED <<dlq, swallowed>>
    BY <1>3 DEF ProduceUnacknowledged, exchangeVars
  <2>2. /\ EventsInv' /\ RetriesInv' /\ SyncInv'
        /\ pc' \in PC /\ pc' # "producing"
        /\ retries' \in 0 .. (MaxRetries + 1)
        /\ ws' = "none" /\ wsq' = <<>> /\ buffer' = <<>>
        /\ snap' \in Snapshot /\ cur' \in Event
        /\ book' \in Book /\ lastId' \in Nat /\ segment' \in BOOLEAN
    BY <1>3, <2>1, FailKeeps
  <2>3. topic' \in Seq(Record) /\ OrderInv'
    BY <1>3, <2>1, <2>2, AppendKeeps
  <2>4. TypeOK'
    BY <1>3, <2>1, <2>2, <2>3 DEF IInv, TypeOK, exchangeVars
  <2>5. QED
    BY <2>2, <2>3, <2>4 DEF IInv
<1>4. ASSUME IInv, Diverted PROVE IInv'
  <2>1. /\ pc = "producing" /\ pc' = "streaming" /\ cur' = NoEvent
        /\ dlq' \in {dlq, dlq \cup {cur}} /\ swallowed' \in {swallowed, swallowed \cup {cur}}
        /\ UNCHANGED <<exchangeVars, ws, wsq, snap, buffer, segment, bookVars, topic, retries>>
    BY <1>4 DEF Diverted
  <2>2. cur' \in Event /\ dlq' \in SUBSET Event /\ swallowed' \in SUBSET Event
    BY <1>4, <2>1 DEF IInv, TypeOK, NoEvent, Event
  <2>3. TypeOK'
    BY <1>4, <2>1, <2>2 DEF IInv, TypeOK, PC, exchangeVars, bookVars
  <2>4. EventsInv' /\ RetriesInv' /\ SyncInv' /\ OrderInv'
    BY <1>4, <2>1 DEF IInv, EventsInv, RetriesInv, SyncInv, Synced, SyncedTo,
                      BeyondSnapshot, OrderInv,
                      exchangeVars, bookVars
  <2>5. QED
    BY <2>3, <2>4 DEF IInv
<1>5. QED
  BY <1>1, <1>2, <1>3, <1>4 DEF ProduceStep

(* A stuttering step keeps the invariant. *)
LEMMA StutterKeeps == IInv /\ UNCHANGED vars => IInv'
<1> SUFFICES ASSUME IInv, UNCHANGED vars PROVE IInv'
  OBVIOUS
<1>1. UNCHANGED <<exchangeVars, connVars, bookVars, kafkaVars, pc, retries>>
  BY DEF vars
<1>2. TypeOK'
  BY <1>1 DEF IInv, TypeOK, exchangeVars, connVars, bookVars, kafkaVars
<1>3. EventsInv' /\ RetriesInv' /\ SyncInv' /\ OrderInv'
  BY <1>1 DEF IInv, EventsInv, RetriesInv, SyncInv, Synced, SyncedTo, BeyondSnapshot,
              OrderInv,
              exchangeVars, connVars, bookVars, kafkaVars
<1>4. QED
  BY <1>2, <1>3 DEF IInv

-----------------------------------------------------------------------------
(* The theorems.                                                            *)

(* IInv is an inductive invariant of the ingest client. *)
THEOREM Invariance == Spec => []IInv
<1>1. Init => IInv
  BY InitIInv
<1>2. IInv /\ [Next]_vars => IInv'
  BY ExchangeKeeps, SnapshotKeeps, ConnectKeeps, BufferKeeps, ReplayKeeps,
     StreamKeeps, ProduceKeeps, StutterKeeps
     DEF Next, ClientStep
<1>3. QED
  BY <1>1, <1>2, PTL DEF Spec

(* The variables keep the types the code gives them, and the retry counter  *)
(* never passes the limit by more than the one failure that ends run().     *)
THEOREM TypeCorrectness == Spec => []TypeOK
<1>1. IInv => TypeOK
  BY DEF IInv
<1>2. QED
  BY <1>1, Invariance, PTL

(* At every level the local order book says what the exchange's book says at *)
(* last_update_id, or the level was beyond the depth of the snapshot and is  *)
(* unknown to it: for every interleaving of snapshot, loss, gap, close and   *)
(* produce outcomes, and for every depth.                                    *)
THEOREM BookCorrectness == Spec => []BookMatchesExchange
<1>1. IInv => BookMatchesExchange
  BY DEF IInv, SyncInv, Synced, SyncedTo, BookMatchesExchange
<1>2. QED
  BY <1>1, Invariance, PTL

(* The raw topic of a symbol never repeats or reorders an update id: the    *)
(* event_id "binance#symbol#u" of the code is a key, whatever fails.        *)
THEOREM TopicOrder == Spec => []TopicStrictlyOrdered
<1>1. IInv => TopicStrictlyOrdered
  BY DEF IInv, OrderInv, TopicStrictlyOrdered
<1>2. QED
  BY <1>1, Invariance, PTL

(* A step either leaves the connection, applies an event in sequence (whose *)
(* last id is past the book's), or does not touch last_update_id.           *)
LEMMA StepNeverRewinds ==
    ASSUME IInv, Next
    PROVE  pc \in {"replay", "streaming", "producing"} /\ ws' # "none" => lastId' >= lastId
<1> SUFFICES ASSUME pc \in {"replay", "streaming", "producing"}, ws' # "none"
             PROVE  lastId' >= lastId
  OBVIOUS
<1>1. lastId \in Nat
  BY DEF IInv, TypeOK
<1>2. ~ Disconnect /\ ~ Fail
  BY DEF Fail, Disconnect
<1>3. CASE ReplayApplies
  <2>1. buffer \in Seq(Event) /\ buffer # <<>> /\ lastId' = Head(buffer).last
        /\ ~ (Head(buffer).last <= lastId)
    BY <1>3 DEF IInv, TypeOK, ReplayApplies, InSequence, Stale
  <2>2. Head(buffer).last \in Nat
    BY <2>1, TakeHead DEF Event
  <2>3. QED
    BY <1>1, <2>1, <2>2
<1>4. CASE ReceiveApplies
  <2>1. wsq \in Seq(Event) /\ wsq # <<>> /\ lastId' = Head(wsq).last
        /\ ~ (Head(wsq).last <= lastId)
    BY <1>4 DEF IInv, TypeOK, ReceiveApplies, InSequence, Stale
  <2>2. Head(wsq).last \in Nat
    BY <2>1, TakeHead DEF Event
  <2>3. QED
    BY <1>1, <2>1, <2>2
<1>5. ASSUME ~ ReplayApplies, ~ ReceiveApplies PROVE lastId' = lastId
  <2>1. CASE ExchangeStep \/ SnapshotStep
    BY <2>1 DEF ExchangeStep, SnapshotStep, ExchangeUpdate, BroadcastDelivered,
                BroadcastMissed, WsCloses, SnapshotArrives, SnapshotFails, bookVars
  <2>2. CASE ConnectStep \/ BufferStep
    BY <1>2, <2>2 DEF ConnectStep, BufferStep, Connect, ConnectFails, Wake,
                KeepBuffering, TakeSnapshot, SnapshotError, RecvBuffers,
                RecvTimesOut, RecvRaises
  <2>3. CASE ReplayStep \/ StreamStep
    BY <1>2, <1>5, <2>3 DEF ReplayStep, StreamStep, ReplayStale, ReplayGap, ReplayDone,
                ReceiveStale, ReceiveGap, StreamEnds, StreamBreaks, bookVars
  <2>4. CASE ProduceStep
    BY <1>2, <2>4 DEF ProduceStep, Produced, ProduceFails, ProduceUnacknowledged,
                Diverted, bookVars
  <2>5. QED
    BY <2>1, <2>2, <2>3, <2>4 DEF Next, ClientStep
<1>6. QED
  BY <1>1, <1>3, <1>4, <1>5

(* While a connection lasts, the update id of the book never decreases. *)
THEOREM BookForward == Spec => BookNeverRewinds
<1>1. IInv /\ [Next]_vars =>
        [(pc \in {"replay", "streaming", "producing"} /\ ws' # "none") =>
            lastId' >= lastId]_vars
  BY StepNeverRewinds
<1>2. QED
  BY <1>1, Invariance, PTL DEF Spec, BookNeverRewinds

-----------------------------------------------------------------------------
(* The topic has no silent hole.                                            *)

(* An update id that one of the events covers; the events produce() diverted. *)
Within(k, events) == \E e \in events : k \in Ids(e)

Diversions == dlq \cup swallowed

(* Of two records of the topic, the second closes up with the first. *)
Follows(a, b, diverted) ==
    a.synced /\ ~ b.opens => \A k \in (a.last + 1) .. (b.first - 1) : Within(k, diverted)

(* What the connection has in the topic, the book and the event in hand: from *)
(* the last record on, the book has taken nothing but diverted events and the *)
(* event in hand.  In the other states no record of the connection exists.    *)
HoleInv ==
    /\ \A i \in 1 .. (Len(topic) - 1) : Follows(topic[i], topic[i + 1], Diversions)
    /\ segment => pc \in {"streaming", "producing"} /\ topic # <<>>
    /\ pc = "producing" => cur.last <= lastId
    /\ segment /\ topic[Len(topic)].synced =>
          \A k \in (topic[Len(topic)].last + 1) .. lastId :
              Within(k, Diversions) \/ (pc = "producing" /\ k \in Ids(cur))

(* Steps that touch neither the topic, the book nor what was diverted. *)
LEMMA HoleAside ==
    ASSUME HoleInv, UNCHANGED <<topic, dlq, swallowed, pc, cur, segment, lastId>>
    PROVE  HoleInv'
<1>1. Diversions' = Diversions
  BY DEF Diversions
<1>2. QED
  BY <1>1 DEF HoleInv, Follows

(* Before the first record of a connection, and after it has been left. *)
LEMMA HoleUnopened ==
    ASSUME HoleInv, UNCHANGED <<topic, dlq, swallowed>>, ~ segment', pc' # "producing"
    PROVE  HoleInv'
<1>1. Diversions' = Diversions
  BY DEF Diversions
<1>2. QED
  BY <1>1 DEF HoleInv, Follows

(* The record that produce() appends follows the one before it. *)
LEMMA HoleAppended ==
    ASSUME IInv, HoleInv, pc = "producing", topic' = Append(topic, CurRecord),
           UNCHANGED <<dlq, swallowed>>
    PROVE  /\ \A i \in 1 .. (Len(topic') - 1) : Follows(topic'[i], topic'[i + 1], Diversions)
           /\ topic' # <<>> /\ topic'[Len(topic')] = CurRecord
<1> DEFINE n == Len(topic)
           next == Append(topic, CurRecord)
<1>1. CurRecord \in Record /\ cur \in Event /\ lastId \in Nat /\ topic \in Seq(Record)
  BY DEF IInv, TypeOK, CurRecord, Event, Record
<1>2. /\ n \in Nat /\ Len(next) = n + 1 /\ next[n + 1] = CurRecord /\ next # <<>>
      /\ \A i \in 1 .. n : next[i] = topic[i] /\ topic[i] \in Record
  BY <1>1
<1>4. ASSUME NEW i \in 1 .. n PROVE Follows(next[i], next[i + 1], Diversions)
  <2> HIDE DEF next
  <2>1. CASE i # n
    <3>1. i \in 1 .. (n - 1) /\ i + 1 \in 1 .. n
      BY <1>2, <2>1
    <3> QED
      BY <1>2, <3>1 DEF HoleInv
  <2>2. CASE i = n
    <3>4. next[i] = topic[n] /\ next[i + 1] = CurRecord
      BY <1>2, <2>2
    <3>5. CurRecord.first = cur.first /\ CurRecord.opens = ~ segment
      BY DEF CurRecord
    <3> SUFFICES ASSUME topic[n].synced, segment,
                        NEW k \in (topic[n].last + 1) .. (cur.first - 1)
                 PROVE  Within(k, Diversions)
      BY <3>4, <3>5 DEF Follows
    <3>1. /\ topic[n].last \in Nat /\ cur.first \in Nat /\ cur.last \in Nat
      BY <1>1, <1>2, <2>2 DEF Record, Event
    <3>2. cur.first <= cur.last /\ cur.last <= lastId
      BY DEF IInv, EventsInv, Genuine, HoleInv
    <3>3. k \in (topic[n].last + 1) .. lastId /\ k \notin Ids(cur)
      BY <1>1, <3>1, <3>2 DEF Ids
    <3> QED
      BY <3>3 DEF HoleInv
  <2>3. QED
    BY <2>1, <2>2
<1>5. \A i \in 1 .. (Len(next) - 1) : i \in 1 .. n
  BY <1>2
<1>6. QED
  <2> HIDE DEF next
  <2> QED
    BY <1>2, <1>4, <1>5 DEF next

(* An event is taken in hand: the book has reached it. *)
LEMMA HoleReceived == IInv /\ HoleInv /\ (ReceiveStale \/ ReceiveApplies) => HoleInv'
<1> SUFFICES ASSUME IInv, HoleInv, ReceiveStale \/ ReceiveApplies PROVE HoleInv'
  OBVIOUS
<1>1. /\ pc = "streaming" /\ pc' = "producing" /\ wsq # <<>> /\ cur' = Head(wsq)
      /\ UNCHANGED <<topic, dlq, swallowed, segment>>
  BY DEF ReceiveStale, ReceiveApplies, kafkaVars
<1>2. cur' \in Event /\ Genuine(cur', emitted)
  <2>1. wsq \in Seq(Event)
    BY DEF IInv, TypeOK
  <2>2. Head(wsq) \in Event /\ Head(wsq) = wsq[1] /\ 1 \in 1 .. Len(wsq)
    BY <1>1, <2>1, TakeHead
  <2>3. QED
    BY <1>1, <2>2 DEF IInv, EventsInv
<1>3. /\ lastId \in Nat /\ lastId' \in Nat /\ cur'.first \in Nat /\ cur'.last \in Nat
      /\ cur'.last <= lastId'
      /\ lastId' = lastId \/ (lastId' = cur'.last /\ cur'.first <= lastId + 1)
  <2>1. lastId \in Nat /\ cur'.first \in Nat /\ cur'.last \in Nat
    BY <1>2 DEF IInv, TypeOK, Event
  <2>2. CASE ReceiveStale
    BY <1>1, <2>1, <2>2 DEF ReceiveStale, Stale, bookVars
  <2>3. CASE ReceiveApplies
    <3>1. lastId' = cur'.last /\ ~ (cur'.first > lastId + 1)
      BY <1>1, <2>3 DEF ReceiveApplies, InSequence, Gap
    <3>2. QED
      BY <2>1, <3>1
  <2>4. QED
    BY <2>2, <2>3
<1>4. Diversions' = Diversions
  BY <1>1 DEF Diversions
<1>5. ASSUME segment, topic[Len(topic)].synced,
             NEW k \in (topic[Len(topic)].last + 1) .. lastId'
      PROVE  Within(k, Diversions) \/ k \in Ids(cur')
  <2>1. topic[Len(topic)].last \in Nat
    <3>1. topic \in Seq(Record) /\ topic # <<>>
      BY <1>5 DEF IInv, TypeOK, HoleInv
    <3>2. topic[Len(topic)] \in Record
      BY <3>1
    <3>3. QED
      BY <3>2 DEF Record
  <2>2. CASE k <= lastId
    <3>1. k \in (topic[Len(topic)].last + 1) .. lastId
      BY <1>3, <2>1, <2>2
    <3>2. QED
      BY <1>1, <1>5, <3>1 DEF HoleInv
  <2>3. CASE k > lastId
    BY <1>3, <2>1, <2>3 DEF Ids
  <2>4. QED
    BY <1>3, <2>1, <2>2, <2>3
<1>6. \A i \in 1 .. (Len(topic) - 1) : Follows(topic[i], topic[i + 1], Diversions)'
  BY <1>1, <1>4 DEF HoleInv, Follows
<1>7. QED
  BY <1>1, <1>3, <1>4, <1>5, <1>6 DEF HoleInv

LEMMA HoleProduced == IInv /\ HoleInv /\ ProduceStep => HoleInv'
<1> SUFFICES ASSUME IInv, HoleInv, ProduceStep PROVE HoleInv'
  OBVIOUS
<1>1. CASE Produced
  <2>1. /\ pc = "producing" /\ topic' = Append(topic, CurRecord)
        /\ UNCHANGED <<dlq, swallowed, lastId>> /\ pc' = "streaming"
    BY <1>1 DEF Produced, bookVars
  <2>2. /\ \A i \in 1 .. (Len(topic') - 1) : Follows(topic'[i], topic'[i + 1], Diversions)
        /\ topic' # <<>> /\ topic'[Len(topic')] = CurRecord
    BY <2>1, HoleAppended
  <2>3. CurRecord.synced => \A k \in (CurRecord.last + 1) .. lastId : FALSE
    <3>1. cur.last \in Nat /\ lastId \in Nat
      BY DEF IInv, TypeOK, Event
    <3>2. CurRecord.last = cur.last /\ CurRecord.synced = (lastId = cur.last)
      BY DEF CurRecord
    <3>3. \A k \in (lastId + 1) .. lastId : FALSE
      BY <3>1
    <3>4. QED
      BY <3>2, <3>3
  <2>4. QED
    <3>1. Diversions' = Diversions
      BY <2>1 DEF Diversions
    <3>2. QED
      BY <2>1, <2>2, <2>3, <3>1 DEF HoleInv
<1>2. CASE ProduceFails
  BY <1>2, HoleUnopened DEF ProduceFails, Fail, Disconnect, kafkaVars
<1>3. CASE ProduceUnacknowledged
  <2>1. /\ pc = "producing" /\ topic' = Append(topic, CurRecord)
        /\ UNCHANGED <<dlq, swallowed>> /\ ~ segment' /\ pc' # "producing"
    BY <1>3 DEF ProduceUnacknowledged, Fail, Disconnect
  <2>2. Diversions' = Diversions
    BY <2>1 DEF Diversions
  <2>3. QED
    BY <2>1, <2>2, HoleAppended DEF HoleInv
<1>4. CASE Diverted
  <2>1. /\ pc = "producing" /\ pc' = "streaming" /\ UNCHANGED <<topic, segment, lastId>>
        /\ dlq' \cup swallowed' = (dlq \cup swallowed) \cup {cur}
    BY <1>4 DEF Diverted, bookVars
  <2>2. \A k : Within(k, Diversions') <=> Within(k, Diversions) \/ k \in Ids(cur)
    BY <2>1 DEF Within, Diversions
  <2>3. QED
    BY <2>1, <2>2 DEF HoleInv, Follows
<1>5. QED
  BY <1>1, <1>2, <1>3, <1>4 DEF ProduceStep

LEMMA HoleKeeps == IInv /\ HoleInv /\ [Next]_vars => HoleInv'
<1> SUFFICES ASSUME IInv, HoleInv, [Next]_vars PROVE HoleInv'
  OBVIOUS
<1>1. CASE ExchangeStep \/ SnapshotStep \/ UNCHANGED vars
  <2>1. UNCHANGED <<topic, dlq, swallowed, pc, cur, segment, lastId>>
    BY <1>1 DEF ExchangeStep, SnapshotStep, ExchangeUpdate, BroadcastDelivered,
                BroadcastMissed, WsCloses, SnapshotArrives, SnapshotFails, bookVars,
                kafkaVars, connVars, vars
  <2>2. QED
    BY <2>1, HoleAside
<1>2. CASE ConnectStep \/ BufferStep \/ ReplayStep
  <2>1. pc \notin {"streaming", "producing"} /\ ~ segment
    BY <1>2 DEF HoleInv, ConnectStep, BufferStep, ReplayStep, Connect, ConnectFails, Wake,
                KeepBuffering, TakeSnapshot, SnapshotError, RecvBuffers, RecvTimesOut,
                RecvRaises, ReplayStale, ReplayGap, ReplayApplies, ReplayDone
  <2>2. UNCHANGED kafkaVars /\ ~ segment' /\ pc' # "producing"
    BY <1>2, <2>1 DEF ConnectStep, BufferStep, ReplayStep, Connect, ConnectFails, Wake,
                KeepBuffering, TakeSnapshot, SnapshotError, RecvBuffers, RecvTimesOut,
                RecvRaises, ReplayStale, ReplayGap, ReplayApplies, ReplayDone, Fail,
                Disconnect, connVars
  <2>3. QED
    BY <2>2, HoleUnopened DEF kafkaVars
<1>3. CASE ReceiveGap \/ StreamEnds \/ StreamBreaks
  <2>1. UNCHANGED kafkaVars /\ ~ segment' /\ pc' # "producing"
    BY <1>3 DEF ReceiveGap, StreamEnds, StreamBreaks, Fail, Disconnect
  <2>2. QED
    BY <2>1, HoleUnopened DEF kafkaVars
<1>4. CASE ReceiveStale \/ ReceiveApplies
  BY <1>4, HoleReceived
<1>5. CASE ProduceStep
  BY <1>5, HoleProduced
<1>6. QED
  BY <1>1, <1>2, <1>3, <1>4, <1>5 DEF Next, ClientStep, StreamStep

(* Within a connection the records of the topic close up, but for the ids   *)
(* of events that could not be serialized: a lost message, a gap or a send  *)
(* that raised always ends the connection before another record is sent.    *)
THEOREM NoHole == Spec => []NoSilentHole
<1>1. Init => HoleInv
  BY DEF Init, HoleInv
<1>2. IInv /\ HoleInv /\ [Next]_vars => HoleInv'
  BY HoleKeeps
<1>3. HoleInv => NoSilentHole
  BY DEF HoleInv, Follows, Within, Diversions, NoSilentHole
<1>4. QED
  BY <1>1, <1>2, <1>3, Invariance, PTL DEF Spec

-----------------------------------------------------------------------------
(* The process around the clients.                                         *)

(* The parts of the state that have to agree for the producer to be empty   *)
(* when the process ends by itself: before the producer has started there   *)
(* is no record and no client, and only StopDone, which waits for all       *)
(* records, leads out of an orderly stop.                                   *)
ServiceInv ==
    /\ ServiceTypeOK
    /\ main = "starting" => sent = {} /\ \A s \in Symbol : client[s] = "none"
    /\ NothingLeftBehind

(* A client's task moves: the producer and _run() stay where they are. *)
TaskStep(s) ==
    Receives(s) \/ ConnectionFails(s) \/ ConnectionEnds(s) \/ Produce(s)
      \/ ProduceRefused(s) \/ Acknowledged(s) \/ SendFails(s)

(* run()'s except clause keeps the counter in its range, as long as the     *)
(* client has not given up: it is only counted beyond RetryLimit once.      *)
Counting == \A s \in Symbol : client[s] # "gave_up" => retried[s] <= RetryLimit

LEMMA ServiceInitInv == ServiceInit => ServiceInv /\ Counting
  BY RetryLimitAssumption DEF ServiceInit, ServiceInv, ServiceTypeOK,
                              NothingLeftBehind, Counting

LEMMA RetryType ==
  ASSUME ServiceTypeOK, Counting, NEW s \in Symbol, client[s] # "gave_up", Retry(s)
  PROVE  /\ client' \in [Symbol -> {"none", "offline", "receiving", "producing",
                                    "gave_up", "cancelled"}]
         /\ retried' \in [Symbol -> 0 .. RetryLimit + 1]
         /\ Counting'
         /\ \A t \in Symbol : client'[t] = "producing" => t # s /\ client[t] = "producing"
  BY RetryLimitAssumption DEF ServiceTypeOK, Counting, Retry

LEMMA TaskStepInv ==
  ASSUME ServiceInv, Counting, NEW s \in Symbol, TaskStep(s)
  PROVE  ServiceInv' /\ Counting'
<1>0. Running /\ UNCHANGED <<main, ended>>
  BY DEF TaskStep, Receives, ConnectionFails, ConnectionEnds, Produce, ProduceRefused,
         Acknowledged, SendFails
<1>1. main' # "starting" /\ NothingLeftBehind'
  BY <1>0 DEF Running, NothingLeftBehind
<1>2. ServiceTypeOK' /\ Counting'
  <2>1. CASE Receives(s)
    BY <2>1, RetryLimitAssumption DEF Receives, ServiceInv, ServiceTypeOK, Counting
  <2>2. CASE ConnectionFails(s)
    <3>1. client[s] # "gave_up" /\ Retry(s) BY <2>2 DEF ConnectionFails
    <3> QED BY <2>2, <3>1, RetryType DEF ConnectionFails, ServiceInv, ServiceTypeOK
  <2>3. CASE ConnectionEnds(s)
    BY <2>3, RetryLimitAssumption DEF ConnectionEnds, ServiceInv, ServiceTypeOK, Counting
  <2>4. CASE Produce(s)
    BY <2>4, RetryLimitAssumption DEF Produce, ServiceInv, ServiceTypeOK, Counting
  <2>5. CASE ProduceRefused(s)
    <3>1. client[s] # "gave_up" /\ Retry(s) BY <2>5 DEF ProduceRefused
    <3> QED BY <2>5, <3>1, RetryType DEF ProduceRefused, ServiceInv, ServiceTypeOK
  <2>6. CASE Acknowledged(s)
    BY <2>6, RetryLimitAssumption DEF Acknowledged, ServiceInv, ServiceTypeOK, Counting
  <2>7. CASE SendFails(s)
    <3>1. CASE client[s] = "producing"
      <4>1. client[s] # "gave_up" /\ Retry(s) BY <2>7, <3>1 DEF SendFails
      <4> QED BY <2>7, <4>1, RetryType DEF SendFails, ServiceInv, ServiceTypeOK
    <3>2. CASE client[s] # "producing"
      BY <2>7, <3>2, RetryLimitAssumption DEF SendFails, ServiceInv, ServiceTypeOK, Counting
    <3> QED BY <3>1, <3>2
  <2> QED BY <2>1, <2>2, <2>3, <2>4, <2>5, <2>6, <2>7 DEF TaskStep
<1> QED BY <1>1, <1>2 DEF ServiceInv

LEMMA ServiceNextInv ==
  ASSUME ServiceInv, Counting, [ServiceNext]_serviceVars
  PROVE  ServiceInv' /\ Counting'
<1> USE DEF ServiceInv, ServiceTypeOK, NothingLeftBehind, Counting
<1>1. CASE ProducerStarts BY <1>1, RetryLimitAssumption DEF ProducerStarts
<1>2. CASE ProducerStartFails BY <1>2 DEF ProducerStartFails
<1>3. ASSUME NEW s \in Symbol, TaskStep(s) PROVE ServiceInv' /\ Counting'
  BY <1>3, TaskStepInv
<1>4. CASE GatherRaises BY <1>4 DEF GatherRaises
<1>5. CASE Interrupt BY <1>5, RetryLimitAssumption DEF Interrupt
<1>6. CASE Kill BY <1>6 DEF Kill
<1>7. CASE FlushDone BY <1>7 DEF FlushDone
<1>8. CASE StopDone BY <1>8 DEF StopDone
<1>9. CASE Restart BY <1>9, RetryLimitAssumption DEF Restart
<1>10. CASE UNCHANGED serviceVars BY <1>10 DEF serviceVars
<1> QED
  BY <1>1, <1>2, <1>3, <1>4, <1>5, <1>6, <1>7, <1>8, <1>9, <1>10 DEF ServiceNext, TaskStep

(* The types, and no record for which its client waits in vain. *)
THEOREM ServiceTypes == ServiceSpec => []ServiceTypeOK
<1>1. ServiceInv /\ Counting => ServiceTypeOK BY DEF ServiceInv
<1> QED BY ServiceInitInv, ServiceNextInv, <1>1, PTL DEF ServiceSpec

(* A process that ends by an exception or by Ctrl-C leaves no record in the *)
(* producer, however many clients produce on while it stops.                *)
THEOREM OrderlyEndIsEmpty == ServiceSpec => []NothingLeftBehind
<1>1. ServiceInv /\ Counting => NothingLeftBehind BY DEF ServiceInv
<1> QED BY ServiceInitInv, ServiceNextInv, <1>1, PTL DEF ServiceSpec
=============================================================================
