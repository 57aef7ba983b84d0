---------------------------- MODULE IngestClient ----------------------------
(***************************************************************************)
(* One BinanceOrderBookClient (ingest/src/ingest/client.py) with its       *)
(* OrderBook and the KafkaOrderBookProducer it awaits, against the         *)
(* exchange: a websocket that broadcasts diff events, a REST endpoint that *)
(* serves a depth snapshot, and the Kafka broker.                          *)
(*                                                                         *)
(* Covered: connecting, buffering while the snapshot is fetched, replaying *)
(* the buffer, streaming with gap detection, every outcome of produce(),   *)
(* both ways a websocket closes, backoff and giving up.                    *)
(* Not covered: cancellation at shutdown, wall-clock length of a backoff,  *)
(* the fields of a message other than its update ids and its levels.       *)
(***************************************************************************)
EXTENDS OrderBook, Sequences, FiniteSets

CONSTANTS MaxRetries,     \* _MAX_RETRIES
          SnapshotDepth,  \* levels a side a snapshot is asked for (limit=1000)
          Ahead,          \* <<k, l>>: k is a better price than l, on the same side
          MaxId           \* bound of the checks: last update id of the exchange

ASSUME RetriesAssumption == MaxRetries \in Nat
ASSUME SnapshotAssumption == SnapshotDepth \in Nat /\ Ahead \subseteq Level \X Level
ASSUME MaxIdAssumption == MaxId \in Nat

VARIABLES
    hist,       \* exchange: hist[i] is the book after update id i
    emitted,    \* exchange: last update id broadcast on the diff stream
    ws,         \* state of the websocket: "none", "open", "closed_ok", "closed_err"
    wsq,        \* messages received by the websocket library, not yet read
    pc,         \* where the coroutine run() is suspended
    retries,    \* run(): retries
    snap,       \* _initialize_book(): snapshot_task
    buffer,     \* _initialize_book(): buffer
    cur,        \* _run_once(): event, while produce() is awaited
    book,       \* OrderBook.bids and OrderBook.asks
    lastId,     \* OrderBook.last_update_id
    topic,      \* market.raw.orderbook, the partition of this symbol
    dlq,        \* events written to market.dlq
    swallowed,  \* history: events whose write to the DLQ failed and was only logged
    segment     \* history: this connection has a record in the topic

exchangeVars == <<hist, emitted>>
connVars     == <<ws, wsq, snap, buffer, cur, segment>>
bookVars     == <<book, lastId>>
kafkaVars    == <<topic, dlq, swallowed>>
vars == <<exchangeVars, connVars, bookVars, kafkaVars, pc, retries>>

Event   == [first : Nat, last : Nat]
NoEvent == [first |-> 0, last |-> 0]

(* A record of the topic: the ids of the event; "synced" and "opens" are   *)
(* history: the book stood at this event when it was produced, the record  *)
(* is the first of its connection.                                         *)
Record == [first : Nat, last : Nat, synced : BOOLEAN, opens : BOOLEAN]

Snapshot == [st : {"none", "pending", "failed", "ok"}, id : Nat]
NoSnapshot == [st |-> "none", id |-> 0]

(***************************************************************************)
(* The levels an event carries: those whose quantity changed over the      *)
(* updates it covers, with the quantity at the last of them.  The payload  *)
(* follows from the ids, so events hold the ids only.                      *)
(***************************************************************************)
Payload(e) ==
    LET touched == {l \in Level : \E k \in (e.first - 1) .. e.last :
                        QtyAt(hist[k], l) # QtyAt(hist[e.last], l)}
    IN  [l \in touched |-> QtyAt(hist[e.last], l)]

(* The levels of a book that a snapshot of it carries: the best ones of each *)
(* side, as many as the request asks for.                                    *)
InSnapshot(b, l) ==
    l \in DOMAIN b /\ Cardinality({k \in DOMAIN b : <<k, l>> \in Ahead}) < SnapshotDepth

(* What GET /api/v3/depth says of book b. *)
SnapshotOf(b) == [l \in {k \in Level : InSnapshot(b, k)} |-> b[l]]

-----------------------------------------------------------------------------
(* Initial state: run() is called, the exchange has an empty book at id 1. *)

Init ==
    /\ hist = <<EmptyBook>>
    /\ emitted = 1
    /\ ws = "none"
    /\ wsq = <<>>
    /\ pc = "connecting"
    /\ retries = 0
    /\ snap = NoSnapshot
    /\ buffer = <<>>
    /\ cur = NoEvent
    /\ book = EmptyBook
    /\ lastId = 0
    /\ topic = <<>>
    /\ dlq = {}
    /\ swallowed = {}
    /\ segment = FALSE

-----------------------------------------------------------------------------
(* The exchange and the network.                                           *)

(* The exchange's book with quantity q at level l. *)
Quoted(b, l, q) ==
    LET qty == [k \in Level |-> IF k = l THEN q ELSE QtyAt(b, k)]
    IN  [k \in {k \in Level : qty[k] # 0} |-> qty[k]]

(* The matching engine changes one level; its book gets the next id. *)
ExchangeUpdate ==
    /\ Len(hist) < MaxId
    /\ \E l \in Level, q \in Qty \cup {0} :
          /\ q # QtyAt(hist[Len(hist)], l)
          /\ hist' = Append(hist, Quoted(hist[Len(hist)], l, q))
    /\ UNCHANGED <<emitted, connVars, bookVars, kafkaVars, pc, retries>>

NextEvent == [first |-> emitted + 1, last |-> Len(hist)]

(* The diff of everything since the last broadcast reaches the websocket.  *)
BroadcastDelivered ==
    /\ emitted < Len(hist)
    /\ ws = "open"
    /\ emitted' = Len(hist)
    /\ wsq' = Append(wsq, NextEvent)
    /\ UNCHANGED <<hist, ws, snap, buffer, cur, segment, bookVars, kafkaVars, pc, retries>>

(* It does not: no connection, a message lost, or a message _parse_event   *)
(* rejects (it is logged and skipped, which is the same to the client).    *)
BroadcastMissed ==
    /\ emitted < Len(hist)
    /\ emitted' = Len(hist)
    /\ UNCHANGED <<hist, connVars, bookVars, kafkaVars, pc, retries>>

(* The other end closes the websocket, cleanly (Binance does so every 24 h) *)
(* or not.  What was received before can still be read.                     *)
WsCloses ==
    /\ ws = "open"
    /\ ws' \in {"closed_ok", "closed_err"}
    /\ UNCHANGED <<exchangeVars, wsq, snap, buffer, cur, segment, bookVars,
                   kafkaVars, pc, retries>>

(* GET /api/v3/depth answers with the best levels of the book at some id,  *)
(* maybe an old one; snap keeps the id, SnapshotOf says what it carries.   *)
SnapshotArrives ==
    /\ snap.st = "pending"
    /\ \E s \in 1 .. Len(hist) : snap' = [st |-> "ok", id |-> s]
    /\ UNCHANGED <<exchangeVars, ws, wsq, buffer, cur, segment, bookVars,
                   kafkaVars, pc, retries>>

(* It times out (_SNAPSHOT_TIMEOUT), is refused, or does not validate.     *)
SnapshotFails ==
    /\ snap.st = "pending"
    /\ snap' = [st |-> "failed", id |-> 0]
    /\ UNCHANGED <<exchangeVars, ws, wsq, buffer, cur, segment, bookVars,
                   kafkaVars, pc, retries>>

-----------------------------------------------------------------------------
(* run(): leaving the connection.                                          *)

(* Leaving "async with websockets.connect": the socket, the snapshot task, *)
(* the OrderBook and everything read but not handled are gone.             *)
Disconnect ==
    /\ ws' = "none"
    /\ wsq' = <<>>
    /\ snap' = NoSnapshot
    /\ buffer' = <<>>
    /\ cur' = NoEvent
    /\ segment' = FALSE
    /\ book' = EmptyBook
    /\ lastId' = 0

(* Mutant of Fail: the failed attempt is not counted. *)
FailUncounted ==
    /\ retries' = retries
    /\ pc' = IF retries + 1 > MaxRetries THEN "gave_up" ELSE "backoff"
    /\ Disconnect

(* The except clause of run(): count, give up past the limit, or back off. *)
Fail ==
    /\ retries' = retries + 1
    /\ pc' = IF retries + 1 > MaxRetries THEN "gave_up" ELSE "backoff"
    /\ Disconnect

(* asyncio.sleep(backoff) returns. *)
Wake ==
    /\ pc = "backoff"
    /\ pc' = "connecting"
    /\ UNCHANGED <<exchangeVars, connVars, bookVars, kafkaVars, retries>>

-----------------------------------------------------------------------------
(* _run_once() and _initialize_book().                                     *)

Connect ==
    /\ pc = "connecting"
    /\ ws' = "open"
    /\ snap' = [st |-> "pending", id |-> 0]
    /\ pc' = "check"
    /\ UNCHANGED <<exchangeVars, wsq, buffer, cur, segment, bookVars, kafkaVars, retries>>

ConnectFails ==
    /\ pc = "connecting"
    /\ Fail
    /\ UNCHANGED <<exchangeVars, kafkaVars>>

(* "while not snapshot_task.done()": still pending, wait for a message. *)
KeepBuffering ==
    /\ pc = "check"
    /\ snap.st = "pending"
    /\ pc' = "recv"
    /\ UNCHANGED <<exchangeVars, connVars, bookVars, kafkaVars, retries>>

(* The task is done: "await snapshot_task" returns, initialize() starts.   *)
TakeSnapshot ==
    /\ pc = "check"
    /\ snap.st = "ok"
    /\ book' = SnapshotOf(hist[snap.id])
    /\ lastId' = snap.id
    /\ pc' = "replay"
    /\ UNCHANGED <<exchangeVars, connVars, kafkaVars, retries>>

(* The task is done with an exception: "await snapshot_task" raises it. *)
SnapshotError ==
    /\ pc = "check"
    /\ snap.st = "failed"
    /\ Fail
    /\ UNCHANGED <<exchangeVars, kafkaVars>>

RecvBuffers ==
    /\ pc = "recv"
    /\ wsq # <<>>
    /\ buffer' = Append(buffer, Head(wsq))
    /\ wsq' = Tail(wsq)
    /\ pc' = "check"
    /\ UNCHANGED <<exchangeVars, ws, snap, cur, segment, bookVars, kafkaVars, retries>>

(* Mutant of RecvTimesOut: a plain "await ws.recv()". *)
RecvNeverTimesOut == FALSE /\ UNCHANGED vars

(* Nothing within _RECV_POLL_TIMEOUT: look at the task again. *)
RecvTimesOut ==
    /\ pc = "recv"
    /\ wsq = <<>> /\ ws = "open"
    /\ pc' = "check"
    /\ UNCHANGED <<exchangeVars, connVars, bookVars, kafkaVars, retries>>

(* recv() raises ConnectionClosed, after a clean close too.                *)
RecvRaises ==
    /\ pc = "recv"
    /\ wsq = <<>> /\ ws # "open"
    /\ Fail
    /\ UNCHANGED <<exchangeVars, kafkaVars>>

(* OrderBook.initialize(): one step per turn of its loop.  The loop has no *)
(* await; only the exchange and the network can move between its steps,    *)
(* and they touch none of its variables.                                   *)
ReplayStale ==
    /\ pc = "replay"
    /\ buffer # <<>>
    /\ Stale(Head(buffer), lastId)
    /\ buffer' = Tail(buffer)
    /\ UNCHANGED <<exchangeVars, ws, wsq, snap, cur, segment, bookVars, kafkaVars, pc, retries>>

ReplayGap ==
    /\ pc = "replay"
    /\ buffer # <<>>
    /\ Gap(Head(buffer), lastId)
    /\ Fail
    /\ UNCHANGED <<exchangeVars, kafkaVars>>

ReplayApplies ==
    /\ pc = "replay"
    /\ buffer # <<>>
    /\ InSequence(Head(buffer), lastId)
    /\ book' = ApplyDiff(book, Payload(Head(buffer)))
    /\ lastId' = Head(buffer).last
    /\ buffer' = Tail(buffer)
    /\ UNCHANGED <<exchangeVars, ws, wsq, snap, cur, segment, kafkaVars, pc, retries>>

ReplayDone ==
    /\ pc = "replay"
    /\ buffer = <<>>
    /\ pc' = "streaming"
    /\ UNCHANGED <<exchangeVars, connVars, bookVars, kafkaVars, retries>>

-----------------------------------------------------------------------------
(* _run_once(): the "async for raw in ws" loop, up to the await of produce. *)

(* apply() returns early on a stale event; the event is produced all the same. *)
ReceiveStale ==
    /\ pc = "streaming"
    /\ wsq # <<>>
    /\ Stale(Head(wsq), lastId)
    /\ cur' = Head(wsq)
    /\ wsq' = Tail(wsq)
    /\ pc' = "producing"
    /\ UNCHANGED <<exchangeVars, ws, snap, buffer, segment, bookVars, kafkaVars, retries>>

ReceiveApplies ==
    /\ pc = "streaming"
    /\ wsq # <<>>
    /\ InSequence(Head(wsq), lastId)
    /\ book' = ApplyDiff(book, Payload(Head(wsq)))
    /\ lastId' = Head(wsq).last
    /\ cur' = Head(wsq)
    /\ wsq' = Tail(wsq)
    /\ pc' = "producing"
    /\ UNCHANGED <<exchangeVars, ws, snap, buffer, segment, kafkaVars, retries>>

(* Mutant of ReceiveGap: the same event is applied again and again. *)
GapRetried ==
    /\ pc = "streaming"
    /\ wsq # <<>>
    /\ Gap(Head(wsq), lastId)
    /\ UNCHANGED vars

(* apply() raises GapDetectedError; the event is neither applied nor produced. *)
ReceiveGap ==
    /\ pc = "streaming"
    /\ wsq # <<>>
    /\ Gap(Head(wsq), lastId)
    /\ Fail
    /\ UNCHANGED <<exchangeVars, kafkaVars>>

(* The iterator ends on a clean close: _run_once() returns, retries is reset *)
(* and the loop of run() connects again at once.                             *)
StreamEnds ==
    /\ pc = "streaming"
    /\ wsq = <<>> /\ ws = "closed_ok"
    /\ retries' = 0
    /\ pc' = "connecting"
    /\ Disconnect
    /\ UNCHANGED <<exchangeVars, kafkaVars>>

StreamBreaks ==
    /\ pc = "streaming"
    /\ wsq = <<>> /\ ws = "closed_err"
    /\ Fail
    /\ UNCHANGED <<exchangeVars, kafkaVars>>

-----------------------------------------------------------------------------
(* KafkaOrderBookProducer.produce().                                        *)

(* The record of the event in hand. *)
CurRecord == [first |-> cur.first, last |-> cur.last,
              synced |-> lastId = cur.last, opens |-> ~ segment]

Produced ==
    /\ pc = "producing"
    /\ topic' = Append(topic, CurRecord)
    /\ segment' = TRUE
    /\ cur' = NoEvent
    /\ pc' = "streaming"
    /\ UNCHANGED <<exchangeVars, ws, wsq, snap, buffer, bookVars, dlq, swallowed, retries>>

(* Mutant of ProduceFails: the error is swallowed, as _send_to_dlq() does. *)
ProduceErrorSwallowed ==
    /\ pc = "producing"
    /\ cur' = NoEvent
    /\ pc' = "streaming"
    /\ UNCHANGED <<exchangeVars, ws, wsq, snap, buffer, segment, bookVars, kafkaVars, retries>>

(* send_and_wait() raises and the broker has not got the record ...         *)
ProduceFails ==
    /\ pc = "producing"
    /\ Fail
    /\ UNCHANGED <<exchangeVars, kafkaVars>>

(* Mutant of ProduceUnacknowledged: produce() tries the same event again. *)
ProduceRetried ==
    /\ pc = "producing"
    /\ Len(topic) < 2 * MaxId
    /\ topic' = Append(topic, CurRecord)
    /\ UNCHANGED <<exchangeVars, connVars, bookVars, dlq, swallowed, pc, retries>>

(* ... or it has, and only the acknowledgement was lost.                     *)
ProduceUnacknowledged ==
    /\ pc = "producing"
    /\ topic' = Append(topic, CurRecord)
    /\ Fail
    /\ UNCHANGED <<exchangeVars, dlq, swallowed>>

(* model_dump_json() raises: the event goes to the DLQ and produce() returns *)
(* as if nothing had happened.  _send_to_dlq() swallows its own errors.      *)
Diverted ==
    /\ pc = "producing"
    /\ \/ dlq' = dlq \cup {cur} /\ UNCHANGED swallowed
       \/ swallowed' = swallowed \cup {cur} /\ UNCHANGED dlq
    /\ cur' = NoEvent
    /\ pc' = "streaming"
    /\ UNCHANGED <<exchangeVars, ws, wsq, snap, buffer, segment, bookVars, topic, retries>>

-----------------------------------------------------------------------------
ExchangeStep == ExchangeUpdate \/ BroadcastDelivered \/ BroadcastMissed \/ WsCloses

SnapshotStep == SnapshotArrives \/ SnapshotFails

ConnectStep == Connect \/ ConnectFails \/ Wake

BufferStep == KeepBuffering \/ TakeSnapshot \/ SnapshotError
                \/ RecvBuffers \/ RecvTimesOut \/ RecvRaises

ReplayStep == ReplayStale \/ ReplayGap \/ ReplayApplies \/ ReplayDone

StreamStep == ReceiveStale \/ ReceiveApplies \/ ReceiveGap \/ StreamEnds \/ StreamBreaks

ProduceStep == Produced \/ ProduceFails \/ ProduceUnacknowledged \/ Diverted

(* The coroutine: one thread of control, pc says where it is suspended. *)
ClientStep == ConnectStep \/ BufferStep \/ ReplayStep \/ StreamStep \/ ProduceStep

Next == ExchangeStep \/ SnapshotStep \/ ClientStep

Spec == Init /\ [][Next]_vars

(***************************************************************************)
(* The event loop runs the coroutine whenever it can go on: connect() and  *)
(* sleep() return, recv() is bounded by _RECV_POLL_TIMEOUT, send_and_wait() *)
(* by request_timeout_ms.  The snapshot request is a task of its own,      *)
(* bounded by _SNAPSHOT_TIMEOUT.  Nothing is assumed of the exchange.       *)
(***************************************************************************)
FairSpec == Spec /\ WF_vars(ClientStep) /\ WF_vars(SnapshotStep)
-----------------------------------------------------------------------------
(* Properties.                                                              *)

PC == {"connecting", "check", "recv", "replay", "streaming", "producing",
       "backoff", "gave_up"}

(* Every variable has the type the code gives it; retries passes the limit  *)
(* by one, in the state in which run() raises.                              *)
TypeOK ==
    /\ hist \in Seq(Book) /\ hist # <<>>
    /\ emitted \in 1 .. Len(hist)
    /\ ws \in {"none", "open", "closed_ok", "closed_err"}
    /\ wsq \in Seq(Event)
    /\ pc \in PC
    /\ retries \in 0 .. (MaxRetries + 1)
    /\ snap \in Snapshot
    /\ buffer \in Seq(Event)
    /\ cur \in Event
    /\ book \in Book
    /\ lastId \in Nat
    /\ topic \in Seq(Record)
    /\ dlq \in SUBSET Event
    /\ swallowed \in SUBSET Event
    /\ segment \in BOOLEAN

(* Level l was too deep for the snapshot and no update has touched it since: *)
(* the client knows nothing of it.                                           *)
BeyondSnapshot(l) ==
    /\ l \in DOMAIN hist[snap.id] /\ ~ InSnapshot(hist[snap.id], l)
    /\ \A k \in snap.id .. lastId : QtyAt(hist[k], l) = QtyAt(hist[snap.id], l)
    /\ l \notin DOMAIN book

(* From the snapshot on, the local book is the book the exchange had at the *)
(* update id the client believes it has reached, but for the levels that    *)
(* were too deep for the snapshot, which it lacks until an update touches   *)
(* them: dropping stale diffs and refusing gaps is enough, whatever was     *)
(* lost and however old the snapshot.                                       *)
BookMatchesExchange ==
    pc \in {"replay", "streaming", "producing"} =>
        /\ lastId \in 1 .. Len(hist)
        /\ \A l \in Level : QtyAt(book, l) = QtyAt(hist[lastId], l) \/ BeyondSnapshot(l)

(* The topic never repeats or reorders an update id of the symbol, across   *)
(* reconnections and unacknowledged sends, so event_id is a key.            *)
TopicStrictlyOrdered ==
    \A i, j \in 1 .. Len(topic) : i < j => topic[i].last < topic[j].last

(* The update ids of an event or record. *)
Ids(e) == e.first .. e.last

(* Within a connection, once the book stands at a produced event, the next   *)
(* record follows it without a hole, unless the ids between are those of     *)
(* events whose serialization failed: a lost message, a gap or a failed send *)
(* always ends the connection.                                               *)
NoSilentHole ==
    \A i \in 1 .. (Len(topic) - 1) :
        topic[i].synced /\ ~ topic[i + 1].opens =>
            \A k \in (topic[i].last + 1) .. (topic[i + 1].first - 1) :
                \E e \in dlq \cup swallowed : k \in Ids(e)

(* While a connection lasts the book only moves forward.                     *)
BookNeverRewinds ==
    [][(pc \in {"replay", "streaming", "producing"} /\ ws' # "none") =>
            lastId' >= lastId]_vars

(* Buffering ends, even on a symbol with no traffic: the snapshot task is    *)
(* looked at again after every poll timeout.                                 *)
BufferingEnds == pc \in {"check", "recv"} ~> pc \notin {"check", "recv"}

(* A message received is handled, or the connection it came on is dropped.   *)
ReceivedIsHandled == pc \in {"streaming", "producing"} /\ wsq # <<>> ~> wsq = <<>>

(* After a failure the client connects again, or it has spent its retries.   *)
FailureIsAnswered == pc = "backoff" ~> pc \in {"check", "gave_up"}

(* client.py: "produces every valid diff event to Kafka".  Every update the  *)
(* book has taken from a diff since the snapshot is in the topic, or was     *)
(* diverted.                                                                 *)
EveryValidDiffProduced ==
    pc = "streaming" =>
        \A k \in (snap.id + 1) .. lastId :
            \/ \E i \in 1 .. Len(topic) : k \in Ids(topic[i])
            \/ \E e \in dlq \cup swallowed : k \in Ids(e)
=============================================================================
