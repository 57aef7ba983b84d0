# TickSense: TLA+ models and proofs

TickSense takes Binance order-book diffs into Kafka, normalizes them with Flink
into Iceberg tables, and serves them from Trino through an API. This directory
holds TLA+ models of its stateful parts, the TLC configurations that check
them, and TLAPS proofs of their main properties. Paths below are relative to
the repository root.

## 1. Inventory

| Component | State | Operations | Talks to |
|---|---|---|---|
| Order book (`ingest/.../orderbook.py`) | bids, asks, `last_update_id` | `initialize`, `apply`, `_apply` | called by the client |
| Ingest client (`client.py`) | websocket, snapshot task, buffer, `retries`, an `OrderBook` | `run`, `_run_once`, `_initialize_book`, `_fetch_snapshot` | Binance websocket and REST; awaits the producer |
| Kafka producer (`producer.py`) | one `AIOKafkaProducer` for all clients | `produce`, `_send_to_dlq`, `start`, `stop` | `market.raw.orderbook`, `market.dlq` |
| Ingest service (`main.py`) | the gathered clients | `_run` | clients, producer |
| Normalize job (`flink/jobs/normalize.py`, `sql/normalize/`) | keyed state `book`, `last_update_id`; source offset; sink buffers; checkpoints | `process_element`, checkpoint, restore | raw topic -> `normalized.book_ticker` (Iceberg and Kafka) |
| OHLCV job (`ohlcv_1m.py`, `sql/ohlcv_1m/`) | windows, watermark | tumbling aggregation | ticker topic -> `normalized.ohlcv_1m` |
| CDC job (`cdc_symbol_config.py`) | two consumer positions | bronze append, normalized upsert | Debezium topic -> two Iceberg tables |
| SQL runner (`flink_lib/sql_runner.py`) | none | `split_statements` | Flink |
| Replay (`replay/`) | offset ranges, budget | `read_offset_range`, `_kafka_time_offset_ranges`, `_replay_partition`, `run_replay` | Iceberg, raw topic (read and written) |
| API (`api/`) | read model, `ready`, cold cache | polls, request handlers | Trino |
| Spark, Airflow | none of their own | backfill, compaction, checks | Iceberg, Trino |
| dbt | views | freshness, health, spread | Trino |

The hard behaviours: a snapshot request racing a diff stream; lost messages and
closed connections at any await; a produce whose outcome is unknown; a crash
between the steps of a checkpoint and of a two-phase commit; at-least-once
topics under stateful readers; decisions by wall clock that a restore repeats;
a replay that writes to the topic it reads; a read model and a cache filled
after an await. `PROJECT.json` lists them under "hazards", each at its line.

What makes each part correct:

* order book, ingest client: the local book is the exchange's, as deep as the snapshot
  was; the topic is
  ordered, unique and without silent holes; the coroutine always goes on.
* ingest service: what was handed to the producer is delivered or fails before
  the process ends by itself; a symbol whose client gave up comes back.
* normalize job: the silver table is a function of a prefix of the raw topic,
  one row per update id; every record is accounted for.
* OHLCV job: a window has one bar, and every tick is in one bar, in an open
  window or late; bars appear.
* CDC job: each table stands for a prefix of the topic; the current-state table
  is the source table at some moment and becomes what it is; the bronze log
  re-derives it.
* SQL runner: statements are cut at the semicolons that are delimiters, and none is a
  comment only.
* replay: each record of the window once and in order, never one of its own
  copies, others never; it ends.
* API: a reader sees one poll's objects, whole, never an older one after a newer,
  and in the end the last; the cold cache does not hold on to an old answer.

## 2. Modules

    OrderBook ----- IngestClient ----- Ingest_proofs ----- IngestService
        |                 \----------- MCIngestClient
      Ticker --- TickerTable (abstract)
           \         | instantiated by
            NormalizeJob ----- NormalizeJob_proofs
                   \---------- MCNormalizeJob

    CdcTables (abstract) --- CdcSymbolConfig ----- CdcSymbolConfig_proofs
                 \__ instantiated by __/  \------- MCCdcSymbolConfig

    Lemmas --- NormalizeJob_proofs, Replay_proofs, OhlcvJob_proofs,
               CdcSymbolConfig_proofs, SqlRunner_proofs

    ReadModel ----- ReadModel_proofs
         \--------- MCReadModel
    Replay ----- Replay_proofs
        \------- MCReplay
    OhlcvJob ----- OhlcvJob_proofs
        \--------- MCOhlcvJob
    SqlRunner ----- SqlRunner_proofs

**OrderBook** is what both books share: a book is a function from the levels
present to their quantity, `ApplyDiff` sets or deletes the levels of a diff, and
`Stale` and `Gap` are the two tests of `apply()`. A level is a pair of side and
price string in the code; the ingest client never looks inside, so here it is
any value of the constant `Level`.

**IngestClient** is one `BinanceOrderBookClient` with the exchange beside it.
`hist` is the exchange's book after every update id, which the code never sees
and the properties refer to. An event carries only its first and last update id:
its levels follow from `hist` (`Payload`: each level whose quantity changed, with
the last quantity). `pc` says at which await the coroutine is suspended; the
table gives the correspondence. Between two awaits the code runs alone, except
that the buffer replay is split into one step per event, which only makes the
model larger.

| `pc` | Code |
|---|---|
| connecting | `async with websockets.connect` |
| check, recv | the buffering loop: the `snapshot_task.done()` test, and `wait_for(recv)` |
| replay | the loop of `OrderBook.initialize` |
| streaming | `async for raw in ws` |
| producing | `await producer.produce(...)` |
| backoff, gave_up | `asyncio.sleep(backoff)`, and the `raise` past `_MAX_RETRIES` |

`_MAX_RETRIES` is the constant `MaxRetries`. The backoff length is not modelled.
A message `_parse_event` rejects is one that never came (`BroadcastMissed`).
The exchange, the network and the broker are external: a broadcast covers all
updates since the last one; a snapshot is of the book at any id so far, the oldest
included, and carries the best `SnapshotDepth` levels of each side (`SnapshotOf`): the
client asks for `limit=1000`. `Ahead` says which of two levels of a side has the better
price. A deeper level is missing from the local book until a diff touches it
(`BeyondSnapshot`), so `BookMatchesExchange` is about each level: it is the
exchange's, or it was beyond the snapshot, is untouched since, and is absent. A
websocket closes cleanly or not at any moment, what was received remaining readable; a
produce is acknowledged, fails without effect, or fails with the record written.

**Ticker** adds sides and numeric prices, `BestBid`, `BestAsk`, and the job's
`ApplyDepthDiff`. **NormalizeJob** is Flink job 1 for one key. `DropDuplicate`,
`DropLate` and `Apply` are the paths of `process_element`; `BadRecordFails` is
the exception of `_kafka_key`. `Barrier`, `Complete` and `Commit` are the three
moments of a checkpoint as Flink's two-phase Iceberg sink has them, `Lose` what a
failure takes away, `Restore` the restart from the last completed checkpoint,
where the Iceberg committer consults the checkpoint id in the table's metadata.
The Kafka sink sends in the background and flushes at a barrier: that is the
default at-least-once guarantee, since `sink_kafka.sql` sets none. Flink itself
is external and modelled from how the job configures it. The table is a bag of rows,
as an append of data files that are already in it would repeat their rows
(`WithFiles`), and `OneRowPerUpdate` counts them. A record keeps the time at which it
was appended (`at`) besides its event time, which tells what was late on arrival.

**TickerTable** is what the silver table promises, without crashes or sinks: it
stands for a prefix of the log and moves to a longer prefix in one step. The records
that a move leaves out as late are tied to the clock (`LateSets`): each is older than
the threshold by then, and those that were when they arrived are among them; between
the two it is the attempt that decides. NormalizeJob implements it
(`ImplementsTickerTable`), the prefix being the one of the last commit, which the history
variable `committed` records.

**Replay** is one run of the CLI beside a growing topic. `pc` follows
`run_replay()`: `lookup`, `start_times` and `end_times` are the Iceberg scan and
the two Kafka requests, between which records arrive; `next` is the loop over
partitions, `reading` the `async for` of `_replay_partition`, whose two stop
conditions (`PastEnd`, `Spent`) need a record in hand (`HasRecord`). The counters are
the code's: `total` is `stats.events_read`, `read` the `events_read` of the current
partition, `remaining` the limit it was given, and `total` grows when a partition is
done. `stopping` and `raising` are the two ways into `producer.stop()`. The producer's
sender task runs on its own (`Delivered`, `DeliveryFails`), because the code drops the future
of `send()`. A copy goes to the source topic if that is the target, and is then
read like any other record. `taken` is what was read, `wanted` what the lookup is to
cover: the rows of the scan, or the records of the window that are in the topic at the
second Kafka request, those appended since the first included. A partition for which
the first request found no record from `start_ts` on is passed over by the code
(`replay/producer.py:123-126`) and is not in `wanted`. `MaxOffset` stands for `2**63 - 1`. Commits of the
normalize job after the lookup are left out, as the run does not see them.

**IngestService** is the process around the clients: `main` is where `_run()`
is (starting the producer, in `gather()`, in `flush()`, in `AIOKafkaProducer.stop()`,
ended), `client[s]` a client seen from outside, and `sent` the records the shared
producer has not settled. `GatherRaises` is the first exception, after which the
other tasks run on: `flush()` waits for the records there when it was called
(`flushing`), `stop()` closes the accumulator and waits for the rest. `Kill` is
SIGTERM, for which the process has no handler, and every other sudden end;
`Restart` is the container's restart policy.

**OhlcvJob** is Flink job 2 for one symbol. `Consume` is a record reaching the
window operator, filtered without a `mid_price` and dropped behind the watermark;
`EmitWatermark` is the watermark of the slowest partition moving and the windows it
passes firing; `Barrier`, `Complete`, `Commit`, `Crash` and `Restore` are as in
NormalizeJob, but the barrier cuts the whole job at one point. Job 1 is its
environment: a tick may go to any partition, since `sink_kafka.sql` sets no key,
and may be produced again (`ProduceAgain`). A bar is the set of records it is made
of, `late` a history of what was dropped.

**CdcSymbolConfig** is the path from the Postgres table to two Iceberg tables.
`hist` holds the states of the source table; the connector takes a snapshot row by
row, then emits one event per change, and may be restarted and repeat some. The
job reads the topic twice: `FlatMap` is `CdcEnvelopeProcessor`, `ReadChangelog`
the debezium-json source. The two paths have offsets of their own and one
checkpoint, whose barrier passes them at different moments (`passed`); each Iceberg
sink commits by itself and asks its table after a restart (`pending` are the paths
whose table does not have the last completed checkpoint). A data file is the
offsets of the records it holds, `written` the files since the path's last
barrier. **CdcTables** says what the
two tables promise without any of that: each stands for a prefix of the topic and
moves to a longer one in one step. CdcSymbolConfig implements it
(`ImplementsCdcTables`) under the identity mapping, `upto` being a history variable.

**ReadModel** is the API process. One event loop runs it, so an action is what
runs between two awaits: a query is asked, answered by Trino with the marts of that
moment (or fails, or brings a row that does not validate), and its coroutine goes on
later. `pc` is where `run_poller()` is; `polls[k]` are the polls of a kind under
way, a sequence so that the model itself would allow two. `Get` is what the
handlers answer. Rows are the version of the marts they were read from, time is in
sleeps of 30 s. The instance runs two of the four polls, one of every cycle and one
with an interval; the other two differ from the latter in nothing but the field.

**SqlRunner** is `split_statements()` as an operator on texts, character by
character, since here the characters are the behaviour. The scanner is the rounds of
its loop (`Scan`), with the searches forward and, for literals, the loop inside it
(`NextInLiteral`), as recursive functions. The reference, `StatementsBetween`, has what
lies between the semicolons read as code (`Delimiters`), by a mode that each character
moves on (`Modes`), and tells code from comments by the same modes (`HasCode`). With
the scanner it shares `Strip` only. A block without code is what the docstring calls
comment-only; the code keeps one if a block comment is in it, so the passing run says that
what has code is handed over whole and in order (`WithCode`) and what is only line
comments is not (`MoreThanLineComments`), and `CommentBlocksFiltered` is what fails.

## 3. Runs

| Run | Instance | Shows |
|---|---|---|
| `ingest` | 2 levels of a side, a snapshot of 1, 1 quantity, 1 retry, 4 update ids; 395 thousand states | `BookMatchesExchange`, `TopicStrictlyOrdered`, `NoSilentHole`, `BookNeverRewinds`, `BufferingEnds`, `ReceivedIsHandled`, `FailureIsAnswered` |
| `ingest_every_diff` | violated | diffs buffered during the snapshot fetch never reach the topic |
| `normalize` | 3 records of 2 diffs, a replayed copy, a bad record, a tick of lateness, 2 crashes; 672 thousand states | `OneRowPerUpdate`, `KafkaCoversIceberg`, `ImplementsTickerTable`, `EveryRecordCommitted` |
| `normalize_malformed` | violated | a bad record fails the job until it is given up |
| `replay` | 2 partitions of 2 records, a tick after the window, with and without `--symbol` and `--events`; 932 thousand states | `WindowCovered`, `WithinBudget`, `CopiedOnceInOrder`, `NoFeedback`, `EndsBeyondWindow` |
| `replay_ends` | violated | the loop waits at the end of the log |
| `ohlcv` | 2 partitions, 3 ticks on both sides of a window's end and without a price, a repeated tick, a crash; 1.1 million states | `OneBarPerWindow`, `TicksAccounted`, `LateInOwnPartition`, `BarsAppear` |
| `cdc` | 2 symbols, an update or a delete and an insert, a restart of the connector or a stray message, a crash; 437 thousand states | `NormalizedIsSourceState`, `BronzeRederives`, `ImplementsCdcTables`, `NormalizedFollowsSource` |
| `api` | 2 symbols of which one leaves the marts, 2 polls, 2 requests, a failure; 77 thousand states | `WholePollServed`, `GaugesNotBehind`, `AnswersMoveForward`, `ModelFollowsMarts`, `OutdatedColdGoes` |
| `service` | 3 clients, 2 retries; 4 thousand states | `NothingLeftBehind`, `GivingUpRestarts` |
| `splitter` | texts of up to 6 of 7 characters; 137 thousand states | `CutsAtDelimiters` |
| `splitter_comments` | violated | a block comment alone is handed over as a statement |

Bounds. Four update ids give a snapshot older than, inside and newer than the buffer, a
lost diff, a diff over several updates, and a second connection with its own snapshot
after a failure. Two levels are the least with which a diff can touch one and not the
other, and deletion needs one quantity only; with a snapshot of one level, the deeper
one is unknown until it changes. Three records and two crashes give a crash before,
between and after barrier, completion and commit of one checkpoint while the next is
being written, and a replayed copy on either side of it; of the two diffs one sets a
level and the other removes one. `MaxExpired` lets one failure leave the restart
strategy's interval. Two records in a partition are one of the window and a copy of it
at the end offset, or a later record that the run must not read, or one of the window
that comes between the two requests; two partitions with a record each make `--events`
one limit over two counts. The passing replay run has targets at which Kafka answers, as
otherwise only dry runs get to the loop (section 5), and one at which it does not. Three
ticks over two partitions give a partition that is ahead, one that is empty, a window
closed while another is open, and a late tick; the crash may fall between firing and
commit. In `cdc` one trouble is a repeated event or a null message, and the crash may
fall while one sink has committed and the other has not. In `api` the second version of
the marts has lost a symbol, the one failure may hit any poll or request, halfway
through its rows too. Six characters hold an opened and closed comment or literal with a
delimiter or an escape in it and one beside it. Bounds appear in the guards of external
actions only, never in a step of the code, except that the crash bounds are in the
guards of `Crash`.

Deadlock is not checked where the system may stop: a client that has given up, an
exchange without traffic, a job at the end of its topic or failed.

Fairness. `IngestClient!FairSpec` assumes weak fairness of the coroutine (the
event loop runs what can run; every await in it is bounded: `open_timeout` of
connect, `_RECV_POLL_TIMEOUT`, `request_timeout_ms`, the sleep) and of the snapshot
request (`_SNAPSHOT_TIMEOUT`). The three Flink models assume weak fairness of
processing, of each step of a checkpoint and of a restart: Flink triggers them
periodically. CdcSymbolConfig assumes it of the connector's next event too.
`Replay!FairSpec` assumes weak fairness of the run's own steps and of the sender
task, which gives up a batch after `request_timeout_ms`. IngestService assumes that
a record is acknowledged or fails, that `_run()` goes on, and that Docker restarts a
process that ended by an exception. ReadModel assumes that the event loop runs what
can run, that time goes on, and that Trino answers every query: `fetch()` has no
timeout, so a query that hangs stops the poller for good, and the liveness
properties of ReadModel say nothing of that case. Nothing is assumed of the
exchange, the brokers, the topics' producers, the source table or crashes.

`EndsBeyondWindow` starts where the topic has gone on beyond every range that is left,
as without that the run waits for ever (`replay_ends`), and asks for both counters, the
partitions and the sender to come to their end.

`EveryRecordCommitted`, `BarsAppear` and `NormalizedFollowsSource` allow for a job that
the restart strategy has given up; the last one asks that there was a cause, too many
crashes or a null message. `BarsAppear` also allows for a window that a
partition without newer ticks holds back: that is what a watermark without idleness
does.

## 4. Proofs

`Ingest_proofs` begins with the lemmas on the book: an applied diff is a book again, and
its quantities are the diff's where it has the level and the old ones elsewhere; two
books with the same quantities are equal. It proves for every `Level`, `Qty`,
`MaxRetries` and `MaxId`

* `TypeCorrectness`: `Spec => []TypeOK`
* `BookCorrectness`: `Spec => []BookMatchesExchange`
* `TopicOrder`: `Spec => []TopicStrictlyOrdered`
* `BookForward`: `Spec => BookNeverRewinds`
* `NoHole`: `Spec => []NoSilentHole`

the first four from the invariant `IInv`, the conjunction of `TypeOK` and four parts:

* `EventsInv`: every event in the websocket queue, the buffer or hand covers a
  non-empty range of ids the exchange has reached and broadcast, and those in
  the queue are ordered. Without it `Payload` says nothing.
* `RetriesInv`: the counter is within the limit unless the client gave up.
* `SyncInv`: past the snapshot, each level of the book is the exchange's at `lastId`, or
  beyond the snapshot. The step that matters is that applying an event neither stale
  nor a gap to the book at `lastId` gives this at its last id: its range begins at or
  before `lastId + 1`, so a level it does not carry has not changed since, and one it
  carries is right whether or not the snapshot had it.
* `OrderInv`: the last record of the topic is older than all that can still be
  produced, which `TopicStrictlyOrdered` alone does not say.

`NoHole` needs `HoleInv` besides, which is inductive with `IInv`: from the last
record of the connection to the book's `lastId` there is nothing but diverted
events and the event in hand. The next record starts at `lastId + 1` at most, so
what lies between is diverted; every way to lose anything else leaves the
connection, whose next record is marked `opens`.

The exchange's own step (`Quoted`) is defined independently of the code's
`ApplyDiff`; the lemmas relate the two.

Assumptions: `0` is not a quantity and quantities are naturals (`QtyAssumption`,
a zero is a deletion in the code), `Ahead` is any relation of levels, and depth and
bounds are naturals.

Its last part, on IngestService, proves for every `Symbol` and `RetryLimit`

* `ServiceTypes`: `ServiceSpec => []ServiceTypeOK`
* `OrderlyEndIsEmpty`: `ServiceSpec => []NothingLeftBehind`

from `ServiceInv /\ Counting`: before the producer has started there is no record and no
client, and a client that has not given up is within the retry limit, without which
the range of `retried` is not inductive.

`ReadModel_proofs` proves for every history of the marts, set of polls with their
intervals, number of requests and failures

* `TypeCorrectness`: `Spec => []TypeOK`, with at most one poll of a kind under way
* `WholePolls`: `Spec => []WholePollServed`
* `GaugesAhead`: `Spec => []GaugesNotBehind`
* `AnswersForward`: `Spec => AnswersMoveForward`

from `IInv`, which adds three parts to `TypeOK` and `GaugesNotBehind`:

* `PollsInv`: nothing is under way while `run_poller()` sleeps, so that `Wake` never
  starts a second poll of a kind, and no answer is newer than the marts.
* `LiquidityInv`, `ObjectsInv`: each field holds the whole of one version, and an
  answer under way for it is at least as new (`NotBefore`). The last is what makes a
  swap a step forward; it rests on there being one poll of a kind at a time.

Assumptions: there is a symbol and a version of the marts, `liquidity` is polled in
every cycle, as in the code, and `Ttl` is not zero.

`NormalizeJob_proofs` proves for all prices, quantities, diffs and bounds

* `TypeCorrectness`: `Spec => []TypeOK`
* `OneRow`: `Spec => []OneRowPerUpdate`
* `KafkaAhead`: `Spec => []KafkaCoversIceberg`
* `Refinement`: `Spec => ImplementsTickerTable`

from `IInv`, the conjunction of `TypeOK` and six parts:

* `ArrivedInv`: no record was appended later than now.
* `NumbersInv`: table, completed checkpoint, checkpoint under way and job are in
  this order, in checkpoint numbers, in offsets and in `lastSeen`.
* `FilesInv`: what a checkpoint holds and the table has not is the part of the
  open files up to its number. With it, committing what is restored and committing
  what the job notified are the same.
* `RowsInv`: no two rows of one id and no id beyond `lastSeen`, of the table with
  what can still be committed, from each of the three places the job can go on from.
  `OneRowPerUpdate` speaks of the table alone and is not inductive: the second row of
  an id would be in a file that is not committed yet.
* `OnceInv`: a row of the table is in it once, and belongs to no checkpoint beyond
  `icebergN`. The second half is what keeps the first through a commit or a restore: what
  is committed next has a higher number, because the committer asks the table.
* `FlushedInv`: a row of the table or a checkpoint is in the topic, one of an open
  file there or in the sink's buffer.

The refinement adds `PrefixInv`: the log leads, record by record as `TickerTable`
takes them, from the last commit to the completed checkpoint, from there to the one
under way and from there to where the job is, and the files of each leg hold the rows
that it gives (`Leads`). A record is late or not by the clock of the attempt that took
it, so each leg has its own choice of late records, each of them old by now and all
that were old on arrival among them. A commit then moves the table by a
whole leg, which is one step of `TickerTable`; every other action is a stutter, or the
arrival of a record.
The lemmas on runs are proved by the least counterexample below, not by induction.

`Replay_proofs` proves for every set of partitions, log, window, option and bound

* `TypeCorrectness`: `Spec => []TypeOK`
* `BudgetKept`: `Spec => []WithinBudget`
* `CopiedOnce`: `Spec => []CopiedOnceInOrder`
* `Covered`: `Spec => []WindowCovered`
* `OwnCopiesUnread`: `Spec => []NoFeedback`

from `IInv`, which adds six parts to `TypeOK`:

* `EarlyInv`: before the ranges are known the log is ordered by time and has no copy.
  This is what lets two requests at different moments give one range that covers the
  window: what arrives between them is not older than the first offsets.
* `RangesInv`: no two ranges are of one partition, and one with an end lies in front
  of every copy.
* `ReadInv`: nothing has been read of the ranges ahead, nor of the current one beyond
  `pos`.
* `SentInv`: what has reached the target and then what is with the sender task is in
  the order of offsets, and has been read.
* `BudgetInv`: the number of records read is `total` and `read` together, while a
  partition is read `remaining` is `--events` less `total` and above zero, and the limit
  holds. `WithinBudget` alone says nothing of the counters: a partition that was given
  the whole limit, or counted into `total` twice, breaks it only later.
* `CoverInv`: short of `--events`, a record of the window is read or still ahead.

`OhlcvJob_proofs` proves for every set of partitions, window width, delay, set of
ticks and bound

* `TypeCorrectness`: `Spec => []TypeOK`
* `OneBar`: `Spec => []OneBarPerWindow`
* `Accounting`: `Spec => []TicksAccounted`
* `LateByOwn`: `Spec => []LateInOwnPartition`

from one predicate, `Sound`, on offsets, watermark, open windows, late ticks and the
bars so far: the watermark is not ahead of what each partition has shown, bars are of
different windows that it has passed and open ticks of windows that it has not, every
priced tick before the offsets is in one of the three places, and a late tick follows
one of its own partition that made it late. `SoundInv` is that this holds three
times over: of the running job with all bars, of the checkpoint under way with the bars
up to its barrier, and of the completed one with the bars of the table and those
pending. A barrier, a completion and a commit only move the boundaries between the
three (`Base`, `Cut`, `All`), a crash leaves the last, and a restore makes the first a
copy of it. The other parts say that a job that does not run holds nothing
(`IdleInv`), and where the partitions' marks come from (`MaxTsInv`): none of the
properties is inductive without this, since each reads the table or the job only.

`CdcSymbolConfig_proofs` proves for all symbols, values, histories of the source table
and bounds

* `TypeCorrectness`: `CdcSpec => []TypeOK`
* `SourceState`: `CdcSpec => []NormalizedIsSourceState`
* `Rederives`: `CdcSpec => []BronzeRederives`
* `Refinement`: `CdcSpec => ImplementsCdcTables`

from `IInv` (`InductiveInvariant`), the conjunction of `TypeOK` and six parts:

* `LegsInv`: for each path, table, completed checkpoint, checkpoint under way and
  job stand at offsets in this order, and what is written on each leg between two of
  them is the records of the topic that the path reads there and has a row of
  (`Leads`). A commit is then one step of `CdcTables`, or a stutter when its leg is
  empty; the two paths share nothing but the moment of the completion, after which
  `pending` tells the committed from the other.
* `SourceInv`, `EventsInv`: an event of the topic is a stray, a row of the snapshot
  taken at `snapAt`, or a change of the source, and before a change stand all those
  since the snapshot. The last holds through any number of restarts of the
  connector, which repeats but does not skip, and `BronzeRederives` rests on it: the
  greatest `lsn` of a prefix is a state all of whose changes are there.
* `TopicInv`: while the connector has repeated nothing, what the whole topic makes of an
  empty table is what has been told so far (`Told`), and every prefix with the snapshot
  in it makes a state of the source. `NormalizedIsSourceState` speaks of one
  prefix, which the next commit may move by any number of events, so the invariant has
  to speak of all.
* `NormalizedInv`, `BronzeInv`: the normalized table is what its prefix of the topic
  makes of an empty table; the bronze table has a row of the prefix's events that give
  one, and no other.

`CdcTables` defines its tables by recursive functions. That these exist, and agree when
put together from two stretches of the topic, is a matter of induction, which
`Lemmas` gives for sets.

`SqlRunner_proofs` proves for texts of any length

* `Cuts`: `Spec => []CutsAtDelimiters`
* `TypeCorrectness`: `Spec => []TypeOK`

The property speaks of one state, so the induction is over the rounds of the loop. After
each round (`Scanned`) the reference is in code where the scanner stands, and takes the
next character as if nothing came before it (`Fresh`); `buf` is the text from the last
delimiter to there, and those of `stmts` that have code are the statements the reference
has up to it. A round keeps this because what it consumes at once, a line comment, a
block comment, a literal or a character, holds no delimiter (`Passes`) and leaves the
reference so, or ends the text. The filter is a comparison of its own (`FilterAgrees`):
the scanner's looks at the beginnings of lines and knows no modes,
`MoreThanLineComments` looks at modes, and they agree because the first line that is
neither blank nor a line comment is reached in code (`CommentedUpTo`). What has code is
more than line comments, so the filter drops none of it (`FilteredWithCode`).

`Lemmas` holds what these proofs need of numbers and finite sets: a non-empty set of
naturals has a least element, a bounded one a greatest, `Max` and `Min` of the
community module are these, and a finite set of naturals is bounded. `Induction` is
induction over the naturals for a set instead of a predicate: the set of
counterexamples has a least element. It rests on the library's theorem that a
well-founded relation has minimal elements, which takes no operator.
`RecursionExists` says in the same way that a function on `a .. b` may be defined by
its first value and a step, the step being a function too.

Assumptions, beyond naturals for the bounds: `None` is neither a value nor a row image,
and two consecutive states of the source table differ in one row (`HistoryAssumption`),
as each change of a row is an event of its own; prices are finite sets of naturals, as
`Max` and `Min` of a side are taken, and quantities positive; the partitions of a topic
are finite and, for the OHLCV job, at least one; a window has a positive width. The
windows that fire together, and the ranges of a replay, are put in order by stating that
the sequence is ordered (`InOrder`), not by an operator that sorts.

Model-checked only: liveness, which is out of the prover's reach, and the four
violated runs. Every safety and action property of a passing run is a theorem, as are
both refinements.

## 5. Where code and documents disagree

* `EveryValidDiffProduced`: the client's docstring says every valid diff is
  produced; buffered diffs are not.
* `MalformedIsPassed`: malformed input is to be routed aside; it fails the job.
* `RunEnds`: a window that reaches the end of the log has no end offset: the run
  reads what comes later and never ends.
* `CommentBlocksFiltered`: the docstring of `split_statements()` says comment-only blocks
  are filtered (`sql_runner.py:40`); one that is a block comment is handed to Flink.

Seen while modelling, without a run of its own:

* `run()` of the client says "Run forever" (`client.py:38`) and raises past the retry
  limit (`client.py:54`), which only a clean close resets. The service then stops and
  the container restarts (`GivingUpRestarts`).
* The normalize job's Kafka sink sets no delivery guarantee, so after a crash it
  produces ticks again, and the OHLCV job counts them again in `volume` and
  `tick_count`, where `docs/ROADMAP.md:336` and `normalize.py:15` speak of exactly-once.
* The live replay's producer is given the target topic's name as its bootstrap server
  (`replay/producer.py:293`), though "In live mode: re-produce each record to the target
  topic" (`:14`): `ProducerCannotStart`, unless Kafka answers at a host of that name.
* `CdcEnvelopeProcessor` promises a None check (`cdc_symbol_config.py:128`) and has
  none: `json.loads(None)` raises a TypeError, the job fails at the message after every
  restart. `NormalizedFollowsSource` allows for that.
* While the connector repeats events after a restart, the current-state table goes
  back in time, and a deleted row may be there again, until the last event comes.
* SIGTERM, which `docker stop` sends, has no handler: the producer is not flushed.
* After a first cycle whose polls failed the API is `ready` and answers 404 instead of
  503 until a later cycle succeeds.
* Gauges of a symbol that left the marts keep their last value.
* `symbol_filter` of `_replay_partition` (`replay/producer.py:160`) is never read, so
  `--symbol` narrows the Iceberg lookup and not what is replayed; `Replay` has it so.
* `backfill_ohlcv.sql` selects columns that `normalized.ohlcv_1m` does not have.
* `run_great_expectations.py` filters `normalized.ohlcv_1m` by `exchange_event_ts`, a
  column of the other table it samples.

## 6. Not modelled, and the plan

Not modelled: floating-point metrics, log output, HTTP, schemas. Several keys of the
normalize job never meet in its state and are one key each; several symbols of the
OHLCV job share the watermark, which is that of the partitions whatever the symbol.

* Spark: the backfill's write is refused as it stands (above), and compaction is one
  procedure call per table, which Iceberg isolates.
* Airflow: each DAG is a schedule around one command or query, without state of its
  own.
* dbt: stateless SELECTs, which ReadModel has as versions of the marts.
* A CDC message that is JSON but not an object: `envelope.get` raises an AttributeError
  (`cdc_symbol_config.py:150`), which fails the job as a null message does.
* A replay whose start offset retention has removed: the consumer has
  `auto_offset_reset="earliest"` (`replay/producer.py:174`), and the topic of `Replay` keeps
  its records.
* `/ready`, `load_sql()`'s placeholders, the shutdown of the API process.
* Deployment and dashboards: configuration.

Plan, in this order:

1. **IngestNormalize**: the job's book, which starts empty, against the exchange's.
2. An ordered diff log that IngestClient implements.
3. The backfill, once its columns are the table's.
