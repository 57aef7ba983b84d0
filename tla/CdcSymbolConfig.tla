--------------------------- MODULE CdcSymbolConfig ---------------------------
(***************************************************************************)
(* The CDC path of symbol_config: the Postgres table, the Debezium         *)
(* connector as connector.json configures it, its topic of one partition,   *)
(* and Flink job 3, which reads the topic twice in one job graph: raw for   *)
(* the bronze table, as debezium-json for the normalized one.  The two      *)
(* paths have their own offsets and share a checkpoint, which the barrier   *)
(* passes at different moments; each Iceberg sink commits on its own.       *)
(*                                                                         *)
(* Not covered: a connector that fails inside its snapshot, changes of a    *)
(* primary key, the columns of a row.                                       *)
(***************************************************************************)
EXTENDS CdcTables

CONSTANTS
    Histories,     \* by instance: the states the source table goes through
    MaxFailures,   \* failures within failure_interval that are tolerated
    MaxTrouble,    \* bound of the checks: restarts of the connector and
                   \* messages of other origin in the topic
    MaxCrashes     \* bound of the checks: crashes of the job

ASSUME HistoryAssumption ==
    \A h \in Histories :
        /\ h \in Seq(Table) /\ h # <<>>
        /\ \A k \in 1 .. Len(h) - 1 : \E s \in Symbol, v \in Value \cup {None} :
              v # h[k][s] /\ h[k + 1] = [h[k] EXCEPT ![s] = v]
ASSUME BoundAssumption == {MaxFailures, MaxTrouble, MaxCrashes} \subseteq Nat

VARIABLES
    hist,      \* the states of the source table, from what init.sql inserts on
    now,       \* the one it is in
    snapAt,    \* the state the connector's snapshot reads; 0 before it
    snapLeft,  \* symbols the snapshot has still to read
    streamed,  \* the state whose changes the connector has emitted
    rewinds,   \* restarts of the connector
    strays,    \* messages of other origin
    status,    \* of the job: "running", "restarting", "failed"
    failures,  \* failures within failure_interval
    crashes,   \* failures that no message caused
    offset,    \* by path: records consumed
    written,   \* by path: offsets of the records in files since its last barrier
    passed,    \* paths its barrier has passed
    saved,     \* by path: what the barrier has found
    ckpt,      \* by path: what the last completed checkpoint holds
    pending    \* paths whose table does not have the last completed checkpoint

sourceVars == <<hist, now, snapAt, snapLeft, streamed, rewinds, strays>>
jobVars    == <<status, failures, crashes>>
pathVars   == <<offset, written>>
ckptVars   == <<passed, saved, ckpt>>
tableVars  == <<upto, bronze, normalized, pending>>
cdcVars == <<log, sourceVars, jobVars, pathVars, ckptVars, tableVars>>

Path == {"bronze", "normalized"}

Part == [offset : Nat, written : Seq(Nat)]
NoPart == [offset |-> 0, written |-> <<>>]

Source == hist[now]

CdcInit ==
    /\ Init
    /\ hist \in Histories /\ now = 1
    /\ snapAt = 0 /\ snapLeft = {} /\ streamed = 0
    /\ rewinds = 0 /\ strays = 0
    /\ status = "running" /\ failures = 0 /\ crashes = 0
    /\ offset = [p \in Path |-> 0]
    /\ written = [p \in Path |-> <<>>]
    /\ passed = {}
    /\ saved = [p \in Path |-> NoPart] /\ ckpt = saved
    /\ pending = {}

-----------------------------------------------------------------------------
(* The source table and the connector.                                      *)

(* An insert, an update or a delete of one row. *)
ChangeRow ==
    /\ now < Len(hist)
    /\ now' = now + 1
    /\ UNCHANGED <<log, hist, snapAt, snapLeft, streamed, rewinds, strays,
                   jobVars, pathVars, ckptVars, tableVars>>

RowOf(t, s) == IF t[s] = None THEN None ELSE [symbol |-> s, value |-> t[s]]

(* Mutant of OldRow: the WAL has the primary key only. *)
ReplicaIdentityDefault(t, s) == None

(* REPLICA IDENTITY FULL: the WAL has the old row. *)
OldRow(t, s) == RowOf(t, s)

(* The change that led to state k. *)
ChangeTo(k) ==
    LET s == CHOOSE s \in Symbol : hist[k][s] # hist[k - 1][s]
        old == RowOf(hist[k - 1], s)
        new == RowOf(hist[k], s)
    IN  [op |-> IF old = None THEN "c" ELSE IF new = None THEN "d" ELSE "u",
         before |-> IF old = None THEN None ELSE OldRow(hist[k - 1], s),
         after |-> new, lsn |-> k]

(* snapshot.mode "initial": one consistent state is read row by row. *)
SnapshotBegins ==
    /\ snapAt = 0
    /\ snapAt' = now /\ streamed' = now
    /\ snapLeft' = {s \in Symbol : Source[s] # None}
    /\ UNCHANGED <<log, hist, now, rewinds, strays, jobVars, pathVars, ckptVars, tableVars>>

SnapshotRow ==
    /\ \E s \in snapLeft :
          /\ log' = Append(log, [op |-> "r", before |-> None,
                                 after |-> RowOf(hist[snapAt], s), lsn |-> snapAt])
          /\ snapLeft' = snapLeft \ {s}
    /\ UNCHANGED <<hist, now, snapAt, streamed, rewinds, strays, jobVars, pathVars,
                   ckptVars, tableVars>>

StreamChange ==
    /\ snapAt # 0 /\ snapLeft = {}
    /\ streamed < now
    /\ log' = Append(log, ChangeTo(streamed + 1))
    /\ streamed' = streamed + 1
    /\ UNCHANGED <<hist, now, snapAt, snapLeft, rewinds, strays, jobVars, pathVars,
                   ckptVars, tableVars>>

(* The connector restarts from the position it last flushed: what it has    *)
(* emitted since is emitted again.                                          *)
ConnectorRewinds ==
    /\ rewinds + strays < MaxTrouble
    /\ snapAt # 0 /\ snapLeft = {}
    /\ \E k \in snapAt .. streamed - 1 : streamed' = k
    /\ rewinds' = rewinds + 1
    /\ UNCHANGED <<log, hist, now, snapAt, snapLeft, strays, jobVars, pathVars, ckptVars,
                   tableVars>>

(* A message of another connector or configuration. *)
StrayArrives ==
    /\ rewinds + strays < MaxTrouble
    /\ strays' = strays + 1
    /\ \E op \in {"?", "null"} :
          log' = Append(log, [op |-> op, before |-> None, after |-> None, lsn |-> 0])
    /\ UNCHANGED <<hist, now, snapAt, snapLeft, streamed, rewinds, jobVars, pathVars,
                   ckptVars, tableVars>>

-----------------------------------------------------------------------------
(* The job.                                                                 *)

HasRecord(p) == status = "running" /\ offset[p] < Len(log)

Here(p) == log[offset[p] + 1]

Consume(p, wrote) ==
    /\ offset' = [offset EXCEPT ![p] = @ + 1]
    /\ written' = IF wrote THEN [written EXCEPT ![p] = Append(@, offset[p])] ELSE written
    /\ UNCHANGED <<log, sourceVars, jobVars, ckptVars, tableVars>>

(* flat_map(): one row or none. *)
FlatMap ==
    /\ HasRecord("bronze")
    /\ Here("bronze").op # "null"
    /\ Consume("bronze", Emits(Here("bronze")))

(* debezium-json: null messages and parse errors are skipped. *)
ReadChangelog ==
    /\ HasRecord("normalized")
    /\ Consume("normalized", Parsed(Here("normalized")))

-----------------------------------------------------------------------------
(* Checkpoints.                                                             *)

(* A checkpoint without anything new is left out.  A committer has heard of *)
(* the last one before: that was a checkpoint interval ago.                 *)
Barrier ==
    /\ status = "running"
    /\ \E q \in Path : offset[q] # ckpt[q].offset
    /\ \E p \in Path \ (passed \cup pending) :
          /\ passed' = passed \cup {p}
          /\ saved' = [saved EXCEPT ![p] = [offset |-> offset[p], written |-> written[p]]]
          /\ written' = [written EXCEPT ![p] = <<>>]
    /\ UNCHANGED <<log, sourceVars, jobVars, offset, ckpt, tableVars>>

Complete ==
    /\ passed = Path
    /\ passed' = {}
    /\ ckpt' = saved
    /\ saved' = [p \in Path |-> NoPart]
    /\ pending' = Path
    /\ UNCHANGED <<log, sourceVars, jobVars, pathVars, upto, bronze, normalized>>

(* The records of the files, in the order they were written. *)
Events(files) == [i \in DOMAIN files |-> log[files[i] + 1]]

(* One Iceberg commit on path p, of the files of the completed checkpoint.  *)
CommitFiles(p) ==
    LET files == ckpt[p].written
    IN  /\ pending' = pending \ {p}
        /\ upto' = [upto EXCEPT ![p] = ckpt[p].offset]
        /\ bronze' = IF p = "bronze"
                     THEN bronze \o [i \in DOMAIN files |->
                                        BronzeRow(Events(files)[i], files[i])]
                     ELSE bronze
        /\ normalized' = IF p = "normalized" THEN Upserted(normalized, Events(files))
                         ELSE normalized

(* notifyCheckpointComplete, at each committer in its own time. *)
Commit ==
    /\ status = "running"
    /\ \E p \in pending : CommitFiles(p)
    /\ UNCHANGED <<log, sourceVars, jobVars, pathVars, ckptVars>>

-----------------------------------------------------------------------------
(* Failures.                                                                *)

Lose ==
    /\ failures' = failures + 1
    /\ status' = IF failures + 1 > MaxFailures THEN "failed" ELSE "restarting"
    /\ offset' = [p \in Path |-> 0]
    /\ written' = [p \in Path |-> <<>>]
    /\ passed' = {}
    /\ saved' = [p \in Path |-> NoPart]
    /\ UNCHANGED <<log, sourceVars, ckpt, tableVars>>

Crash ==
    /\ status = "running"
    /\ crashes < MaxCrashes
    /\ crashes' = crashes + 1
    /\ Lose

(* json.loads(None) raises a TypeError, which flat_map() does not catch. *)
NullFails ==
    /\ HasRecord("bronze")
    /\ Here("bronze").op = "null"
    /\ UNCHANGED crashes
    /\ Lose

(* Mutant of RestoreCommits: the committer does not ask its table. *)
RestoreCommitsAgain ==
    /\ status = "restarting"
    /\ \E p \in Path : CommitFiles(p)
    /\ UNCHANGED <<log, sourceVars, jobVars, pathVars, ckptVars>>

(* Each committer commits what it finds in the checkpoint, unless its table *)
(* says it has it. *)
RestoreCommits ==
    /\ status = "restarting"
    /\ \E p \in pending : CommitFiles(p)
    /\ UNCHANGED <<log, sourceVars, jobVars, pathVars, ckptVars>>

(* Mutant of Restore: the sources start from scan.startup.mode. *)
RestoreEarliest ==
    /\ status = "restarting"
    /\ pending = {}
    /\ status' = "running"
    /\ offset' = [p \in Path |-> 0]
    /\ UNCHANGED <<log, sourceVars, failures, crashes, written, ckptVars, tableVars>>

(* Both sources go on from the checkpoint's offsets. *)
Restore ==
    /\ status = "restarting"
    /\ pending = {}
    /\ status' = "running"
    /\ offset' = [p \in Path |-> ckpt[p].offset]
    /\ UNCHANGED <<log, sourceVars, failures, crashes, written, ckptVars, tableVars>>

-----------------------------------------------------------------------------
Connector == SnapshotBegins \/ SnapshotRow \/ StreamChange

Checkpointing == Barrier \/ Complete \/ Commit

CdcNext == ChangeRow \/ Connector \/ ConnectorRewinds \/ StrayArrives
             \/ FlatMap \/ ReadChangelog \/ Checkpointing
             \/ Crash \/ NullFails \/ RestoreCommits \/ Restore

CdcSpec == CdcInit /\ [][CdcNext]_cdcVars

(* The connector and the job go on: Flink triggers checkpoints, notifies    *)
(* committers and restarts the job.  Nothing is assumed of the source.      *)
CdcFairSpec ==
    /\ CdcSpec
    /\ WF_cdcVars(Connector)
    /\ WF_cdcVars(FlatMap) /\ WF_cdcVars(ReadChangelog)
    /\ WF_cdcVars(Barrier) /\ WF_cdcVars(Complete) /\ WF_cdcVars(Commit)
    /\ WF_cdcVars(RestoreCommits \/ Restore)

-----------------------------------------------------------------------------
(* Properties.                                                              *)

(* The types; a path is never before the checkpoint it would restart from. *)
TypeOK ==
    /\ log \in Seq(Event) /\ hist \in Seq(Table) /\ now \in 1 .. Len(hist)
    /\ snapAt \in 0 .. now /\ snapLeft \subseteq Symbol /\ streamed \in 0 .. now
    /\ rewinds \in Nat /\ strays \in Nat /\ failures \in Nat /\ crashes \in Nat
    /\ status \in {"running", "restarting", "failed"}
    /\ offset \in [Path -> 0 .. Len(log)] /\ written \in [Path -> Seq(Nat)]
    /\ status = "running" => \A p \in Path : ckpt[p].offset <= offset[p]
    /\ passed \subseteq Path /\ saved \in [Path -> Part] /\ ckpt \in [Path -> Part]
    /\ upto \in [Path -> 0 .. Len(log)]
    /\ pending \subseteq Path /\ normalized \in Table

(* Both tables move along the topic as CdcTables says: no event is missing  *)
(* from either and no bronze row is there twice, wherever crashes fall      *)
(* between the barriers, the completion and the two commits.                *)
Tables == INSTANCE CdcTables
ImplementsCdcTables == Tables!Spec

(* The snapshot is in the first n events of the topic. *)
SnapshotIn(n) ==
    /\ snapAt # 0
    /\ \A s \in Symbol : hist[snapAt][s] # None =>
          \E o \in 1 .. n : log[o].op = "r" /\ log[o].after.symbol = s

(* A commit of the normalized table shows the source table as it was after  *)
(* some change: no mix of changes, no row that was deleted before and came  *)
(* back.  (While the connector repeats events that is not so.)              *)
NormalizedIsSourceState ==
    rewinds = 0 /\ SnapshotIn(upto.normalized) =>
        \E k \in snapAt .. now : normalized = hist[k]

(* sink_bronze.sql: "to re-derive normalized.symbol_config, consume this    *)
(* table in source_lsn order".  That gives the source table after the last  *)
(* change the bronze table has, though the connector repeats events.        *)
LastRows(s) ==
    {i \in DOMAIN bronze : /\ bronze[i].symbol = s
                           /\ \A j \in DOMAIN bronze :
                                 bronze[j].symbol = s => bronze[j].lsn <= bronze[i].lsn}

BronzeRederives ==
    SnapshotIn(upto.bronze) =>
        \E k \in snapAt .. now :
            /\ \A i \in DOMAIN bronze : bronze[i].lsn <= k
            /\ \A s \in Symbol :
                  /\ hist[k][s] # None => LastRows(s) # {}
                  /\ \A i \in LastRows(s) : bronze[i].after = RowOf(hist[k], s)

(* When the source table stops changing, the normalized table becomes what  *)
(* it is, whatever was repeated or crashed, unless the job is given up, and  *)
(* it is so for too many crashes or a null message only.                    *)
GivenUpForCause ==
    /\ status = "failed"
    /\ crashes > MaxFailures \/ \E i \in DOMAIN log : log[i].op = "null"

NormalizedFollowsSource == now = Len(hist) ~> normalized = Source \/ GivenUpForCause
=============================================================================
