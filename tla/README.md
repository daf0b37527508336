# RockLake: a TLA+ model of the catalog

RockLake keeps a DuckLake catalog (snapshots, schemas, tables, columns, data
files, statistics) as key-value pairs in SlateDB on object storage, and serves
it to DuckDB over the PostgreSQL wire protocol. This directory holds TLA+ modules
that model its core, TLC configurations that check them on small instances, and
TLAPS proofs. `PROJECT.json` lists runs, mutants, findings, hazards and theorems,
and maps definitions to source lines. Paths below are relative to `src/crates/`.

## 1. The system

| Part | State | Operations | Hard because |
|---|---|---|---|
| Catalog store (`rocklake-catalog/src/store.rs`, `init.rs`, `key_migration.rs`) | format key, three counters, writer epoch and nonce; in memory: counters, epoch, schema version, cached floor | `open`, `begin_write`, `commit_writer`, `read_at`, `close` | several processes open the same catalog; SlateDB fences all but the newest; a crash is possible between any two steps |
| Snapshot commit (`writer/snapshot.rs`) | snapshot rows | `create_snapshot`, `check_epoch` | failed commits, commits whose outcome is unknown, stale reads of fenced clients |
| Versioned rows (`writer/mod.rs`, `reader.rs`, `rocklake-core/src/mvcc.rs`, `keys.rs`) | rows with `begin_snapshot` and `end_snapshot`, an index of data files by snapshot | create, drop, rename, register, inline; list, describe, `snapshot_diff` | operations do not see what their own session staged; keys of some kinds hold no version; clients act on stale reads |
| Retention (`gc.rs`, `lease.rs`) | floor, pins, leases | `gc_apply`, `hold_snapshot`, `pin_snapshot` | holds are placed while a collection is under way; leases expire |
| Excision (`excise.rs`) | the rows below the floor | `excise_apply` | not a transaction; may stop half-way |
| Sessions (`rocklake-pgwire/src/session.rs`, `executor/mod.rs`, `executor/catalog.rs`, `handler.rs`) | per connection: `in_transaction`, pending operations, bootstrap rows; shared: the store under a mutex | BEGIN, COMMIT, ROLLBACK, COPY, write statements | the mutex is released between a check and what follows from it; part of a transaction's effects is put outside of it |
| Statistics (`writer/stats.rs`, `rocklake-core/src/types.rs`) | table, column and file statistics, without versions | update, set, merge, `prune_file` | written outside of the snapshot's transaction and read by statements that are bound to a snapshot |
| Statements that read (`executor/mod.rs`, `executor/catalog.rs`, `reader.rs`) | a snapshot id and a handle | the SELECTs over `ducklake_*`, `table_changes` | many scans with no storage snapshot over them; commits, collection and excision in between |
| Feeds (`streaming.rs`, `cdc.rs`) | the consumer's offset, the tailer's position | `commit_batch`, `poll_once` | lost answers, two consumers, a position that moves before the export is written |
| Checkpoints (`checkpoint.rs`) | checkpoint rows and their counter | create, list, restore | a restore is many small puts and may die after any of them |
| Moving a catalog (`export.rs`, `migrate.rs`, `migrate_from_ducklake.rs`, `repair.rs`, `verify.rs`, `diagnose.rs`) | a second database, a file | export, import, migrate, rebuild, repair | an export of a catalog in use; fills that stop half-way or run on top of each other |
| File cleanup (`cleanup.rs`, `sweep.rs`) | objects in the bucket, scheduled deletions | sweep, `process_scheduled_deletions`, `verify_data_files` | a listing of the bucket that is younger than the list of references |
| Server (`rocklake-pgwire/src/server.rs`, `scram.rs`, `notify.rs`) | permits, SCRAM exchange, broadcast channels, row id counters | accept, startup, LISTEN, NOTIFY, `next_rowid_range` | sessions end anywhere; subscribers lag; commits in doubt |
| SQL classifier, COPY parser, argument parsing, bindings, DataFusion provider, metrics | | | conversions, I/O and layout |

How they interact: a session's COMMIT locks the one `CatalogStore` of the server,
gets a `CatalogWriter` from `begin_write`, stages rows with it, and
`create_snapshot` writes all of it in one SlateDB transaction; `commit_writer`
copies the writer's counters back. Readers work on a snapshot id and apply the
visibility rule to what they scan. `gc_apply` raises the floor below which
`read_at` refuses snapshots and `excise_apply` may delete.

What makes each part correct: ids are never reused and the snapshots form a
gapless log (store, commit); a snapshot, once committed, reads the same forever
(rows); nothing a reader may still ask for is deleted (retention, excision);
transactions are atomic and answered (sessions); a statement bound to a snapshot
answers with that snapshot (readers); each record is ingested once and each change
exported (feeds); a restored, imported or repaired catalog shows what it should and
its later commits destroy nothing (checkpoints, moving); no referenced file is
deleted (cleanup); connections are admitted rightly and served in the end (server).

## 2. Modules

| Module | Models | Composition |
|---|---|---|
| `SnapshotLog` | abstract: a catalog is an append-only log of transactions | implemented by `CatalogCommit` (checked by `commit`, proved) |
| `CatalogCommit` | opening, epoch, commit, crash and fencing, for any number of processes | checked by `MCCatalogCommit`, proved in `CatalogCommitProofs` |
| `CatalogRows` | what operations stage, what a commit makes of it, what readers see | abstracts a commit to one step, justified by `CatalogCommit`; proved in `CatalogRowsProofs` |
| `Retention` | floor, holds, excision | abstracts rows to intervals; proved in `RetentionProofs` |
| `PgSession` | sessions, the mutex, execution of a batch, table statistics | abstracts the store's commit to success or failure; proved in `PgSessionProofs` |
| `Feeds` | commits, collection, excision, the streaming sink, the change tailer | a small catalog of its own, after `CatalogRows` and `Retention`; proved in `FeedsProofs` |
| `CatalogQuery` | the statements that read, scan by scan | EXTENDS `Feeds`, whose catalog moves on between the scans; proved in `FeedsProofs` |
| `Checkpoint` | checkpoints and restores, put by put, server and commands fencing each other | abstracts rows to kind and interval; proved in `CheckpointProofs` |
| `Transfer` | export, import, migration, rebuild, repair, verify, diagnose, over two databases | abstracts a commit to one operation; proved in `ToolsProofs` |
| `FileCleanup` | bucket against catalog: uploads, registration, sweep, scheduled deletion | abstracts a row to its life; proved in `ToolsProofs` |
| `Wire` | accept loop, permits, authentication, LISTEN and NOTIFY, row id ranges | abstracts a transaction to one that has data files or none; proved in `WireProofs` |

### CatalogCommit

The durable variables are the keys of the database (`formatted`, `migrated`,
`dbNext`, `dbToken`, `snapshots`, `objects`), `slateGen` counts the clients that
SlateDB has admitted, and each process has the fields of its `CatalogStore`
(`counters`, `token`, `schemaVersion`), its SlateDB handle (`gen`), its
`CatalogWriter` (`writer`) and a program counter. `DbOpen`, `LoadCatalog` or
`CreateCatalog`, `Migrate`, `EpochBegin`, `EpochCommit` or `EpochRetry`,
`FinishOpen` are the awaits of `CatalogStore::open` in their order; `OpenFails` is
its error return. `BeginWrite`, `StageDdl`, `StageFile`, `BeginTx`, `Commit`,
`CommitWriter` are a write session; `AbandonWrite`, `BeginTxFails`,
`CommitFails`, `CommitInDoubt` its ways to fail; `Crash` may strike anywhere.

SlateDB is external and modelled from how the code uses it: opening fences older
clients, only the newest makes writes durable, a client that learns it was fenced
or cannot learn the outcome of a write is closed. A fenced client may still read
what it had, so that its epoch check may pass; this is why `EpochMatches` and
`EpochDiffers` overlap.

### CatalogRows

A row is kind, parent, id, begin and end. `Key` says which kinds have their
version in the key, because a put replaces what is stored under the same key.
The variable `clients`, one of the sets in `Clients`, says what the clients of a
catalog do beyond naming live rows (`"stale"`: name rows that are retired;
`"replace"`: replace an inlined row), `Ended` for which kinds they UPDATE `end_snapshot`. `seen` is a history variable:
what readers saw at each snapshot when it was the latest.

### Retention

`gc_apply` is a scan (`GcScan`) and a commit (`GcCommit`) that fails when
anything in its read set was written in between (`GcRetry`). Excision has one
step per kind of row, and any subset of the deletes of a step may fail. The
`kept` field of a hold is history: the snapshot was retained when the hold was
placed.

### PgSession

A session's task is idle, waits for the mutex to check whether the catalog is
fresh, has checked, or waits for the mutex to execute (or holds it). The queue is
tokio's FIFO mutex, its head the holder. `workload`, one of `Workloads`, says what
the clients of a server send: `scripts` are the sequences of operations of their
transactions, `attach` the rows of the COPY bootstrap. `acked` is history.

### Feeds and CatalogQuery

`rows`, `head`, `version` and the floor are the catalog of `CatalogRows` and
`Retention` with one schema and one column per table; `stats` has no versions.
`session` is the list of data files of a commit whose statistics are already put:
`PutStats` and `RegisterDataFiles` are the two halves of `execute_commit`, with
`FailSession` between them. `CommitBatch`, `RepeatBatch` and `ResumeConsumer` are
the outcomes of `commit_batch`: committed (answered or not), committed before,
fenced. `Poll`, `WriteExport`, `SkipExport` and `RestartTailer` are the sidecar's
loop.

In `CatalogQuery` a statement `q` is a list of scans still to do (`todo`) and what
they have found (`got`). The `Ask` actions are the statements, the `Scan` actions
the calls of `CatalogReader` each makes, one step per scan because a reader has no
storage snapshot. Statements change nothing, so that one at a time has all
interleavings. `Restart` reads the floor into the cache that `read_at` checks. `shown`,
`ever` and `always` are history.

### Checkpoint

`server` and `cmd` exclude each other, because each opens the database and fences
the other; `CommandFails` and `ServerOpen` end a command wherever it is. Creating is
the counter's put and the checkpoint's (`CreateCounter`, `CreatePut`), restoring is
`RestoreStart`, one `RestoreHide` per row in the order of
`hide_post_checkpoint_facts`, and `RestoreCounter`.

### Transfer

`db` holds two databases with format version, counters, snapshot rows, rows and
index. `Src` is exported while it is written to, one scan per step. `Dst` is filled
from `feed`, one line (`ImportLine`) or one table (`MigrateTable`, `MigrateSkip`) per
step, or at once (`Rebuild`, `MigrateApply`); `FillStops` may strike in between.
`plan` holds the repairs still to be applied. `Verified` and `Diagnosed` are what
`verify_catalog` and `diagnose_catalog` report. The version gate of a migration
compares the highest schema version of the source with the catalog version, as the
code does.

### FileCleanup

`sweep` is where a sweep is: paths of data files collected, of delete files, bucket
listed, objects still to delete. `lag` is history: how long the client took from
upload to commit, and for a deleted object the time the sweep took from its first
scan to its listing. `Foreign` has the files whose rows hold another string than the
object's key.

### Wire

`phase` is where a connection's task is, `trust` (history) what it has shown of
itself, `waiting` and `permits` the semaphore. `backlog` counts the notifications in
a receiver, where one more than the slots means it has lagged, whatever by. `owed`
is history: a snapshot with data files was committed since the subscriber last
received something. Allocating row ids holds `lock` for all attempts;
`ReserveInDoubt` is an attempt that takes effect and reports an error.

## 3. Runs

Passing runs:

| Run | Properties | Instance |
|---|---|---|
| `commit` | `TypeOK`, `DenseHistory`, `CountersAhead`, `LiveWriterOwnsEpoch`, `AppendOnly`, `OpenTerminates`, `ImplementsLog` | 2 processes, 3 opens, 2 snapshots, 2 rows per session; 509 thousand states |
| `rows` | `TypeOK`, `TimeTravel`, `CascadeComplete`, `DiffReplays`, `IndexAgrees`, `NoResurrection` | 4 snapshots, sessions of 2 operations; catalogs whose clients name live rows, and catalogs with stale and replacing clients; 366 thousand states |
| `retention` | `TypeOK`, `HoldsHonoured`, `FloorRises`, `RetainedSnapshotsKept`, `RetainedRowsKept` | 2 collections, 1 lease holder, 1 pin, excision at 2 points, 3 snapshots, 1 row and 1 marker, 2 ticks; 1.2 million states |
| `pg` | `AtomicTransactions`, `RowIdsDisjoint`, `CommitAnswered` | 2 sessions; writers with 2 transactions each, or attaching clients with 1 each; 376 thousand states |
| `checkpoint` | `RestoreHides`, `HistoryReadable`, `CheckpointsKept` | 4 snapshot ids, 4 commands, 2 clock readings; 1.1 million states |
| `transfer` | `ExportConsistent`, `RestoredFaithfully`, `OpenedHealthy`, `RepairedIdsFresh` | 3 snapshots, 2 tools on the target, 1 commit in it; 1.3 million states |
| `cleanup` | `GraceProtects`, `ScheduledSafe` | a data file and a delete file, grace 2, 3 ticks; 1.1 million states |
| `feeds` | `IngestedOnce`, `FeedComplete` | 2 consumers, 2 batches of 2, 5 snapshots, 2 tables, 1 data file; 815 thousand states |
| `query` | `BoundExact`, `UnboundSound`, `StatsCover`, `ChangesExact` | 4 snapshots, 2 tables, 2 data files, 1 batch; 1.6 million states |
| `wire` | `Admission`, `WakeUpKept`, `RangesDisjoint`, `EveryoneServed` | 3 connections, 2 permits, a channel of 1 slot, row ids up to 2; 771 thousand states |

What the newer properties say of the code:

* `RestoreHides`: a completed restore, after however many interrupted ones, shows at
  the latest snapshot nothing younger than the checkpoint (of the kinds it visits)
  and all that was there and was not dropped since. `HistoryReadable`: no restore
  takes anything away from a past snapshot. `CheckpointsKept`: no later checkpoint
  takes the id of an earlier one, whatever the clock does.
* `ExportConsistent`: although an export scans kind after kind without a storage
  snapshot, what it writes is one catalog snapshot. `RestoredFaithfully`: after a
  repair a filled catalog shows the source's snapshot. `OpenedHealthy`: a catalog that
  opens passes diagnose, and verify until its server commits, repaired or not.
  `RepairedIdsFresh`: after a repair commits overwrite nothing, also when the fill was
  interrupted or came on top of another.
* `GraceProtects`: a registered file is missing from the bucket only if upload to
  commit plus the sweep's scan used up the grace period; `ScheduledSafe`: the
  comparison of a time with a snapshot id never lets a scheduled deletion take a file
  whose row is there.
* `IngestedOnce`: batches with lost answers, repeats and a second consumer arrive
  once. `FeedComplete`: the tailer's files add up to the snapshot the last one names.
* `BoundExact`: an answer bound to a snapshot is that snapshot's, although commits,
  collection and excision run between its scans, as long as the floor has not passed
  the snapshot by the end. `UnboundSound`: statements without a snapshot (read at `u64::MAX`) are no
  snapshot, but show nothing that was never live and all that always was.
  `StatsCover`: unversioned statistics never make pruning lose a file or a count
  fall short. `ChangesExact`: `table_changes` has every row that came or went.
* `Admission`: a session executes only after its own right proof, over TLS where it
  is required, and never beside more than the permits. `WakeUpKept`: lag, repeated
  LISTEN and draining never lose the last wake-up. `RangesDisjoint`: ranges are
  disjoint through commits in doubt. `EveryoneServed`: no way to end a session loses
  its permit.

Why the bounds are enough: two processes and three opens give a takeover, a
takeover of the takeover, and a process that comes back; two snapshots give a
commit on top of another process's commit; two staged rows of either kind give a
session that moves both counters. Four snapshots give create, retire, retire
again and a reader afterwards. Two collections, one lease that expires, is renewed
and expires again, and three snapshots give a hold between a scan and its commit
in every order. Two sessions give every order of two critical sections; two
transactions each give what one leaves behind for the next. Four commands give two
interrupted restores and a complete one around a checkpoint. Two tools give a fill
on top of a fill, and one commit afterwards shows what it overwrites. Three ticks
exceed the grace period in each of its parts. Two batches and two consumers give a
zombie and its successor; five snapshots a schema change between the batches. Two
tables with a file each make a statement of four scans, with up to three commits
between them. Three connections for two permits make one wait; one slot makes a
subscriber lag at the second notification; two row ids make the counter reach its
end.

Symmetry is used in `retention` only, over collections, which the module never
compares. Deadlock is not checked: all systems may stop at their bounds, or because
clients send nothing.

Fairness: `OpenTerminates` assumes that each step of `open()` is eventually taken
once it is possible (a live task whose awaits return), and nothing about crashes
or other processes. `CommitAnswered` assumes the same of a session's task between
a statement and its answer, and a FIFO mutex; clients owe nothing. The number of
transactions is bounded, so that a session that is starved by an endless stream of
others is not covered by the run, but a FIFO mutex excludes that. `EveryoneServed`
assumes that a task whose permit is free is polled, and is claimed only if the
server is below its limit again and again: sessions may last for ever.

Each passing property has a mutant in `PROJECT.json`: a plausible slip in the
modelled code under which TLC finds the property violated.

Runs that show a disagreement between the code and what the repository says of it
(each states one sentence of a doc or comment and TLC finds it violated; the
quotations are in `PROJECT.json` under `findings`):

| Run | What happens |
|---|---|
| `pg_bootstrap` | two sessions bootstrap the same catalog |
| `import_counters` | the first commit after an import without repair replaces an imported snapshot |

### Met while modelling

The passing runs leave the following out by their constants or by the premise of a
property. The first five were found by TLC with the definition and the constants
given, for which no run is kept:

* a second drop, from a client whose read is stale, moves the end of a retired row,
  which reappears at snapshots where it was gone (`writer/mod.rs:197`; `TimeTravel`
  without its premise), while `plans/blueprint.md:193` has `end_snapshot` set once;
* excision takes inlined delete markers by their `begin_snapshot` alone, and deleted
  rows come back at retained snapshots (`excise.rs:491`; `RetainedDeletesKept`);
* of two concurrent CREATE TABLEs, one's columns land in the other's table, because
  InsertTable ignores the id the client chose and InsertColumn uses it
  (`executor/catalog.rs:110`; `ColumnsFollowTable`, workload `<<"table", "column">>`);
* two files registered in one transaction get the same `row_id_start`
  (`writer/mod.rs:644`; `RowIdsDisjoint`, workload
  `<<"file", "file", "insertStats">>`);
* a last batch that is shorter than the others gets row ids of an earlier batch,
  because ids are offset times length (`streaming.rs:157`; `IngestedOnce` with
  `UnevenLens`), and the sweep deletes files whose rows hold a URL or a relative path
  (`SweepSparesReferenced` with `Foreign` not empty);
* replacing an inlined row under its row id overwrites the version that earlier
  snapshots show (`executor/catalog.rs:360`);
* ROLLBACK clears the pending operations and not the bootstrap rows, which the
  session's next COMMIT then creates (`executor/mod.rs:429`); a batch that is too
  large is refused and the rest of it committed (`session.rs:167`);
* table statistics are put outside the snapshot's transaction, so that a
  transaction that fails and is retried counts its rows twice
  (`writer/stats.rs:256`), and `set_table_stats` stores a `next_row_id` that the
  client computed from an earlier read, so that two files may get the same row ids
  (`writer/stats.rs:299`);
* UPDATEs of `end_snapshot` on anything but tables and columns are acknowledged
  and ignored (`executor/catalog.rs:231`);
* the pins of named checkpoints are not read by `gc_apply` (`gc.rs:123`), a lease
  is granted below the floor (`lease.rs:19`), and the floor cached in a running
  store is never refreshed (`store.rs:227` has no caller);
* running a restore again moves the ends it set the first time; data files, delete
  files and tags are not hidden, dropped rows not brought back, and the snapshot of
  the restore has no snapshot row (`checkpoint.rs:140`);
* repair counts no ids of views, macros and delete files; inlined deletes and some
  columns are not exported; rows keep a future `end_snapshot` in the target and
  vanish there when its commits reach it; `migrate_apply` to another version makes
  the next open refuse;
* a server that commits on stale counters (after an import without a repair, or a
  rebuild over a catalog) and then drops a table may end rows at or before their
  begin. verify reports them, repair does not undo them (`repair.rs:136`). The proof of
  `OpenedHealthy` found this, beyond the bounds of its run: 3 commits in the target
  are needed. It is why the property promises verify only until the first commit;
* `table_changes` ignores its table and numbers the rows of both sides from 0, so that
  unrelated rows can pair as an update (`executor/catalog.rs:1414`); files without
  statistics are missing from a pruned answer; `list_delete_files` returns rows
  without a table for every table;
* the tailer's retirements carry no begin and a poll does not look at the floor; a
  `commit_batch` without an expected offset is not fenced, and its table need not
  exist;
* nothing in `rocklake-pgwire` calls `drain_notifications`, so that subscribers are
  not told by today's server; DISCARD ALL leaves the session's state; row id
  counters are kept per spelling of a table's name.

## 4. Proofs

The theorems hold for every value of the constants that satisfies the assumptions:
any number of processes, sessions, consumers, snapshots, rows, files, batches. Each
states a property of a run (`PROJECT.json` lists which). Every proof module has an
inductive invariant, checked with TLC before it was proved, a lemma per action or
group of actions, a theorem `Invariance` (`FeedsInvariance` and `QueryInvariance`
in `FeedsProofs`, `TransferInvariance` in `ToolsProofs`), and the properties as its consequences. The
assumptions are only that bounds are natural numbers and sets of the right sort; they
stand in the modules that declare the constants, and TLC evaluates them in every run.

**`CatalogCommitProofs`**: `TypeOK`, `DenseHistory`, `CountersAhead`,
`LiveWriterOwnsEpoch`, `AppendOnly`, and that `CatalogCommit` implements
`SnapshotLog`. That ids are not reused depends on a process's counters being those of
the database at the moment its commit takes effect, which in turn depends on no other
client having written since it loaded them. `IInv` therefore adds

* `GenInv`: no two processes hold the same SlateDB handle;
* `FormatInv`: there is no snapshot and no object before the format key, and no
  process is past `initialize_catalog`;
* `SyncInv`: the newest client's counters are those of the database from the moment
  it loaded them, and between its own `Commit` and `CommitWriter` its session's are;
* `WriterInv`: a session's counters start at the store's, its staged rows have
  identifiers between the two, and begin at the session's snapshot;
* `RowInv`: the persisted counters are at or above those in any snapshot row.

`AppendOnly` follows: what the newest client stages has keys at or above the persisted
counters, and everything stored lies below them. The refinement maps the durable rows
to a log of transactions; every commit, in doubt or not, appends one entry with fresh
ids to it (`CommitAppends`), every other step leaves it alone.

**`CatalogRowsProofs`**: `TypeOK`, `TimeTravel`, `CascadeComplete`, `DiffReplays`,
`IndexAgrees`, `NoResurrection`. The argument is about what a session may have staged
(`StagedInv`): new rows, which begin at the snapshot it will get and have ids that no
committed row has, and committed rows that end there. Putting those over what is
stored changes what readers see at no snapshot there has been. The cascade needs that
the staged rows are closed under it (`CascadeClosed`) and that a data file dies with
its table only (`FileInv`).

**`RetentionProofs`**: `TypeOK`, `HoldsHonoured`, `RetainedSnapshotsKept`,
`FloorRises`, `RetainedRowsKept`. `HoldsHonoured` says nothing of calls between their
scan and their commit. `ScanInv` does: what a call has read justifies its target for
as long as it may commit, because leases only run out and a serializable commit fails
when what it read was written. `ExciseInv`: an excision under way stays below the
floor.

**`PgSessionProofs`**: `AtomicTransactions`, `RowIdsDisjoint`. The writer has exactly
the rows of what the holder of the mutex has applied (`WriterInv`), a session's buffers
hold operations of its current transaction only (`OwnInv`), a transaction under way
has no row yet (`RowsInv`), and the numbers of committed and staged files lie below
`next_row_id` (`NumberInv`). Each theorem has a premise on the clients, met by both
workloads of the run `pg` and refuted without it (see "Met while modelling"):
`AttachesOnce`, that a connection that bootstraps a catalog has no second transaction,
because ROLLBACK keeps the bootstrap rows for it; and `NumbersFiles`, that clients
count a file before they register the next and do not store a `next_row_id` of their
own.

**`CheckpointProofs`**: `RestoreHides`, `HistoryReadable`, `CheckpointsKept`. A restore
runs alone, so that the counter it read stays the counter (`RestoreInv`); it ends rows
there, beyond every snapshot a reader can name (`RowInv`). Ids of checkpoints stay
below their counter through commands that die between their two puts (`CreateInv`,
`IdInv`).

**`ToolsProofs`**, of `FileCleanup`: `GraceProtects`, `ScheduledSafe`. A registered file that the
sweep's scans did not find was registered after the first of them (`ScanInv`), and an
object it lists was then as old as the grace period (`ListInv`); the two add up.

The same module proves `TransferTypeOK`, `ExportConsistent`, `RestoredFaithfully`,
`OpenedHealthy` and `RepairedIdsFresh` of `Transfer`. `IInvTransfer` says of each place
the metadata passes through what it has in common with the one before:

* the source (`SrcInv`): it has always been its server's own (`OwnDb`), and its rows
  tell what each of its snapshots showed (`seen`), because a commit leaves all earlier
  snapshots as they were (lemma `OwnCommit`);
* the export and its file (`ExportInv`, `FileInv`): what is visible at the export's
  snapshot is the same whenever its kind is scanned, so the kinds written so far are
  those of `seen`, whatever was committed in between;
* a fill under way (`FeedInv`): the snapshots still to come leave no gap after those
  in the target, so that it may stop at any line;
* the target: `SoundDb` (snapshots without a gap, an index entry for every file, one row
  per key, no gap below the snapshot counter) holds after every fill,
  interrupted or on top of another, and is what diagnose looks at. `Restored`: the
  catalog and the lines yet to come are together what readers of the source saw.
  `Rooted`: no inlined row is one that repair would remove;
* a repair under way (`PlanInv`, `Repairs`, `Ahead`): the plan has an action for every
  counter that is behind, actions may come in any order, and when none is left every
  id in use lies below its counter, which commits keep.

That ids are bounded is part of the invariant too: `Correct` takes the maximum of the
ids in use, which exists for a finite set only (`WellFoundedInduction` gives it).

**`WireProofs`**: `Admission`, `WakeUpKept`, `RangesDisjoint`. Free permits and served
sessions always add up to the limit (`PermitInv`), which needs that a task in the
semaphore's queue is in it once and not yet served (`WaitInv`); only subscribers are
owed a wake-up (`ChannelInv`).

**`FeedsProofs`**: `IngestedOnce`, `FeedComplete`. The rows tell what every snapshot
not below the last excision showed (`CatInv`): all commits of the module are of one
form (`Puts`), for which one lemma (`CommitStep`) shows it. The inlined rows are those
of the batches up to the offset, each once (`SinkInv`), and a consumer that is not
fenced has the batch that comes next. The pending export leads from the facts written
to those of the snapshot it names (`FeedInv`, lemma `PollExact`). `IngestedOnce` is
proved for streams whose batches are of one length (`SameLength`, as in the run
`feeds`): without it row ids overlap and it is false.

The same module proves `BoundExact`, `UnboundSound`, `StatsCover` and `ChangesExact` of
`CatalogQuery`. An answer is right at its last scan only, so the invariant `IInvQuery`
speaks of statements half done. Its part about a statement says that everything it is to
find is found or lies below a scan still to come (`Covered`), that nothing else was found
(`BoundInv`, `UnboundInv`), and that only scans of its own sort are to come
(`StatementType`). Its part about the catalog is what the scans rely on:

* `CatInv` and `SinkInv`, as above: below the head, rows tell what snapshots showed,
  whatever was committed, collected or excised since the statement began;
* `TreeInv`: what is live and what is shown has its table and its schema, without which
  a listing that goes down from the schemas would miss rows; commits add leaves, and
  `drop_table` takes all of a table's rows;
* `FileInv`: a file id is given once, the session in progress taking the next ones, so
  that numbering the rows of `table_changes` (`NumberedRows`, `ChangeImages`) loses none;
* `StatsInv`: every file of a snapshot or of the session in progress has a range with its
  value in it and is counted in its table, because statistics are put before the commit,
  and those of failed transactions only widen.

Each scan is shown to find all that is below it or to go on with the scans that will
(`Finds`, lemma `ScannedKeeps`), and what happens between scans to change nothing that a
bound statement sees (`MeanwhileStep`). `BoundExact` is proved for all statements but
`SelectInlinedRows` without a premise, and for that one under `SameLength`: a batch that
overlaps an earlier one overwrites rows that snapshots show. `InOrder`, the order of the
scans, is a choice among the lists of a set, of which one lemma (`OrderExists`) shows
that an ordered one exists; a sort by recursion would be an induction over data.

Model-checked only: `OpenTerminates`, `CommitAnswered`, `EveryoneServed`. They are
liveness under fairness, which is out of the prover's reach.

## 5. Plan

Modelled: the core (`CatalogCommit`, `CatalogRows`, `Retention`, `PgSession`) and
around it `Feeds`, `CatalogQuery`, `Checkpoint`, `Transfer`, `FileCleanup`, `Wire`; all
safety properties of their runs are proved. Next: the batch limit in `PgSession`; the
order of typed strings behind `prune_file`.

## 6. Not modelled

SQL classification, COPY parsing, the layout of responses, argument parsing, metrics,
cost estimates and the language bindings convert or display and keep no state the
catalog depends on. Audit records, extension schemas, encryption and the registry of
partitions are single puts and gets under keys of their own. The order of typed
strings (`type_aware_compare`) is the order of numbers here. Manifest, WAL and fault
injection are test doubles. SlateDB, tokio and DuckDB are external: they appear as
the code uses them.
