------------------------------- MODULE Transfer -------------------------------
(***************************************************************************)
(* Moving a catalog: export to NDJSON and import (export.rs), migration    *)
(* from a DuckLake catalog in SQL (migrate_from_ducklake.rs), rebuilding   *)
(* from Parquet files, format migration (migrate.rs), and the tools that   *)
(* are run on the result: repair, verify, inspect and diagnose.            *)
(*                                                                         *)
(* Two databases: Src serves clients while it is exported; Dst is filled   *)
(* by the tools, opened, repaired and then serves clients too.  Each tool  *)
(* opens the database itself, which fences the server: a server serves     *)
(* again only after it has opened the catalog and loaded the counters.     *)
(*                                                                         *)
(* Abstractions: kind "table" stands for schemas, tables and columns, the  *)
(* kinds whose ids repair counts; "view" for all other versioned rows with *)
(* an id of the catalog counter; "stat" for the rows without begin and end *)
(* snapshot, which are exported whatever the snapshot; "marker" for the    *)
(* rows export leaves out (inlined deletes).  `whole` says whether a row   *)
(* has all the columns it was written with.  A commit is one operation     *)
(* (CatalogRows has the others, CatalogCommit its atomicity).              *)
(***************************************************************************)
EXTENDS Naturals, FiniteSets, FiniteSetsExt, Sequences

CONSTANTS
    MaxSnap,            \* bound: snapshots of a database
    MaxVersion,         \* DUCKLAKE_V1_0_CATALOG_VERSION (7 in the code)
    MaxFiles,           \* bound: Parquet files a rebuild finds
    MaxTools,           \* bound: tools run on Dst
    MaxCommits          \* bound: commits of the servers of Dst

ASSUME TransferAssumption ==
    /\ MaxSnap \in Nat \ {0}
    /\ {MaxVersion, MaxFiles, MaxTools, MaxCommits} \subseteq Nat

Src == "src"
Dst == "dst"

NoEnd == 0
Absent == 0     \* of a counter, and of the format version
Format == 1     \* CATALOG_FORMAT_VERSION

VARIABLES
    db,         \* per database: format version, counters, snapshots, rows, index
    serving,    \* databases that a server has open
    export,     \* the running export
    file,       \* the NDJSON file of the last finished export
    feed,       \* lines an import or a migration into Dst has yet to write
    plan,       \* repairs not yet applied to Dst, while a repair runs
    origin,     \* history: how the contents of Dst came about
    repaired,   \* history: Dst was repaired completely and not refilled since
    seen,       \* history: what readers saw in Src at each snapshot
    left        \* what remains of the bounds MaxTools and MaxCommits

transfer == <<db, serving, export, file, feed, plan, origin, repaired, seen, left>>

-----------------------------------------------------------------------------
\* Rows and keys

Key(r) == <<r.kind, r.parent, r.id, IF r.kind \in {"table", "view"} THEN r.begin ELSE 0>>

IndexKey(r) == <<r.parent, r.begin, r.id>>

Put(S, T) == {x \in S : \A t \in T : Key(x) # Key(t)} \cup T

PutIndex(S, T) == {x \in S : \A t \in T : IndexKey(x) # IndexKey(t)} \cup T

Live(r) == r.end = NoEnd

Visible(r, s) == r.begin <= s /\ (r.end = NoEnd \/ s < r.end)

Fact(r) == <<r.kind, r.parent, r.id, r.begin>>

Versioned == {"table", "view", "file", "delfile", "inline"}

\* What readers see at snapshot s: data files through the index.
At(d, s) ==
    {Fact(r) : r \in {x \in d.index : Visible(x, s)}
                     \cup {x \in d.rows : x.kind \in Versioned \ {"file"} /\ Visible(x, s)}}

Latest(d) == d.counter["snap"] - 1

SchemaVersion(d) == Max({0} \cup {s.sv : s \in d.snaps})

New(d, kind, parent, id) ==
    [kind |-> kind, parent |-> parent, id |-> id, begin |-> d.counter["snap"],
     end |-> NoEnd, whole |-> TRUE]

Ids(d, kind) == {r.id : r \in {x \in d.rows : x.kind = kind /\ Visible(x, Latest(d))}}

-----------------------------------------------------------------------------
\* Catalogs

EmptyDb ==
    [fv |-> Absent, counter |-> [c \in {"snap", "cat", "file"} |-> Absent],
     snaps |-> {}, rows |-> {}, index |-> {}]

\* initialize_catalog on a database without a format version.
Initialized(d) ==
    [d EXCEPT !.fv = Format, !.counter = [c \in {"snap", "cat", "file"} |-> 1]]

\* initialize_catalog refuses another format, and a format without counters.
CanOpen(d) ==
    d.fv = Absent \/ (d.fv = Format /\ \A c \in DOMAIN d.counter : d.counter[c] # Absent)

Opened(d) == IF d.fv = Absent THEN Initialized(d) ELSE d

\* A snapshot with the rows of T, the index entries of I and the counter c moved.
Committed(d, T, I, c, ddl) ==
    LET s == d.counter["snap"]
    IN  [d EXCEPT !.rows = Put(@, T),
                  !.index = PutIndex(@, I),
                  !.snaps = {x \in @ : x.id # s}
                            \cup {[id |-> s, sv |-> SchemaVersion(d) + (IF ddl THEN 1 ELSE 0)]},
                  !.counter = [k \in DOMAIN @ |->
                                  IF k \in {"snap", c} THEN @[k] + 1 ELSE @[k]]]

Retired(d, S) == {[r EXCEPT !.end = d.counter["snap"]] : r \in S}

\* What drop_table retires.
Cascade(d, t) ==
    LET files == {r \in d.rows : r.kind = "file" /\ r.parent = t /\ Live(r)}
    IN  files \cup {r \in d.rows :
                       /\ Live(r)
                       /\ \/ r.kind = "table" /\ r.id = t
                          \/ r.kind = "inline" /\ r.parent = t
                          \/ r.kind = "delfile" /\ \E f \in files : f.id = r.parent}

\* The catalogs that one commit can turn d into.
Commits(d) ==
    {Committed(d, {New(d, k, 0, d.counter["cat"])}, {}, "cat", TRUE) : k \in {"table", "view"}}
    \cup {LET f == New(d, "file", t, d.counter["file"])
              stat == [New(d, "stat", t, 0) EXCEPT !.begin = 0]
          IN  Committed(d, {f, stat}, {f}, "file", FALSE) : t \in Ids(d, "table")}
    \cup {Committed(d, {New(d, "delfile", f, d.counter["file"])}, {}, "file", FALSE) :
              f \in Ids(d, "file")}
    \cup {Committed(d, {New(d, "marker", f, 0)}, {}, "snap", FALSE) : f \in Ids(d, "file")}
    \cup {Committed(d, {New(d, "inline", t, d.counter["snap"])}, {}, "snap", FALSE) :
              t \in Ids(d, "table")}
    \cup {LET gone == Retired(d, Cascade(d, t))
          IN  Committed(d, gone, {r \in gone : r.kind = "file"}, "snap", TRUE) :
              t \in Ids(d, "table")}

-----------------------------------------------------------------------------
\* Export

\* The order of the scans of export_catalog.
ExportOrder == <<"snapshot", "table", "file", "delfile", "inline", "view", "stat">>

NotExporting == [at |-> 0, scan |-> 0, known |-> FALSE, snaps |-> {}, rows |-> {}]

\* Kinds of which export_catalog leaves columns out.
Lossy == {"table", "file", "delfile", "stat"}

ToJson(r) == IF r.kind \in Lossy THEN [r EXCEPT !.whole = FALSE] ELSE r

ScannedWhenLive(d, kind, s) ==
    {ToJson(r) : r \in {x \in d.rows : x.kind = kind /\ (kind = "stat" \/ (x.begin <= s /\ Live(x)))}}

\* The rows one scan writes: those visible at the snapshot, with their end.
Scanned(d, kind, s) ==
    {ToJson(r) : r \in {x \in d.rows : x.kind = kind /\ (kind = "stat" \/ Visible(x, s))}}

\* export_catalog: the snapshot is the caller's, unchecked, or the latest.  One
\* export is enough: a second one would only replace the file of the first.
ExportStart ==
    /\ export.scan = 0 /\ file.at = 0 /\ Dst \notin serving /\ db[Dst] = EmptyDb
    /\ \E s \in 1..MaxSnap :
           /\ s <= Latest(db[Src]) + 1   \* stands for all later ones
           /\ export' = [NotExporting EXCEPT !.at = s, !.scan = 1, !.known = (s <= Latest(db[Src]))]
    /\ UNCHANGED <<db, serving, file, feed, plan, origin, repaired, seen, left>>

ExportScan ==
    /\ export.scan \in 1..Len(ExportOrder)
    /\ LET kind == ExportOrder[export.scan]
       IN  export' = [export EXCEPT
                         !.scan = @ + 1,
                         !.snaps = IF kind = "snapshot"
                                   THEN {x \in db[Src].snaps : x.id <= export.at} ELSE @,
                         !.rows = @ \cup Scanned(db[Src], kind, export.at)]
    /\ UNCHANGED <<db, serving, file, feed, plan, origin, repaired, seen, left>>

ExportDone ==
    /\ export.scan = Len(ExportOrder) + 1
    /\ file' = export
    /\ export' = NotExporting
    /\ UNCHANGED <<db, serving, feed, plan, origin, repaired, seen, left>>

-----------------------------------------------------------------------------
\* Import and migration: both write the lines of a source in the order of its
\* kinds, import one line at a time, migration one kind at a time.

\* Contents that are not those of one source.
Mixed == [tool |-> "mixed", at |-> 0, done |-> FALSE]

NoFeed == [tool |-> "none", snaps |-> {}, rows |-> {}]

\* No tool is at work on Dst.  The steps of an export touch Src only and commute
\* with those of the tools on Dst: the tools wait for its end.
Idle == feed = NoFeed /\ plan = {} /\ export.scan = 0

UseTool == left.tools > 0 /\ left' = [left EXCEPT !.tools = @ - 1]

\* Beginning to fill Dst with what readers of Src saw at s.
Fill(tool, snaps, rows, s, d) ==
    /\ feed' = [tool |-> tool, snaps |-> snaps, rows |-> rows]
    /\ db' = [db EXCEPT ![Dst] = d]
    /\ origin' = IF db[Dst] \in {EmptyDb, Initialized(EmptyDb)}
                 THEN [tool |-> tool, at |-> s, done |-> FALSE] ELSE Mixed
    /\ serving' = serving \ {Dst}
    /\ repaired' = FALSE
    /\ UseTool
    /\ UNCHANGED <<export, file, plan, seen>>

\* cmd_import, import_catalog: into any database, which is not initialised.
ImportStart ==
    /\ Idle /\ file.at # 0
    /\ Fill("import", file.snaps, file.rows, IF file.known THEN file.at ELSE 0, db[Dst])

\* The gate of migrate_from_source, on what SqliteDuckLakeSource takes for the
\* catalog version: the highest schema version of the snapshots.
Admitted(version, accepted) == version > MaxVersion => accepted

\* migrate_from_source: rows of the kinds in DUCKLAKE_TABLES, read in one go.
\* The SQL catalog migrated from has the rows and the history of Src.
MigrateFromSource ==
    /\ Idle /\ CanOpen(db[Dst])
    /\ \E s \in 1..Latest(db[Src]), accepted \in BOOLEAN :
           /\ Admitted(SchemaVersion(db[Src]), accepted)
           /\ Fill("migrate", {x \in db[Src].snaps : x.id <= s},
                   {ToJson(r) : r \in {x \in db[Src].rows :
                        x.kind \in {"table", "file", "delfile", "view"} /\ Visible(x, s)}},
                   s, Opened(db[Dst]))

\* Kinds from first to last in both tools.
Rank(kind) == CHOOSE i \in 1..Len(ExportOrder) : ExportOrder[i] = kind

FirstKind == {r \in feed.rows : \A q \in feed.rows : Rank(r.kind) <= Rank(q.kind)}

FilesWithoutIndex(T) == {}

\* Data files are written together with their index entries.
IndexEntries(T) == {r \in T : r.kind = "file"}

\* Puts of snapshots S and rows T; the counters and the format stay as they are.
Write(S, T) ==
    /\ db' = [db EXCEPT ![Dst].snaps = {x \in @ : \A y \in S : x.id # y.id} \cup S,
                        ![Dst].rows = Put(@, T),
                        ![Dst].index = PutIndex(@, IndexEntries(T))]
    /\ feed' = [feed EXCEPT !.snaps = @ \ S, !.rows = @ \ T]
    /\ UNCHANGED <<serving, export, file, plan, origin, repaired, seen, left>>

ImportLine ==
    /\ feed.tool = "import"
    /\ IF feed.snaps # {}
       THEN \E x \in feed.snaps : (\A y \in feed.snaps : x.id <= y.id) /\ Write({x}, {})
       ELSE \E r \in FirstKind : Write({}, {r})

MigrateTable ==
    /\ feed.tool = "migrate"
    /\ IF feed.snaps # {} THEN Write(feed.snaps, {})
       ELSE FirstKind # {} /\ Write({}, FirstKind)

\* A row that does not decode: import fails, migration skips it and goes on.
MigrateSkip ==
    /\ feed.tool = "migrate" /\ feed.snaps = {}
    /\ \E r \in FirstKind : feed' = [feed EXCEPT !.rows = @ \ {r}]
    /\ origin' = Mixed
    /\ UNCHANGED <<db, serving, export, file, plan, repaired, seen, left>>

FillDone ==
    /\ feed.tool # "none" /\ feed.snaps = {} /\ feed.rows = {}
    /\ feed' = NoFeed
    /\ origin' = [origin EXCEPT !.done = TRUE]
    /\ UNCHANGED <<db, serving, export, file, plan, repaired, seen, left>>

\* An error, a crash, or a server that opens Dst meanwhile.
FillStops ==
    /\ feed.tool # "none"
    /\ feed' = NoFeed
    /\ UNCHANGED <<db, serving, export, file, plan, origin, repaired, seen, left>>

\* rebuild_catalog: one schema (id 1), one table (id 2) and its n files at
\* snapshot 1, in one batch that also sets the counters, on any catalog that
\* opens.
Rebuild ==
    /\ Idle /\ CanOpen(db[Dst])
    /\ \E n \in 0..MaxFiles :
           LET row(k, p, i) == [kind |-> k, parent |-> p, id |-> i, begin |-> 1,
                                end |-> NoEnd, whole |-> FALSE]
               files == {row("file", 2, i) : i \in 1..n}
           IN  db' = [db EXCEPT ![Dst] =
                         [fv |-> Format,
                          counter |-> [snap |-> 2, cat |-> 3, file |-> n + 1],
                          snaps |-> {x \in @.snaps : x.id # 1} \cup {[id |-> 1, sv |-> 1]},
                          rows |-> Put(@.rows, {row("table", 0, 1), row("table", 0, 2)} \cup files),
                          index |-> PutIndex(@.index, files)]]
    /\ origin' = Mixed
    /\ serving' = serving \ {Dst}
    /\ repaired' = FALSE
    /\ UseTool
    /\ UNCHANGED <<export, file, feed, plan, seen>>

\* migrate_apply: export at the latest snapshot, import into the same database,
\* and set the format version.
MigrateApply ==
    /\ Idle
    /\ \E target \in {1, 2} :
           /\ target # db[Dst].fv
           /\ LET d == db[Dst]
                  s == IF d.counter["snap"] = Absent THEN 0 ELSE Latest(d)
                  T == UNION {Scanned(d, ExportOrder[i], s) : i \in 2..Len(ExportOrder)}
              IN  db' = [db EXCEPT ![Dst].rows = Put(@, T),
                                   ![Dst].index = PutIndex(@, IndexEntries(T)),
                                   ![Dst].fv = target]
    /\ serving' = serving \ {Dst}
    /\ repaired' = FALSE
    /\ UseTool
    /\ UNCHANGED <<export, file, feed, plan, origin, seen>>

-----------------------------------------------------------------------------
\* Repair

TableIds(d) == {r.id : r \in {x \in d.rows : x.kind = "table"}}

\* The ids check_counter_consistency holds a counter against.
InUse(d, c) ==
    CASE c = "snap" -> {s.id : s \in d.snaps}
      [] c = "cat"  -> TableIds(d)
      [] c = "file" -> {r.id : r \in {x \in d.rows : x.kind = "file"}}

CorrectAtMax(d, c) == Max(InUse(d, c) \cup {0})

Correct(d, c) == Max(InUse(d, c) \cup {0}) + 1

\* Rows of tables that are not there: check_orphaned_inlined_rows, check_dangling_stats.
Dangling(d) == {r \in d.rows : r.kind \in {"inline", "stat"} /\ r.parent \notin TableIds(d)}

CountersChecked == {"snap", "cat"}

CountersRepaired == {"snap", "cat", "file"}

\* repair_plan, with the values each action will write or delete.
Plan(d) ==
    {<<"counter", c, Correct(d, c)>> :
        c \in {x \in CountersRepaired : d.counter[x] # Absent /\ d.counter[x] < Correct(d, x)}}
    \cup {<<"remove", r, 0>> : r \in Dangling(d)}

\* check_critical_integrity: without format or snapshot, repair_apply refuses.
Repairable(d) == d.fv # Absent /\ d.snaps # {}

RepairStart ==
    /\ Idle /\ Repairable(db[Dst]) /\ ~repaired
    /\ plan' = Plan(db[Dst]) \cup {<<"end", "ok", 0>>}
    /\ serving' = serving \ {Dst}
    /\ UseTool
    /\ UNCHANGED <<db, export, file, feed, origin, repaired, seen>>

\* apply_action
RepairAction ==
    /\ \E a \in plan :
           /\ a[1] # "end"
           /\ plan' = plan \ {a}
           /\ db' = IF a[1] = "counter" THEN [db EXCEPT ![Dst].counter[a[2]] = a[3]]
                    ELSE [db EXCEPT ![Dst].rows = @ \ {a[2]}]
    /\ UNCHANGED <<serving, export, file, feed, origin, repaired, seen, left>>

\* apply_action fails: repair_apply counts it and goes on with the next action.
RepairActionFails ==
    /\ \E a \in plan : a[1] # "end" /\ plan' = (plan \ {a, <<"end", "ok", 0>>}) \cup {<<"end", "failed", 0>>}
    /\ UNCHANGED <<db, serving, export, file, feed, origin, repaired, seen, left>>

RepairDone ==
    /\ \E a \in plan : plan = {a} /\ a[1] = "end" /\ repaired' = (a[2] = "ok")
    /\ plan' = {}
    /\ UNCHANGED <<db, serving, export, file, feed, origin, seen, left>>

RepairStops ==
    /\ plan # {}
    /\ plan' = {}
    /\ UNCHANGED <<db, serving, export, file, feed, origin, repaired, seen, left>>

-----------------------------------------------------------------------------
\* Serving

\* cmd_serve: CatalogStore::open on Dst.
Open ==
    /\ Idle /\ Dst \notin serving
    /\ CanOpen(db[Dst])
    /\ db' = [db EXCEPT ![Dst] = Opened(@)]
    /\ serving' = serving \cup {Dst}
    /\ UNCHANGED <<export, file, feed, plan, origin, repaired, seen, left>>

\* Src goes on until Dst is touched: later commits of Src concern nobody here.
CommitSrc ==
    /\ db[Dst] = EmptyDb /\ file.at = 0
    /\ db[Src].counter["snap"] <= MaxSnap
    /\ \E d \in Commits(db[Src]) :
           /\ db' = [db EXCEPT ![Src] = d]
           /\ seen' = [s \in 1..Latest(d) |-> IF s < Latest(d) THEN seen[s] ELSE At(d, s)]
    /\ UNCHANGED <<serving, export, file, feed, plan, origin, repaired, left>>

CommitDst ==
    /\ Idle /\ Dst \in serving
    /\ db[Dst].counter["snap"] <= MaxSnap + MaxCommits
    /\ \E d \in Commits(db[Dst]) : db' = [db EXCEPT ![Dst] = d]
    /\ origin' = Mixed
    /\ left.commits > 0 /\ left' = [left EXCEPT !.commits = @ - 1]
    /\ UNCHANGED <<serving, export, file, feed, plan, repaired, seen>>

\* Src after the first ATTACH: snapshot 1 with one object; Dst an empty path.
InitTransfer ==
    /\ db = [c \in {Src, Dst} |->
                IF c = Dst THEN EmptyDb
                ELSE Committed(Initialized(EmptyDb),
                               {New(Initialized(EmptyDb), "table", 0, 1)}, {}, "cat", TRUE)]
    /\ serving = {Src}
    /\ export = NotExporting /\ file = NotExporting
    /\ feed = NoFeed /\ plan = {}
    /\ origin = Mixed
    /\ repaired = FALSE
    /\ seen = [s \in {1} |-> At(db[Src], 1)]
    /\ left = [tools |-> MaxTools, commits |-> MaxCommits]

NextTransfer ==
    \/ ExportStart \/ ExportScan \/ ExportDone
    \/ ImportStart \/ ImportLine \/ MigrateFromSource \/ MigrateTable \/ MigrateSkip
    \/ FillDone \/ FillStops \/ Rebuild \/ MigrateApply
    \/ RepairStart \/ RepairAction \/ RepairActionFails \/ RepairDone \/ RepairStops
    \/ Open \/ CommitSrc \/ CommitDst

SpecTransfer == InitTransfer /\ [][NextTransfer]_transfer

-----------------------------------------------------------------------------
\* The tools that only read

\* verify_catalog finds no error.
Verified(d) ==
    /\ d.fv = Format
    /\ \A c \in DOMAIN d.counter : d.counter[c] # Absent
    /\ \A r \in d.rows : r.kind = "table" => r.end = NoEnd \/ r.begin < r.end

\* diagnose_catalog finds nothing: check_secondary_index, detect_snapshot_gaps.
Diagnosed(d) ==
    /\ \A r \in d.rows : r.kind = "file" => \E x \in d.index : IndexKey(x) = IndexKey(r)
    /\ 1..Latest(d) \subseteq {s.id : s \in d.snaps}

-----------------------------------------------------------------------------
\* Properties

\* One row per key in every database, ids only below the counters of Src, and
\* nothing half-done that no tool is at work on.
TransferTypeOK ==
    /\ \A c \in {Src, Dst} :
           /\ db[c].fv \in {Absent, 1, 2}
           /\ \A r, q \in db[c].rows : Key(r) = Key(q) => r = q
           /\ \A r, q \in db[c].index : IndexKey(r) = IndexKey(q) => r = q
           /\ \A x, y \in db[c].snaps : x.id = y.id => x = y
    /\ Src \in serving
    /\ Dst \in serving => db[Dst].fv = Format /\ feed = NoFeed /\ plan = {}
    /\ feed = NoFeed \/ plan = {}

\* An export that is no storage snapshot is nevertheless a catalog snapshot: what
\* it wrote of the versioned rows is what readers saw at its snapshot when that
\* was new, whatever was committed or dropped between its scans.
ExportConsistent ==
    file.known => {Fact(r) : r \in {x \in file.rows : x.kind # "stat"}} = seen[file.at]

\* A catalog filled from one source without interruption, then opened and
\* repaired, shows at its latest snapshot what readers of the source saw there
\* (of the kinds the tool carries over).
RestoredFaithfully ==
    repaired /\ Dst \in serving /\ origin.done /\ origin.at # 0 =>
        /\ Latest(db[Dst]) = origin.at
        /\ At(db[Dst], origin.at) =
               IF origin.tool = "import" THEN seen[origin.at]
               ELSE {f \in seen[origin.at] : f[1] # "inline"}

\* A catalog that opens passes diagnose, however it was filled (by interrupted
\* imports, by migrations on top of each other, by a rebuild over existing rows),
\* whether or not it was repaired and whatever its servers committed on counters
\* not yet repaired.  It passes verify as well as long as no server has committed:
\* one that drops a table on such counters may end columns where they begin.
OpenedHealthy ==
    Dst \in serving =>
        /\ Diagnosed(db[Dst])
        /\ left.commits = MaxCommits => Verified(db[Dst])

\* After a completed repair commits overwrite no table, no data file and no
\* snapshot that the tools brought in: they only retire.
RepairedIdsFresh ==
    [][repaired /\ repaired' =>
          /\ \A s \in db[Dst].snaps : s \in db'[Dst].snaps
          /\ \A r \in db[Dst].rows : r.kind \in {"table", "file"} =>
                 \E q \in db'[Dst].rows : Fact(q) = Fact(r)]_transfer

\* docs/operations/backup-restore.md: after an import the first new snapshot
\* starts after the highest imported snapshot.
ImportedSnapshotsKept ==
    [][origin.tool = "import" /\ origin.done =>
          \A s \in db[Dst].snaps : s \in db'[Dst].snaps]_transfer
=============================================================================
