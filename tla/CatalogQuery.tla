----------------------------- MODULE CatalogQuery -----------------------------
(***************************************************************************)
(* The statements that read a catalog: what rocklake-pgwire/src/executor   *)
(* makes of a SELECT over the ducklake_* tables, with the CatalogReader of *)
(* rocklake-catalog/src/reader.rs.                                         *)
(*                                                                         *)
(* A reader is a clone of the database handle and a snapshot id, made      *)
(* under the lock of the store.  It takes no snapshot of the storage: each *)
(* scan finds the rows of its moment and keeps those visible at the id,    *)
(* and a statement that walks schemas, tables and columns or files scans   *)
(* many times, with commits, collection and excision in between.           *)
(*                                                                         *)
(* Statements change nothing and see nothing of each other, so that one at *)
(* a time has all the interleavings there are.  A statement without a      *)
(* snapshot parameter (all of the simple protocol, which has no parameters)*)
(* reads at u64::MAX.  Abstractions: views, macros, tags and sort info are *)
(* listed like schemas, delete files like data files; the type of a pruned *)
(* column is that of its values.                                           *)
(***************************************************************************)
EXTENDS Feeds

VARIABLES
    floorCache, \* retain_from_cache: the floor when the store was opened
    q           \* the statement

vars == <<feeds, floorCache, q>>

-----------------------------------------------------------------------------
Listings == {"schemas", "tables", "columns", "files"}

\* No table (or schema) parameter: the statement walks all of them.
All == 0

\* The snapshot id u64::MAX: the rows visible at it are the live ones.
Unbounded == MaxSnapshots + 1

NoStatement ==
    [op |-> "none", of |-> All, snap |-> 0, todo |-> <<>>, got |-> {},
     ever |-> {}, always |-> {}]

Init ==
    /\ InitFeeds
    /\ floorCache = 0
    /\ q = NoStatement

Answered == q.todo = <<>>

\* read_at: refused below the cached floor.
ReadAt(snap) == ~(floorCache > 0 /\ snap < floorCache)

\* The scan a statement begins with.
FirstScan(op, of) ==
    IF op \in Listings /\ of = All THEN <<"schemas", All>>
    ELSE IF op \in {"columns", "inlined"} THEN <<"describe", of>>
    ELSE <<op, of>>

\* History of the statements read at u64::MAX: the live rows.
Watched(snap, R) == IF snap = Unbounded THEN Facts(R, Unbounded) ELSE {}

\* A statement begins.  `ever` and `always` are history: what was live at some
\* time, and at all times, since then.
Ask(op, of, snap) ==
    /\ q = NoStatement
    /\ session = NoSession
    /\ q' = [op |-> op, of |-> of, snap |-> snap, todo |-> <<FirstScan(op, of)>>,
             got |-> {}, ever |-> Watched(snap, rows),
             always |-> Watched(snap, rows)]
    /\ UNCHANGED <<feeds, floorCache>>

\* SelectSchemas, SelectTables, SelectColumns, SelectDataFiles
AskListing(op, of, snap) ==
    /\ ReadAt(snap)
    /\ op = "schemas" => of = All
    /\ op = "tables" => of \in {All, 1}
    /\ Ask(op, of, snap)

\* SelectInlinedRows: read_latest
AskInlined(t) == Ask("inlined", t, head)

\* SelectSnapshotStatsAndChanges: read_latest, the snapshot row and then the
\* table statistics.
AskStats == Ask("stats", All, head)

\* SelectFileColumnStats with a predicate: prune_files
AskPrune(t, v, snap) ==
    /\ ReadAt(snap)
    /\ Ask("prune", <<t, v>>, snap)

-----------------------------------------------------------------------------
\* The scans

\* Mutant: what is live now, for what is visible at the snapshot.
LiveRows(kind) == LiveOf(kind)

\* What a scan finds of a kind, and shows.
Found(kind) == {r \in rows : r.kind = kind /\ Visible(r, q.snap)}

Below(kind, parent) == {r \in Found(kind) : r.parent = parent}

\* Ids in the order of the keys that hold them.
InOrder(ids) ==
    CHOOSE s \in SetToSeqs(ids) : \A i, j \in DOMAIN s : i < j => s[i] < s[j]

\* The scans that follow for the parents found, in the order of their keys.
Each(op, R) ==
    LET ids == InOrder({r.id : r \in R})
    IN  [i \in 1..Len(ids) |-> <<op, ids[i]>>]

\* Mutant: the scans still to come are forgotten.
ScannedLast(R, more) == q' = [q EXCEPT !.got = @ \cup R, !.todo = more]

\* The next scan has found R, which is part of the answer, or parents, below
\* which the scans of `more` go on.
Scanned(R, more) ==
    q' = [q EXCEPT !.got = @ \cup R, !.todo = more \o Tail(@)]

\* Mutant: the maximum is taken for exclusive.
BelowRange(x, v) == x.min <= v /\ v < x.max

\* prune_file: the file may hold the value.
InRange(x, v) == x.min <= v /\ v <= x.max

\* Snapshot row and statistics: made of rows without versions.
Counted == {<<t, stats.counts[t]>> : t \in 1..MaxTables}

Kept(t, v) == {x.file : x \in {y \in stats.ranges : y.table = t /\ InRange(y, v)}}

\* The next scan is of this kind.
Turn(kind) == ~Answered /\ q.todo[1][1] = kind

\* Its table or schema.
Of == q.todo[1][2]

Answers(R) == Scanned({Fact(r) : r \in R}, <<>>)

ScanSchemas ==
    /\ Turn("schemas")
    /\ LET S == Found("schema") IN
       IF q.op = "schemas" THEN Answers(S) ELSE Scanned({}, Each("tables", S))
    /\ UNCHANGED <<feeds, floorCache>>

ScanTables ==
    /\ Turn("tables")
    /\ LET T == Below("table", Of) IN
       IF q.op = "tables" THEN Answers(T)
       ELSE Scanned({}, Each(IF q.op = "columns" THEN "describe" ELSE "files", T))
    /\ UNCHANGED <<feeds, floorCache>>

\* describe_table begins with the table.
ScanTable ==
    /\ Turn("describe")
    /\ Scanned({}, IF \E r \in Found("table") : r.id = Of THEN <<<<q.op, Of>>>> ELSE <<>>)
    /\ UNCHANGED <<feeds, floorCache>>

ScanColumns ==
    /\ Turn("columns")
    /\ Answers(Below("column", Of))
    /\ UNCHANGED <<feeds, floorCache>>

ScanFiles ==
    /\ Turn("files")
    /\ Answers(Below("file", Of))
    /\ UNCHANGED <<feeds, floorCache>>

ScanInlined ==
    /\ Turn("inlined")
    /\ Answers({r \in Found("inlined") : r.parent[1] = Of})
    /\ UNCHANGED <<feeds, floorCache>>

\* The snapshot row, of the snapshot the reader is bound to.
ScanSnapshot ==
    /\ Turn("stats")
    /\ Scanned({}, <<<<"counts", All>>>>)
    /\ UNCHANGED <<feeds, floorCache>>

ScanTableStats ==
    /\ Turn("counts")
    /\ Scanned(Counted, <<>>)
    /\ UNCHANGED <<feeds, floorCache>>

ScanFileStats ==
    /\ Turn("prune")
    /\ Scanned(Kept(Of[1], Of[2]), <<>>)
    /\ UNCHANGED <<feeds, floorCache>>

-----------------------------------------------------------------------------
\* table_changes(table_ref, start, end): the check of the floor and the diff
\* are made under the lock.  The data files, which never change, are read after
\* it; one that is missing fails the statement.

FileRows(R) ==
    LET ids == InOrder({r.id : r \in R})
    IN  [i \in 1..Len(ids) |-> CHOOSE r \in R : r.id = ids[i]]

\* Mutant: the count starts over with each file.
NumberedPerFile(R) == {[rowid |-> 0, row |-> Fact(r)] : r \in R}

\* extract_rows_from_parquet numbers the rows of one list on from 0, file after
\* file; table_ref chooses neither files nor rows.
Numbered(R) ==
    LET files == FileRows(R)
    IN  {[rowid |-> i - 1, row |-> Fact(files[i])] : i \in DOMAIN files}

\* compute_table_changes: equal numbers make an update of two rows.
TableChanges(added, removed) ==
    LET both == {a.rowid : a \in added} \cap {r.rowid : r \in removed}
        ByRowid(S, i) == CHOOSE x \in S : x.rowid = i
    IN  {[type |-> "update_preimage", row |-> ByRowid(removed, i).row] : i \in both} \cup
        {[type |-> "update_postimage", row |-> ByRowid(added, i).row] : i \in both} \cup
        {[type |-> "insert", row |-> a.row] : a \in {x \in added : x.rowid \notin both}} \cup
        {[type |-> "delete", row |-> r.row] : r \in {x \in removed : x.rowid \notin both}}

AddedFiles(from, to) == {r \in Added(from, to) : r.kind = "file"}

RemovedFiles(from, to) == {r \in Removed(from, to) : r.kind = "file"}

SelectTableChanges(start, end) ==
    /\ q = NoStatement
    /\ session = NoSession
    /\ ~(start < retainFrom /\ retainFrom > 0)
    /\ ReadAt(start)
    /\ q' = [NoStatement EXCEPT
                !.op = "changes", !.of = <<start, end>>,
                !.got = TableChanges(Numbered(AddedFiles(start, end)),
                                     Numbered(RemovedFiles(start, end)))]
    /\ UNCHANGED <<feeds, floorCache>>

-----------------------------------------------------------------------------
\* The answer is sent.  What the catalog does before that changes no answer.
Done ==
    /\ q # NoStatement /\ Answered
    /\ q' = NoStatement
    /\ UNCHANGED <<feeds, floorCache>>

\* The catalog moves on, while a statement runs or with none running.
Meanwhile ==
    /\ q = NoStatement \/ ~Answered
    /\ CatalogStep \/ \E c \in Consumer : CommitBatch(c, TRUE)
    /\ q' = [q EXCEPT !.ever = @ \cup Watched(q.snap, rows'),
                      !.always = @ \cap Watched(q.snap, rows')]
    /\ UNCHANGED floorCache

\* The server starts again and reads the floor.
Restart ==
    /\ q = NoStatement \/ ~Answered
    /\ floorCache # retainFrom
    /\ floorCache' = retainFrom
    /\ q' = NoStatement
    /\ session' = NoSession
    /\ UNCHANGED <<rows, stats, head, version, shown, floor, sink, tailer>>

Next ==
    \/ \E snap \in (1..head) \cup {Unbounded} :
           \/ \E op \in Listings, of \in 0..MaxTables : AskListing(op, of, snap)
           \/ \E t \in 1..MaxTables, v \in Value : AskPrune(t, v, snap)
    \/ \E t \in 1..MaxTables : AskInlined(t)
    \/ AskStats
    \/ ScanSchemas \/ ScanTables \/ ScanTable \/ ScanColumns \/ ScanFiles
    \/ ScanInlined \/ ScanSnapshot \/ ScanTableStats \/ ScanFileStats
    \/ \E end \in 1..head : \E start \in 1..end : SelectTableChanges(start, end)
    \/ Done \/ Meanwhile \/ Restart

Spec == Init /\ [][Next]_vars

-----------------------------------------------------------------------------
\* Properties

Kind == [schemas |-> "schema", tables |-> "table", columns |-> "column",
         files |-> "file", inlined |-> "inlined"]

\* The part of a state of the catalog that the statement asks for.
Asked(F) ==
    IF q.op = "inlined"
    THEN {f \in F : /\ f[1] = "inlined" /\ f[2][1] = q.of
                    /\ \E g \in F : g[1] = "table" /\ g[3] = q.of}
    ELSE {f \in F : f[1] = Kind[q.op] /\ q.of \in {All, f[2]}}

\* Snapshot isolation of answers: a statement bound to a snapshot, by parameter
\* or as the latest one, answers with what that snapshot showed when it was the
\* latest, whatever is committed, collected and excised between its scans, as
\* long as the snapshot is not below the floor by the end.
BoundExact ==
    q.op \in DOMAIN Kind /\ Answered /\ q.snap \in retainFrom..MaxSnapshots =>
        q.got = Asked(shown[q.snap])

\* An answer read at u64::MAX may be that of no snapshot, but it has every row
\* that was live all the time, and no row that was not live at some time.
UnboundSound ==
    q.op \in Listings /\ Answered /\ q.snap = Unbounded =>
        Asked(q.always) \subseteq q.got /\ q.got \subseteq q.ever

\* Statistics have no versions, but they never miss what the snapshot of their
\* statement holds: pruning keeps each of its files with the value asked for,
\* and the record counts include all of its files.
StatsCover ==
    /\ q.op = "prune" /\ Answered /\ q.snap \in retainFrom..MaxSnapshots =>
           \A f \in shown[q.snap] :
               f[1] = "file" /\ f[2] = q.of[1] /\ f[5] = q.of[2] => f[3] \in q.got
    /\ q.op = "stats" /\ Answered =>
           \A x \in q.got :
               x[2] >= Cardinality({f \in shown[q.snap] : f[1] = "file" /\ f[2] = x[1]})

Comes(F, G) == {f \in G \ F : f[1] = "file"}

\* table_changes reports each row that came or went between the two snapshots,
\* as one image, however much of it has been excised since.
ChangesExact ==
    q.op = "changes" =>
        LET start == q.of[1]
            end == q.of[2]
            images(types) == {c.row : c \in {x \in q.got : x.type \in types}}
        IN  /\ images({"insert", "update_postimage"}) =
                   UNION {Comes(shown[s], shown[s + 1]) : s \in start..(end - 1)}
            /\ images({"delete", "update_preimage"}) =
                   UNION {Comes(shown[s + 1], shown[s]) : s \in start..(end - 1)}
=============================================================================
