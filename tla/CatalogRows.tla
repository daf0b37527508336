----------------------------- MODULE CatalogRows -----------------------------
(***************************************************************************)
(* The versioned rows of a catalog: what the operations of CatalogWriter   *)
(* (rocklake-catalog/src/writer/mod.rs) stage, what create_snapshot makes  *)
(* of it, and what CatalogReader (reader.rs) shows at each snapshot.       *)
(*                                                                         *)
(* A row is visible from its begin_snapshot until before its end_snapshot. *)
(* Operations read the committed rows only, never the rows staged earlier  *)
(* in the same session, and a put replaces the row stored under its key.   *)
(*                                                                         *)
(* Abstractions: one live writer with one session at a time (CatalogCommit *)
(* shows why); a session's commit is atomic (CatalogCommit); a row keeps   *)
(* its key fields and its interval.  Kind "tag" stands for tags, column    *)
(* tags, sort info and partition info, which have the same key layout and  *)
(* the same life; kind "view" for views and macros.                        *)
(***************************************************************************)
EXTENDS Naturals, FiniteSets, FiniteSetsExt

CONSTANTS
    Clients,        \* what the clients of a catalog may do: see below
    Ended,          \* kinds whose end_snapshot clients UPDATE over SQL
    MaxSnapshots,   \* bound: snapshots, the bootstrap one included
    MaxCatalogId,   \* bound: ids of schemas, tables, columns and views
    MaxFileId,      \* bound: ids of data files and delete files
    MaxRowId,       \* bound: ids of inlined rows
    MaxOps          \* bound: operations in one session

\* Clients name live rows.  Some do more, and Clients has the sets of what they
\* may do more in a catalog.  "stale": a request names a row that another session
\* has retired since the client read it.  "replace": a transaction deletes an
\* inlined row and inserts it again under the same row id, as SQL UPDATE of
\* inlined data does.
ASSUME ClientsAssumption == Clients \subseteq SUBSET {"stale", "replace"}

ASSUME BoundsAssumption ==
    /\ MaxSnapshots \in Nat \ {0}
    /\ {MaxCatalogId, MaxFileId, MaxRowId, MaxOps} \subseteq Nat

VARIABLES
    clients,    \* what the clients of this catalog do
    rows,       \* committed rows
    index,      \* the by-snapshot copies of the data file rows (tag 0x21)
    head,       \* latest snapshot
    counters,   \* the store's catalog and file counters
    next,       \* the session's copy of them
    staged,     \* rows the session will put
    stagedIdx,  \* index entries the session will put
    ops,        \* operations of the session so far
    seen        \* history: what readers saw at each snapshot when it was new

vars == <<clients, rows, index, head, counters, next, staged, stagedIdx, ops, seen>>

-----------------------------------------------------------------------------
\* Rows

NoEnd == 0

Kind == {"schema", "table", "column", "view", "tag", "file", "delete", "inlined"}

Row == [kind : Kind, parent : Nat, id : Nat, begin : Nat, end : Nat]

\* Kinds with begin_snapshot in their key: every version has a key of its own.
Versioned == {"table", "column", "view", "tag"}

\* The key of a row (rocklake-core/src/keys.rs).
Key(r) ==
    <<r.kind, r.parent, r.id, IF r.kind \in Versioned THEN r.begin ELSE 0>>

\* mvcc::is_visible
Visible(r, s) == r.begin <= s /\ (r.end = NoEnd \/ s < r.end)

\* A row without its end: what a reader at some snapshot is told about it.
Fact(r) == <<r.kind, r.parent, r.id, r.begin>>

At(s) == {Fact(r) : r \in {x \in rows : Visible(x, s)}}

AppendAll(S, T) == S \cup T

\* A put of the rows of T, which have different keys, over S.
PutAll(S, T) == {x \in S : \A t \in T : Key(x) # Key(t)} \cup T

\* The snapshot a session's rows begin or end at: peek_snapshot_id().
Peek == head + 1

New(kind, parent, id) ==
    [kind |-> kind, parent |-> parent, id |-> id, begin |-> Peek, end |-> NoEnd]

RetiredEarly(r) == [r EXCEPT !.end = head]

RetiredLate(r) == [r EXCEPT !.end = Peek + 1]

Retired(r) == [r EXCEPT !.end = Peek]

Live(r) == r.end = NoEnd

\* Rows of a kind that a client may name.
Named(kind) == {r \in rows : r.kind = kind /\ (Live(r) \/ "stale" \in clients)}

\* Tables a session may add to: committed ones, or its own.
Tables == {r.id : r \in Named("table") \cup {x \in staged : x.kind = "table"}}

\* Data files a delete file may apply to.
Files == {r.id : r \in Named("file") \cup {x \in staged : x.kind = "file"}}

-----------------------------------------------------------------------------
\* The catalog after the first ATTACH: snapshot 1 with one schema.
Init ==
    /\ clients \in Clients
    /\ head = 1
    /\ rows = {[kind |-> "schema", parent |-> 0, id |-> 1, begin |-> 1, end |-> NoEnd]}
    /\ index = {}
    /\ counters = [catalog |-> 2, file |-> 1]
    /\ next = counters
    /\ staged = {} /\ stagedIdx = {} /\ ops = 0
    /\ seen = [s \in {1} |-> At(1)]

\* An operation that stages the rows of T and the index entries of I.
Stage(T, I) ==
    /\ ops < MaxOps
    /\ head < MaxSnapshots
    /\ ops' = ops + 1
    /\ staged' = PutAll(staged, T)
    /\ stagedIdx' = PutAll(stagedIdx, I)
    /\ UNCHANGED <<clients, rows, index, head, counters, seen>>

AllocCatalogId == next' = [next EXCEPT !.catalog = @ + 1]

AllocFileId == next' = [next EXCEPT !.file = @ + 1]

-----------------------------------------------------------------------------
\* CatalogWriter: creating

CreateSchema ==
    /\ next.catalog <= MaxCatalogId
    /\ Stage({New("schema", 0, next.catalog)}, {})
    /\ AllocCatalogId

CreateTable ==
    /\ next.catalog <= MaxCatalogId
    /\ \E s \in Named("schema") :
           Stage({New("table", s.id, next.catalog)}, {})
    /\ AllocCatalogId

AddColumn ==
    /\ next.catalog <= MaxCatalogId
    /\ \E t \in Tables : Stage({New("column", t, next.catalog)}, {})
    /\ AllocCatalogId

\* create_view, create_macro
CreateView ==
    /\ next.catalog <= MaxCatalogId
    /\ \E s \in Named("schema") : Stage({New("view", s.id, next.catalog)}, {})
    /\ AllocCatalogId

\* set_tag, set_column_tag, add_sort_info: the client chooses the tag.
SetTag ==
    /\ \E t \in Tables : Stage({New("tag", t, 1)}, {})
    /\ UNCHANGED next

\* register_data_file: the row, and its copy for snapshot-bounded scans.
RegisterDataFile ==
    /\ next.file <= MaxFileId
    /\ \E t \in Tables :
           Stage({New("file", t, next.file)}, {New("file", t, next.file)})
    /\ AllocFileId

\* register_delete_file: table_id is left out of the row, so that the data file
\* is its only link to a table.
RegisterDeleteFile ==
    /\ next.file <= MaxFileId
    /\ \E f \in Files : Stage({New("delete", f, next.file)}, {})
    /\ AllocFileId

\* The row id execute_commit settles on: the first one from the client's row id
\* on that no row, committed or staged, uses.
FreeRowId(t, wanted) ==
    Min({i \in wanted..(MaxRowId + 1) :
            ~\E r \in rows \cup staged :
                r.kind = "inlined" /\ r.parent = t /\ r.id = i})

\* BufferedOp::InsertInlinedRow -> register_inlined_insert
InsertInlinedRow ==
    /\ \E t \in Tables, wanted \in 0..MaxRowId :
           /\ FreeRowId(t, wanted) <= MaxRowId
           /\ Stage({New("inlined", t, FreeRowId(t, wanted))}, {})
    /\ UNCHANGED next

-----------------------------------------------------------------------------
\* CatalogWriter: retiring

\* drop_schema, drop_view, drop_macro, remove_tag, remove_column_tag: the row
\* is fetched by its key and put back with an end, whether it has one or not.
DropOne ==
    /\ \E r \in Named("schema") \cup Named("view") \cup Named("tag") :
           Stage({Retired(r)}, {})
    /\ UNCHANGED next

CascadeWithoutDeleteFiles(t) ==
    {r \in rows :
        /\ Live(r)
        /\ r.kind \in {"column", "file", "tag", "inlined"} /\ r.parent = t.id}

\* What drop_table retires with the table: the committed rows of the table that
\* are live, and the delete files of the data files it retires.
Cascade(t) ==
    LET files == {r \in rows : Live(r) /\ r.kind = "file" /\ r.parent = t.id}
    IN  files \cup
        {r \in rows :
            /\ Live(r)
            /\ \/ r.kind \in {"column", "tag", "inlined"} /\ r.parent = t.id
               \/ r.kind = "delete" /\ \E f \in files : f.id = r.parent}

StaleIndex(t) == {}

\* The index entries drop_table rewrites.
CascadeIndex(t) ==
    {Retired(r) : r \in {x \in Cascade(t) : x.kind = "file"}}

\* UPDATE ducklake_table SET end_snapshot -> find_table_schema_id, drop_table
DropTable ==
    /\ "table" \in Ended
    /\ \E t \in Named("table") :
           Stage({Retired(r) : r \in Cascade(t) \cup {t}}, CascadeIndex(t))
    /\ UNCHANGED next

\* UPDATE ducklake_column SET end_snapshot -> find_column_table_id, drop_column.
\* The table is found through a live version of the column, the row to retire
\* through the begin_snapshot of the request: they need not be the same row.
DropColumn ==
    /\ "column" \in Ended
    /\ \E c \in Named("column") :
           /\ \E l \in rows : l.kind = "column" /\ l.id = c.id /\ Live(l)
           /\ Stage({Retired(c)}, {})
    /\ UNCHANGED next

\* UPDATE of any other table's end_snapshot: acknowledged, and nothing staged.
EndUpdateIgnored ==
    /\ \E k \in Ended \ {"table", "column"} : Named(k) # {}
    /\ Stage({}, {})
    /\ UNCHANGED next

\* The two rows of rename_column and insert_renamed_column.
Renamed(c) == {Retired(c), [c EXCEPT !.begin = Peek, !.end = NoEnd]}

RenameColumn ==
    /\ \E c \in {r \in rows : r.kind = "column" /\ Live(r)} : Stage(Renamed(c), {})
    /\ UNCHANGED next

\* UPDATE ducklake_inlined_* SET end_snapshot -> mark_inlined_insert_deleted
DeleteInlinedRow ==
    /\ \E r \in Named("inlined") : Stage({Retired(r)}, {})
    /\ UNCHANGED next

\* DeleteInlinedRows and InsertInlinedRow of the same row id in one transaction:
\* the delete is skipped and the insert reuses the key.
ReplaceInlinedRow ==
    /\ "replace" \in clients
    /\ \E r \in Named("inlined") : Stage({New("inlined", r.parent, r.id)}, {})
    /\ UNCHANGED next

-----------------------------------------------------------------------------
\* An operation fails (NotFound, ValueTooLarge) and the session is dropped with
\* all it staged; the store's counters never moved.
FailSession ==
    /\ ops > 0
    /\ staged' = {} /\ stagedIdx' = {} /\ ops' = 0
    /\ next' = counters
    /\ UNCHANGED <<clients, rows, index, head, counters, seen>>

\* create_snapshot and commit_writer.
CreateSnapshot ==
    /\ ops > 0
    /\ rows' = PutAll(rows, staged)
    /\ index' = PutAll(index, stagedIdx)
    /\ head' = head + 1
    /\ seen' = [s \in 1..(head + 1) |->
                   IF s <= head THEN seen[s]
                   ELSE {Fact(r) : r \in {x \in rows' : Visible(x, s)}}]
    /\ staged' = {} /\ stagedIdx' = {} /\ ops' = 0
    /\ counters' = next
    /\ UNCHANGED <<clients, next>>

Next ==
    \/ CreateSchema \/ CreateTable \/ AddColumn \/ CreateView \/ SetTag
    \/ RegisterDataFile \/ RegisterDeleteFile \/ InsertInlinedRow
    \/ DropOne \/ DropTable \/ DropColumn \/ EndUpdateIgnored \/ RenameColumn
    \/ DeleteInlinedRow \/ ReplaceInlinedRow
    \/ FailSession \/ CreateSnapshot

Spec == Init /\ [][Next]_vars

-----------------------------------------------------------------------------
\* CatalogReader

\* list_data_files at snapshot s: a scan of the index up to s, without the
\* files retired by then.
ListDataFiles(t, s) ==
    {r \in index : r.parent = t /\ r.begin <= s /\ ~(r.end # NoEnd /\ r.end <= s)}

\* snapshot_diff(from, to)
Added(from, to) == {r \in rows : from < r.begin /\ r.begin <= to}

RemovedBefore(from, to) == {r \in rows : r.end # NoEnd /\ from < r.end /\ r.end < to}

Removed(from, to) == {r \in rows : r.end # NoEnd /\ from < r.end /\ r.end <= to}

-----------------------------------------------------------------------------
\* Properties

\* Rows and index entries are rows, with one row per key, and all a session
\* has staged is its own: it begins or ends at the snapshot the session gets.
TypeOK ==
    /\ rows \in SUBSET Row /\ staged \in SUBSET Row
    /\ index \in SUBSET Row /\ stagedIdx \in SUBSET Row
    /\ \A S \in {rows, index, staged, stagedIdx} :
           \A r, q \in S : Key(r) = Key(q) => r = q
    /\ \A r \in staged : r.begin = Peek \/ r.end = Peek
    /\ head \in 1..MaxSnapshots /\ ops \in 0..MaxOps
    /\ DOMAIN seen = 1..head

\* Time travel: as long as clients name live rows, a reader finds at every
\* snapshot exactly what a reader found when that snapshot was the latest one.
TimeTravel == clients = {} => \A s \in 1..head : At(s) = seen[s]

\* drop_table leaves nothing of the table behind: whatever was committed for it
\* before the drop is visible at no snapshot from the drop on.
CascadeComplete ==
    clients = {} => \A t \in rows : t.kind = "table" /\ ~Live(t) =>
        \A r \in rows :
            /\ \/ r.kind \in {"column", "tag", "inlined", "file"} /\ r.parent = t.id
               \/ r.kind = "delete" /\ \E f \in rows :
                      f.kind = "file" /\ f.id = r.parent /\ f.parent = t.id
            /\ r.begin < t.end
            => ~Live(r) /\ r.end <= t.end

\* A change feed that applies snapshot_diff(from, to) to the state it saw at
\* `from` arrives at the state of `to`, however late it asks.
DiffReplays ==
    clients = {} => \A to \in 1..head : \A from \in 1..to :
        seen[to] = (seen[from] \cup {Fact(r) : r \in Added(from, to)})
                       \ {Fact(r) : r \in Removed(from, to)}

\* The index scan of list_data_files finds what a scan of the data file rows
\* with the visibility rule finds.
IndexAgrees ==
    \A s \in 1..head, t \in 1..MaxCatalogId :
        ListDataFiles(t, s) =
            {r \in rows : r.kind = "file" /\ r.parent = t /\ Visible(r, s)}

\* What has disappeared from the latest snapshot does not come back, whatever
\* clients retire twice or replace.
NoResurrection ==
    [][\A r \in rows : Fact(r) \notin At(head) => Fact(r) \notin At(head)']_vars
=============================================================================
