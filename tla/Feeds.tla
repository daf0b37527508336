-------------------------------- MODULE Feeds --------------------------------
(***************************************************************************)
(* What flows into and out of a catalog while it is in use: commits, the   *)
(* streaming sink (rocklake-catalog/src/streaming.rs) that commits batches *)
(* of records together with its consumer's offset, and the change tailer   *)
(* (cdc.rs) that exports what happened since its last poll.                *)
(*                                                                         *)
(* commit_batch() has the store by &mut and poll_once() by &, so that each *)
(* is one step here.  What is not one step: the answer of a commit_batch() *)
(* may be lost, the file of a poll may not get written, the process may    *)
(* stop between the two, and garbage collection and excision run beside    *)
(* all of it.                                                              *)
(*                                                                         *)
(* Abstractions: one schema; a table comes with one column; a commit holds *)
(* one change, or data files (CatalogRows has the rest); a data file holds *)
(* one value.                                                              *)
(***************************************************************************)
EXTENDS Naturals, FiniteSets, SequencesExt

CONSTANTS
    Consumer,       \* consumers of the stream that feeds the sink
    Lens,           \* the lengths of the batches of that stream
    Value,          \* values in the data files
    MaxSnapshots,   \* bound: snapshots, the bootstrap one included
    MaxTables,      \* bound: tables
    MaxFiles        \* bound: data files

ASSUME LensAssumption == Lens \in Seq(Nat \ {0})
ASSUME ValueAssumption == Value \subseteq Nat
ASSUME BoundsAssumption == {MaxSnapshots, MaxTables, MaxFiles} \subseteq Nat

VARIABLES
    rows,       \* versioned rows
    stats,      \* file column statistics, table record counts: no versions
    head,       \* latest snapshot
    version,    \* schema version
    session,    \* the commit that holds the store's lock between two puts
    retainFrom, \* the stored floor
    excised,    \* the floor that excision was last applied at
    offset,     \* the sink's stored offset, 0 when there is none
    pos,        \* the offset each consumer believes in
    tail,       \* the tailer: last_exported, and the export not yet written
    feed,       \* what the written exports add up to
    shown       \* history: what each snapshot showed when it was the latest

store == <<rows, stats, head, version, session, shown>>
floor == <<retainFrom, excised>>
sink == <<offset, pos>>
tailer == <<tail, feed>>
feeds == <<store, floor, sink, tailer>>

-----------------------------------------------------------------------------
\* Rows (see CatalogRows)

NoEnd == 0

\* The one table the sink writes to.
SinkTable == 1

Visible(r, s) == r.begin <= s /\ (r.end = NoEnd \/ s < r.end)

Fact(r) == <<r.kind, r.parent, r.id, r.begin, r.data>>

Facts(R, s) == {Fact(r) : r \in {x \in R : Visible(x, s)}}

Peek == head + 1

New(kind, parent, id, data) ==
    [kind |-> kind, parent |-> parent, id |-> id, data |-> data,
     begin |-> Peek, end |-> NoEnd]

Live(r) == r.end = NoEnd

LiveOf(kind) == {r \in rows : r.kind = kind /\ Live(r)}

Retired(R) == {[r EXCEPT !.end = Peek] : r \in R}

Bootstrap == [kind |-> "schema", parent |-> 0, id |-> 1, data |-> 0, begin |-> 1, end |-> NoEnd]

NoSession == <<>>

\* create_snapshot: the rows of Out are replaced by those of In.
Commit(Out, In) ==
    /\ head < MaxSnapshots
    /\ session' = NoSession
    /\ head' = Peek
    /\ rows' = (rows \ Out) \cup In
    /\ shown' = Append(shown, Facts(rows', Peek))
    /\ UNCHANGED floor

InitFeeds ==
    /\ head = 1 /\ version = 1 /\ session = NoSession
    /\ rows = {Bootstrap}
    /\ stats = [ranges |-> {}, counts |-> [t \in 1..MaxTables |-> 0]]
    /\ shown = <<Facts({Bootstrap}, 1)>>
    /\ retainFrom = 0 /\ excised = 0
    /\ offset = 0
    /\ pos = [c \in Consumer |-> 0]
    /\ tail = [last |-> 1, out |-> <<>>]
    /\ feed = [upto |-> 1, facts |-> {}, gap |-> FALSE]

-----------------------------------------------------------------------------
\* Commits of the SQL clients

\* The next id of a kind, from a counter that never falls back.
NextId(kind) ==
    1 + Cardinality({f[3] : f \in {g \in UNION {shown[s] : s \in 1..head} : g[1] = kind}})

CreateTable ==
    /\ session = NoSession
    /\ NextId("table") <= MaxTables
    /\ LET t == NextId("table") IN
       Commit({}, {New("table", 1, t, 0), New("column", t, t, 0)})
    /\ version' = version + 1
    /\ UNCHANGED <<stats, sink, tailer>>

\* drop_table retires all that belongs to the table.
DropTable(t) ==
    /\ session = NoSession
    /\ \E r \in LiveOf("table") : r.id = t
    /\ LET gone == {r \in rows : Live(r) /\ \/ r.kind = "table" /\ r.id = t
                                            \/ r.kind \in {"column", "file"} /\ r.parent = t
                                            \/ r.kind = "inlined" /\ r.parent[1] = t}
       IN  Commit(gone, Retired(gone))
    /\ version' = version + 1
    /\ UNCHANGED <<stats, sink, tailer>>

RenameColumn(t) ==
    /\ session = NoSession
    /\ \E c \in LiveOf("column") :
           /\ c.parent = t
           /\ Commit({c}, Retired({c}) \cup {[c EXCEPT !.begin = Peek]})
    /\ version' = version + 1
    /\ UNCHANGED <<stats, sink, tailer>>

\* InsertTableStats and InsertFileColumnStats put their rows at once, before the
\* snapshot of the file they describe, and whether or not it comes about.
PutStats(t, v) ==
    /\ \E r \in LiveOf("table") : r.id = t
    /\ head < MaxSnapshots
    /\ LET f == NextId("file") + Len(session) IN
       /\ f <= MaxFiles /\ stats.counts[t] < MaxFiles
       /\ session' = Append(session, New("file", t, f, v))
       /\ stats' = [ranges |-> {x \in stats.ranges : x.table # t \/ x.file # f}
                                  \cup {[table |-> t, file |-> f, min |-> v, max |-> v]},
                    counts |-> [stats.counts EXCEPT ![t] = @ + 1]]
    /\ UNCHANGED <<rows, head, version, shown, floor, sink, tailer>>

\* The InsertDataFile of each, and the snapshot of the transaction.
RegisterDataFiles ==
    /\ session # NoSession
    /\ Commit({}, ToSet(session))
    /\ UNCHANGED <<stats, version, sink, tailer>>

\* A later operation of the transaction fails.
FailSession ==
    /\ session # NoSession
    /\ session' = NoSession
    /\ UNCHANGED <<rows, stats, head, version, shown, floor, sink, tailer>>

-----------------------------------------------------------------------------
\* Garbage collection and excision (see Retention)

GcApply(s) ==
    /\ retainFrom < s /\ s <= head
    /\ retainFrom' = s
    /\ UNCHANGED <<store, excised, sink, tailer>>

Excise ==
    /\ excised < retainFrom
    /\ excised' = retainFrom
    /\ rows' = {r \in rows : r.end = NoEnd \/ r.end > retainFrom}
    /\ UNCHANGED <<stats, head, version, session, shown, retainFrom, sink, tailer>>

-----------------------------------------------------------------------------
\* RockLakeSink

\* Mutant: the offset counts batches, taken for rows.
FirstRowId(k, i) == k + i - 1

\* The row ids of batch k: next_offset * records.len() on.
BatchRowId(k, i) == k * Lens[k] + i - 1

Batch(k) ==
    {New("inlined", <<SinkTable, version>>, BatchRowId(k, i), <<k, i>>) : i \in 1..Lens[k]}

\* A put under the keys of the rows of In.
Overwritten(In) == {r \in rows : r.kind = "inlined" /\ \E x \in In :
                                     r.parent = x.parent /\ r.id = x.id}

\* expected_current_offset of the consumer's next call: None for its first.
Fenced(c) == pos[c] # 0 /\ offset # pos[c]

\* The batch was committed by an earlier attempt: Ok with no records.
AlreadyCommitted(k) == offset = k

\* commit_batch: records and offset in one snapshot.  The caller may not live
\* to see the answer.
CommitBatch(c, answered) ==
    LET k == pos[c] + 1 IN
    /\ session = NoSession
    /\ k <= Len(Lens)
    /\ ~AlreadyCommitted(k) /\ ~Fenced(c)
    /\ pos[c] = 0 => offset = 0   \* who finds no offset stored is the first
    /\ Commit(Overwritten(Batch(k)), Batch(k))
    /\ offset' = k
    /\ pos' = [pos EXCEPT ![c] = IF answered THEN k ELSE @]
    /\ UNCHANGED <<stats, version, tailer>>

RepeatBatch(c) ==
    /\ AlreadyCommitted(pos[c] + 1)
    /\ pos' = [pos EXCEPT ![c] = @ + 1]
    /\ UNCHANGED <<store, floor, offset, tailer>>

\* A consumer starts over, or finds itself fenced: it reads the stored offset.
ResumeConsumer(c) ==
    /\ pos[c] # offset
    /\ pos' = [pos EXCEPT ![c] = offset]
    /\ UNCHANGED <<store, floor, offset, tailer>>

-----------------------------------------------------------------------------
\* CdcTailer

Tailed == {"table", "column", "file"}

\* snapshot_diff(from, to), with no look at the floor.
Added(from, to) == {r \in rows : r.kind \in Tailed /\ from < r.begin /\ r.begin <= to}

\* Mutant: what ends with the last snapshot asked for is left out.
RemovedBefore(from, to) ==
    {r \in rows : r.kind \in Tailed /\ ~Live(r) /\ from < r.end /\ r.end < to}

Removed(from, to) ==
    {r \in rows : r.kind \in Tailed /\ ~Live(r) /\ from < r.end /\ r.end <= to}

\* poll_once: last_exported moves before the caller has the export.
Poll ==
    /\ tail.out = <<>>
    /\ tail.last < head
    /\ LET add == {Fact(r) : r \in Added(tail.last, head)}
           ret == {Fact(r) : r \in Removed(tail.last, head)}
       IN  tail' = [last |-> head,
                    out |-> IF add = {} /\ ret = {} THEN <<>>
                            ELSE <<[to |-> head, add |-> add, retire |-> ret]>>]
    /\ feed' = [feed EXCEPT !.gap = @ \/ tail.last < excised]
    /\ UNCHANGED <<store, floor, sink>>

\* The caller writes the export as snapshot-<to>.jsonl.
WriteExport ==
    /\ tail.out # <<>>
    /\ LET x == tail.out[1] IN
       feed' = [feed EXCEPT !.upto = x.to, !.facts = (@ \cup x.add) \ x.retire]
    /\ tail' = [tail EXCEPT !.out = <<>>]
    /\ UNCHANGED <<store, floor, sink>>

\* The write fails and the loop polls on.
SkipExport ==
    /\ tail.out # <<>>
    /\ tail' = [tail EXCEPT !.out = <<>>]
    /\ feed' = [feed EXCEPT !.gap = TRUE]
    /\ UNCHANGED <<store, floor, sink>>

\* The sidecar stops, and starts again from the last file it finds.
RestartTailer ==
    /\ tail.last # feed.upto
    /\ tail' = [last |-> feed.upto, out |-> <<>>]
    /\ UNCHANGED <<store, floor, sink, feed>>

\* The catalog moves on, and its floor with it.
CatalogStep ==
    \/ CreateTable \/ RegisterDataFiles \/ FailSession
    \/ \E t \in 1..MaxTables :
           \/ DropTable(t) \/ RenameColumn(t)
           \/ \E v \in Value : PutStats(t, v)
    \/ \E s \in 2..MaxSnapshots : GcApply(s)   \* nothing lies below 1
    \/ Excise

NextFeeds ==
    \/ CatalogStep
    \/ \E c \in Consumer :
           \/ \E answered \in BOOLEAN : CommitBatch(c, answered)
           \/ RepeatBatch(c) \/ ResumeConsumer(c)
    \/ Poll \/ WriteExport \/ SkipExport \/ RestartTailer

SpecFeeds == InitFeeds /\ [][NextFeeds]_feeds

-----------------------------------------------------------------------------
\* Properties

\* Exactly once: while the sink's table lives, the records of the batches up to
\* the stored offset are in it, each once, and nothing else is, through lost
\* answers, repeated calls, second consumers and schema changes.
IngestedOnce ==
    (\E r \in LiveOf("table") : r.id = SinkTable) =>
        LET in == LiveOf("inlined") IN
        /\ \A k \in 1..offset : \A i \in 1..Lens[k] : \E r \in in : r.data = <<k, i>>
        /\ \A r, q \in in : r.data = q.data => r = q
        /\ \A r \in in : r.data[1] <= offset

\* The files the tailer has written add up to the snapshot the last of them
\* names, wherever it was stopped, unless a write failed and was not repeated or
\* the tailer fell behind the floor of an excision.
FeedComplete ==
    ~feed.gap => feed.facts = {f \in shown[feed.upto] : f[1] \in Tailed}
=============================================================================
