----------------------------- MODULE PgSession -----------------------------
(***************************************************************************)
(* The sessions of one RockLake server: rocklake-pgwire/src/session.rs,    *)
(* the transaction statements of executor/mod.rs, execute_commit of        *)
(* executor/catalog.rs and the COPY handler of handler.rs.                 *)
(*                                                                         *)
(* A session buffers operations between BEGIN and COMMIT.  COMMIT takes    *)
(* the buffer and the rows the ATTACH bootstrap copied in, decides under   *)
(* one acquisition of the store's mutex whether the bootstrap is needed,   *)
(* and executes everything under a second one.  Versioned rows are staged  *)
(* and become visible with the snapshot; table statistics are put at once. *)
(*                                                                         *)
(* Abstractions: the store is one CatalogStore whose create_snapshot       *)
(* succeeds or fails (its inside is CatalogCommit); there is one table     *)
(* that receives files, each of one row; names and payloads are left out.  *)
(***************************************************************************)
EXTENDS Naturals, Sequences, FiniteSets, SequencesExt

CONSTANTS
    Session,        \* client connections
    Workloads       \* what the clients of a server may send

VARIABLES
    workload,       \* what the clients of this server send
    \* --- per session ---
    inTransaction,  \* SessionState.in_transaction
    pending,        \* SessionState.pending_txn
    bootstrap,      \* SessionState.bootstrap
    txn,            \* number of the session's transaction (names it, history)
    view,           \* what the client last read of the catalog
    phase,          \* where the session's task is
    batch,          \* the operations COMMIT is executing
    answer,         \* the last answer to a transaction
    acked,          \* history: the batches whose execution was acknowledged
    \* --- the shared store ---
    queue,          \* waiters on the store's mutex; the first one may hold it
    latest,         \* id of the newest snapshot
    nextCatalog,    \* the catalog id counter
    rows,           \* committed versioned rows
    stats,          \* the table's TableStatsRow
    writer          \* the CatalogWriter of the mutex holder

client == <<inTransaction, pending, bootstrap, txn, view>>
task == <<phase, batch, answer, acked, queue>>
store == <<latest, nextCatalog, rows, stats>>
vars == <<workload, client, task, store, writer>>

\* The statement sequences a client sends in a transaction.
Scripts == workload.scripts

\* The rows the ATTACH bootstrap copies in, in COMMIT's order.
Attach == workload.attach

\* Bound: transactions per connection, implicit ones included.
MaxTxns == workload.txns

-----------------------------------------------------------------------------
OpName == {"schema", "table", "column", "file", "insertStats", "setStats",
           "drop", "snapshot"}

ASSUME WorkloadsAssumption ==
    Workloads \subseteq [scripts : SUBSET Seq(OpName), attach : Seq(OpName), txns : Nat]

\* A BufferedOp: the transaction it was sent in, the table id the client put
\* into it and, for statistics, the row count and next_row_id it carries.
Op == [op : OpName, from : Session \X Nat, tid : Nat, next : Nat]

\* The operations that leave a versioned row.
Versioned == {"schema", "table", "column", "file"}

\* The operations that need no snapshot.
Unversioned == {"insertStats"}

Row == [op : Versioned, from : Session \X Nat, pos : Nat, tid : Nat,
        id : Nat, start : Nat, snap : Nat]

NoView == [catalog |-> 0, rows |-> 0]

NoWriter == [rows |-> {}, next |-> 0, pos |-> 0]

Phase == {"idle", "check", "checked", "execute"}

Init ==
    /\ workload \in Workloads
    /\ inTransaction = [s \in Session |-> FALSE]
    /\ pending = [s \in Session |-> <<>>]
    /\ bootstrap = [s \in Session |-> <<>>]
    /\ txn = [s \in Session |-> 0]
    /\ view = [s \in Session |-> NoView]
    /\ phase = [s \in Session |-> "idle"]
    /\ batch = [s \in Session |-> <<>>]
    /\ answer = [s \in Session |-> "none"]
    /\ acked = {}
    /\ queue = <<>>
    /\ latest = 0
    /\ nextCatalog = 1
    /\ rows = {}
    /\ stats = [count |-> 0, next |-> 0]
    /\ writer = NoWriter

-----------------------------------------------------------------------------
\* Statements that only touch the session.

Names(ops) == [i \in DOMAIN ops |-> ops[i].op]

\* The operation a client sends: it names the table it creates by the catalog
\* id it saw next, and computes statistics from the row count it saw.
ClientOp(s, name, t) ==
    [op   |-> name,
     from |-> <<s, t>>,
     tid  |-> IF name = "column" THEN view[s].catalog ELSE 0,
     next |-> IF name = "setStats" THEN view[s].rows + 1 ELSE 0]

Begin(s) ==
    /\ phase[s] = "idle"
    /\ ~inTransaction[s]
    /\ txn[s] < MaxTxns
    /\ inTransaction' = [inTransaction EXCEPT ![s] = TRUE]
    /\ txn' = [txn EXCEPT ![s] = @ + 1]
    /\ view' = [view EXCEPT ![s] = NoView]
    /\ UNCHANGED <<pending, bootstrap, task, store, writer>>

\* SELECT of the latest snapshot row and of ducklake_table_stats, with which a
\* client starts a transaction that needs them.
Look(s) ==
    /\ phase[s] = "idle"
    /\ inTransaction[s]
    /\ view[s] = NoView
    /\ view' = [view EXCEPT ![s] = [catalog |-> nextCatalog, rows |-> stats.count]]
    /\ UNCHANGED <<inTransaction, pending, bootstrap, txn, task, store, writer>>

\* A client sends values it computes from the catalog after it has read it.
CanSend(s, name) == name \in {"column", "setStats"} => view[s] # NoView

\* A write statement inside a transaction: PendingCatalogTxn::push.
Buffer(s) ==
    /\ phase[s] = "idle"
    /\ inTransaction[s]
    /\ \E script \in Scripts, name \in OpName :
           /\ IsPrefix(Append(Names(pending[s]), name), script)
           /\ CanSend(s, name)
           /\ pending' = [pending EXCEPT ![s] =
                              Append(@, ClientOp(s, name, txn[s]))]
    /\ UNCHANGED <<inTransaction, bootstrap, txn, view, task, store, writer>>

\* The COPY FROM STDIN statements of DuckDB's ATTACH: on_copy_done leaves the
\* parsed schema rows and has_snapshot in the session.
CopyDone(s) ==
    /\ phase[s] = "idle"
    /\ inTransaction[s]
    /\ pending[s] = <<>>
    /\ Attach # <<>>
    /\ bootstrap[s] = <<>>
    /\ bootstrap' = [bootstrap EXCEPT ![s] =
           [i \in DOMAIN Attach |-> ClientOp(s, Attach[i], txn[s])]]
    /\ UNCHANGED <<inTransaction, pending, txn, view, task, store, writer>>

NothingDropped(s) == UNCHANGED pending

\* What ROLLBACK drops: the pending batch, and only that.
Dropped(s) == pending' = [pending EXCEPT ![s] = <<>>]

Rollback(s) ==
    /\ phase[s] = "idle"
    /\ inTransaction[s]
    /\ Dropped(s)
    /\ inTransaction' = [inTransaction EXCEPT ![s] = FALSE]
    /\ UNCHANGED <<bootstrap, txn, view, task, store, writer>>

\* The connection ends and its SessionState with it; the client may come back.
\* A disconnect is noticed between two statements, never inside one.
Disconnect(s) ==
    /\ phase[s] = "idle"
    /\ inTransaction[s] \/ bootstrap[s] # <<>>
    /\ inTransaction' = [inTransaction EXCEPT ![s] = FALSE]
    /\ pending' = [pending EXCEPT ![s] = <<>>]
    /\ bootstrap' = [bootstrap EXCEPT ![s] = <<>>]
    /\ UNCHANGED <<txn, view, task, store, writer>>

-----------------------------------------------------------------------------
\* COMMIT.

\* tokio's Mutex serves its waiters in the order they arrived.
Enqueued(s) == Append(queue, s)

HasLock(s) == queue # <<>> /\ Head(queue) = s

\* A statement sends its answer and the session's task is idle again.
Answer(s, result) ==
    /\ phase' = [phase EXCEPT ![s] = "idle"]
    /\ batch' = [batch EXCEPT ![s] = <<>>]
    /\ answer' = [answer EXCEPT ![s] = result]
    /\ acked' = IF result = "ok"
                THEN acked \cup {[by |-> <<s, txn[s]>>, ops |-> batch[s]]}
                ELSE acked

\* COMMIT: buffer and bootstrap are taken out of the session whatever happens
\* next; with bootstrap rows the task queues up to look at the catalog.
Commit(s) ==
    /\ phase[s] = "idle"
    /\ inTransaction[s]
    /\ Names(pending[s]) \in Scripts \cup {<<>>}
    /\ inTransaction' = [inTransaction EXCEPT ![s] = FALSE]
    /\ pending' = [pending EXCEPT ![s] = <<>>]
    /\ bootstrap' = [bootstrap EXCEPT ![s] = <<>>]
    /\ \/ /\ bootstrap[s] # <<>>
          /\ batch' = [batch EXCEPT ![s] = bootstrap[s] \o pending[s]]
          /\ phase' = [phase EXCEPT ![s] = "check"]
          /\ queue' = Enqueued(s)
          /\ UNCHANGED <<answer, acked>>
       \/ /\ bootstrap[s] = <<>> /\ pending[s] # <<>>
          /\ batch' = [batch EXCEPT ![s] = pending[s]]
          /\ phase' = [phase EXCEPT ![s] = "execute"]
          /\ queue' = Enqueued(s)
          /\ UNCHANGED <<answer, acked>>
       \/ /\ bootstrap[s] = <<>> /\ pending[s] = <<>>
          /\ Answer(s, "ok")
          /\ UNCHANGED queue
    /\ UNCHANGED <<txn, view, store, writer>>

\* A write statement outside a transaction: execute_commit of that operation.
Autocommit(s) ==
    /\ phase[s] = "idle"
    /\ ~inTransaction[s]
    /\ txn[s] < MaxTxns
    /\ \E script \in Scripts :
           /\ Len(script) = 1 /\ CanSend(s, script[1])
           /\ batch' = [batch EXCEPT ![s] = <<ClientOp(s, script[1], txn[s] + 1)>>]
    /\ txn' = [txn EXCEPT ![s] = @ + 1]
    /\ phase' = [phase EXCEPT ![s] = "execute"]
    /\ queue' = Enqueued(s)
    /\ UNCHANGED <<inTransaction, pending, bootstrap, view, answer, acked, store,
                   writer>>

\* The freshness check: read_latest() under the mutex, which is released
\* before anything is done about it.  A catalog that has a snapshot keeps only
\* the operations that were buffered.
CheckFresh(s) ==
    /\ phase[s] = "check"
    /\ HasLock(s)
    /\ batch' = [batch EXCEPT ![s] =
           IF latest = 0 THEN @ ELSE SubSeq(@, Len(Attach) + 1, Len(@))]
    /\ phase' = [phase EXCEPT ![s] = "checked"]
    /\ queue' = Tail(queue)
    /\ UNCHANGED <<client, answer, acked, store, writer>>

\* get_snapshot() cannot read the snapshot row: COMMIT returns the error, and
\* what it took out of the session is lost.
CheckFails(s) ==
    /\ phase[s] = "check"
    /\ HasLock(s)
    /\ Answer(s, "error")
    /\ queue' = Tail(queue)
    /\ UNCHANGED <<client, store, writer>>

\* execute_commit: nothing to do, or the mutex is requested again.
Execute(s) ==
    /\ phase[s] = "checked"
    /\ \/ /\ batch[s] = <<>>
          /\ Answer(s, "ok")
          /\ UNCHANGED queue
       \/ /\ batch[s] # <<>>
          /\ phase' = [phase EXCEPT ![s] = "execute"]
          /\ queue' = Enqueued(s)
          /\ UNCHANGED <<batch, answer, acked>>
    /\ UNCHANGED <<client, store, writer>>

Executing(s) == phase[s] = "execute" /\ HasLock(s)

\* begin_write, on taking the mutex.
BeginWrite(s) ==
    /\ Executing(s)
    /\ writer = NoWriter
    /\ writer' = [rows |-> {}, next |-> nextCatalog, pos |-> 1]
    /\ UNCHANGED <<client, task, store>>

Current(s) == batch[s][writer.pos]

HasWork(s) == Executing(s) /\ writer.pos \in DOMAIN batch[s]

\* register_data_file: the file's rows are numbered from the next_row_id that
\* the table statistics hold now.
RowIdStart == stats.next

\* create_schema, create_table, add_column: an id from the catalog counter.
\* The table id the client put into InsertTable is not used, that of
\* InsertColumn is.
StageRow(s) ==
    /\ HasWork(s)
    /\ Current(s).op \in Versioned
    /\ LET op == Current(s)
           ddl == op.op # "file"
       IN  writer' =
             [rows |-> writer.rows \cup
                 {[op |-> op.op, from |-> op.from, pos |-> writer.pos,
                   tid |-> op.tid,
                   id |-> IF ddl THEN writer.next ELSE 0,
                   start |-> IF ddl THEN 0 ELSE RowIdStart,
                   snap |-> latest + 1]},
              next |-> IF ddl THEN writer.next + 1 ELSE writer.next,
              pos |-> writer.pos + 1]
    /\ UNCHANGED <<client, task, store>>

LargerOf(a, b) == IF a > b THEN a ELSE b

StatsOfClient(op) == [count |-> stats.count + 1, next |-> op.next]

\* update_table_stats adds the batch's row to what is stored and raises
\* next_row_id; set_table_stats stores what the client computed.
StatsAfter(op) ==
    IF op.op = "insertStats"
    THEN [count |-> stats.count + 1, next |-> LargerOf(stats.next + 1, op.next)]
    ELSE [count |-> op.next, next |-> op.next]

\* Both put the statistics row directly, outside the transaction.
PutStats(s) ==
    /\ HasWork(s)
    /\ Current(s).op \in {"insertStats", "setStats"}
    /\ stats' = StatsAfter(Current(s))
    /\ writer' = [writer EXCEPT !.pos = @ + 1]
    /\ UNCHANGED <<client, task, latest, nextCatalog, rows>>

\* InsertSnapshot: author and message are kept for create_snapshot.
KeepMessage(s) ==
    /\ HasWork(s)
    /\ Current(s).op = "snapshot"
    /\ writer' = [writer EXCEPT !.pos = @ + 1]
    /\ UNCHANGED <<client, task, store>>

LockKept(s) == queue

\* The guard is dropped on every way out of execute_commit.
LockReleased(s) == Tail(queue)

\* An operation that reads the database fails: `?` returns.  The DROPs sent here
\* are of tables that are not there, and always do.
OpFails(s) ==
    /\ HasWork(s)
    /\ Current(s).op \in {"file", "insertStats", "setStats", "drop"}
    /\ Answer(s, "error")
    /\ queue' = LockReleased(s)
    /\ writer' = NoWriter
    /\ UNCHANGED <<client, store>>

AllApplied(s) == Executing(s) /\ writer.pos = Len(batch[s]) + 1

NeedsSnapshot(s) == \E i \in DOMAIN batch[s] : batch[s][i].op \notin Unversioned

\* create_snapshot commits and commit_writer moves the store's counters.
Snapshot(s) ==
    /\ AllApplied(s)
    /\ NeedsSnapshot(s)
    /\ rows' = rows \cup writer.rows
    /\ latest' = latest + 1
    /\ nextCatalog' = writer.next
    /\ Answer(s, "ok")
    /\ queue' = LockReleased(s)
    /\ writer' = NoWriter
    /\ UNCHANGED <<client, stats>>

\* create_snapshot returns an error; the operations are lost.
SnapshotFails(s) ==
    /\ AllApplied(s)
    /\ NeedsSnapshot(s)
    /\ Answer(s, "error")
    /\ queue' = LockReleased(s)
    /\ writer' = NoWriter
    /\ UNCHANGED <<client, store>>

\* A batch of statistics alone makes no snapshot.
NoSnapshot(s) ==
    /\ AllApplied(s)
    /\ ~NeedsSnapshot(s)
    /\ Answer(s, "ok")
    /\ queue' = LockReleased(s)
    /\ writer' = NoWriter
    /\ UNCHANGED <<client, store>>

-----------------------------------------------------------------------------
Statement(s) ==
    \/ Look(s) \/ Begin(s) \/ Buffer(s) \/ CopyDone(s) \/ Rollback(s)
    \/ Disconnect(s) \/ Commit(s) \/ Autocommit(s)

\* The steps of a session's task between a statement and its answer.
TaskStep(s) ==
    \/ CheckFresh(s) \/ CheckFails(s) \/ Execute(s) \/ BeginWrite(s)
    \/ StageRow(s) \/ PutStats(s) \/ KeepMessage(s) \/ OpFails(s) \/ Snapshot(s)
    \/ SnapshotFails(s) \/ NoSnapshot(s)

Next == (\E s \in Session : Statement(s) \/ TaskStep(s)) /\ UNCHANGED workload

\* A spawned task that can run is eventually scheduled; clients owe nothing.
Fairness == \A s \in Session : WF_vars(TaskStep(s) /\ UNCHANGED workload)

Spec == Init /\ [][Next]_vars /\ Fairness

-----------------------------------------------------------------------------
\* Properties

\* A transaction is all or nothing, and acknowledged when it is all: the
\* committed rows are exactly the versioned operations of the acknowledged
\* batches, a snapshot holds one transaction's rows and a transaction's rows are
\* in one snapshot, and nothing sent in another transaction slips into it.
AtomicTransactions ==
    /\ {<<r.from, r.pos>> : r \in rows} =
          UNION {{<<b.ops[i].from, i>> : i \in
                     {j \in DOMAIN b.ops : b.ops[j].op \in Versioned}} : b \in acked}
    /\ \A r, q \in rows : r.snap = q.snap <=> r.from = q.from
    /\ \A b \in acked : \A i \in DOMAIN b.ops : b.ops[i].from = b.by

\* Row id ranges of registered files do not overlap, whichever sessions
\* registered them and whichever of their commits failed in between.
RowIdsDisjoint ==
    \A r, q \in rows :
        r.op = "file" /\ q.op = "file" /\ r.start = q.start => r = q

\* What the COMMIT handler says of ATTACH: the bootstrap rows are created once.
OneBootstrap ==
    \A r, q \in rows : r.op = "schema" /\ q.op = "schema" => r.from = q.from

\* What the docs say of the single-writer model: two clients that create tables
\* do not conflict, so that a column belongs to the table of its transaction.
\* Does not hold: see the README.
ColumnsFollowTable ==
    \A c \in {r \in rows : r.op = "column"} :
        \E t \in rows : t.op = "table" /\ t.from = c.from /\ t.id = c.tid

\* Every statement that asks for the store is answered: whatever the other
\* sessions do, no error path keeps the mutex, no batch is stuck between the
\* freshness check and its execution, and no waiter is forgotten.
CommitAnswered == \A s \in Session : phase[s] # "idle" ~> phase[s] = "idle"
=============================================================================
