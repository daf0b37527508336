---------------------------- MODULE CatalogCommit ----------------------------
(***************************************************************************)
(* The life cycle of a CatalogStore (rocklake-catalog/src/store.rs) and    *)
(* the commit path of its CatalogWriter (writer/snapshot.rs), for several  *)
(* processes that open the same catalog in object storage.                 *)
(*                                                                         *)
(* Opening is five steps, in the order of CatalogStore::open: SlateDB is   *)
(* opened (which fences the previous client), the format and the counters  *)
(* are initialised or loaded, old keys are migrated, the writer epoch is   *)
(* taken by compare-and-swap, the schema version of the latest snapshot is *)
(* loaded. A write session copies the store's counters, stages rows under  *)
(* identifiers it allocates from the copy, and create_snapshot() writes    *)
(* the staged rows, the snapshot row and the three counters in one         *)
(* transaction; commit_writer() then brings the store's counters up to     *)
(* date. A process may crash, or be fenced by another, between any two     *)
(* steps.                                                                  *)
(*                                                                         *)
(* Abstractions: a row is its kind, identifier and begin_snapshot (what    *)
(* rows contain and how they end is CatalogRows); a store has at most one  *)
(* write session at a time, because the executor holds the store's mutex   *)
(* from begin_write() to commit_writer() (that is PgSession).              *)
(***************************************************************************)
EXTENDS Naturals, FiniteSets

CONSTANTS
    Proc,           \* processes that may open the catalog
    MaxOpens,       \* bound: how often SlateDB is opened, in total
    MaxSnapshots,   \* bound: snapshots committed
    MaxStaged       \* bound: rows staged in one write session

ASSUME BoundsAssumption ==
    /\ MaxOpens \in Nat
    /\ MaxSnapshots \in Nat
    /\ MaxStaged \in Nat

VARIABLES
    \* --- durable: the key-value pairs in object storage ---
    formatted,      \* the catalog-format-version key exists
    migrated,       \* the marker of the key-encoding migration exists
    dbNext,         \* the three persisted counters
    dbToken,        \* writer epoch and nonce keys
    snapshots,      \* snapshot rows, keyed by id
    objects,        \* versioned rows, keyed by kind and id
    slateGen,       \* how many times SlateDB was opened: the newest client
    \* --- volatile, per process ---
    pc,             \* where the process is
    gen,            \* generation of its SlateDB handle, 0 = closed
    counters,       \* CatalogStore.counters
    token,          \* CatalogStore.writer_epoch and writer_nonce
    schemaVersion,  \* CatalogStore.schema_version
    writer          \* the CatalogWriter of the current write session

durable == <<formatted, migrated, dbNext, dbToken, snapshots, objects>>
volatile == <<pc, gen, counters, token, schemaVersion, writer>>
vars == <<durable, slateGen, volatile>>

-----------------------------------------------------------------------------
\* Counters, rows and sessions.

Counters == [snapshot : Nat, catalog : Nat, file : Nat]

InitialCounters == [snapshot |-> 1, catalog |-> 1, file |-> 1]

Token == [epoch : Nat, nonce : Nat]

NoToken == [epoch |-> 0, nonce |-> 0]

Kind == {"catalog", "file"}

Object == [kind : Kind, id : Nat, begin : Nat]

Snapshot == [id : Nat, sv : Nat, nextCatalog : Nat, nextFile : Nat]

Writer == [next : Counters, sv : Nat, changed : BOOLEAN, staged : SUBSET Object]

NoWriter ==
    [next |-> InitialCounters, sv |-> 0, changed |-> FALSE, staged |-> {}]

\* A snapshot row's schema version, 0 when there is no such row.
VersionAt(s) ==
    IF \E r \in snapshots : r.id = s
    THEN (CHOOSE r \in snapshots : r.id = s).sv
    ELSE 0

-----------------------------------------------------------------------------
\* SlateDB, as the code uses it.

\* Only the newest client of a SlateDB database can make a write durable.
CanWrite(p) == gen[p] = slateGen

Opening == {"init", "migrate", "epoch", "epochtx", "load"}

Open == {"ready", "writing", "tx", "committed"}

PC == {"down"} \cup Opening \cup Open

\* What is left of a process's memory: nothing.
Forget(p) ==
    /\ pc' = [pc EXCEPT ![p] = "down"]
    /\ gen' = [gen EXCEPT ![p] = 0]
    /\ counters' = [counters EXCEPT ![p] = InitialCounters]
    /\ token' = [token EXCEPT ![p] = NoToken]
    /\ schemaVersion' = [schemaVersion EXCEPT ![p] = 0]
    /\ writer' = [writer EXCEPT ![p] = NoWriter]

-----------------------------------------------------------------------------
Init ==
    /\ formatted = FALSE
    /\ migrated = FALSE
    /\ dbNext = InitialCounters
    /\ dbToken = NoToken
    /\ snapshots = {}
    /\ objects = {}
    /\ slateGen = 0
    /\ pc = [p \in Proc |-> "down"]
    /\ gen = [p \in Proc |-> 0]
    /\ counters = [p \in Proc |-> InitialCounters]
    /\ token = [p \in Proc |-> NoToken]
    /\ schemaVersion = [p \in Proc |-> 0]
    /\ writer = [p \in Proc |-> NoWriter]

-----------------------------------------------------------------------------
\* CatalogStore::open

\* Db::open: every older client is fenced from here on.  The nonce is a fresh
\* UUID, so the generation number stands for it.
DbOpen(p) ==
    /\ pc[p] = "down"
    /\ slateGen < MaxOpens
    /\ slateGen' = slateGen + 1
    /\ gen' = [gen EXCEPT ![p] = slateGen + 1]
    /\ pc' = [pc EXCEPT ![p] = "init"]
    /\ token' = [token EXCEPT ![p] = [epoch |-> 0, nonce |-> slateGen + 1]]
    /\ UNCHANGED <<durable, counters, schemaVersion, writer>>

\* initialize_catalog on a catalog that exists: the counters are read, nothing
\* is written, so that a client fenced meanwhile gets through as well.
LoadCatalog(p) ==
    /\ pc[p] = "init"
    /\ formatted
    /\ counters' = [counters EXCEPT ![p] = dbNext]
    /\ pc' = [pc EXCEPT ![p] = "migrate"]
    /\ UNCHANGED <<durable, slateGen, gen, token, schemaVersion, writer>>

\* initialize_catalog on an empty database: format version and counters are
\* written in one transaction.
CreateCatalog(p) ==
    /\ pc[p] = "init"
    /\ ~formatted
    /\ CanWrite(p)
    /\ formatted' = TRUE
    /\ dbNext' = InitialCounters
    /\ counters' = [counters EXCEPT ![p] = InitialCounters]
    /\ pc' = [pc EXCEPT ![p] = "migrate"]
    /\ UNCHANGED <<migrated, dbToken, snapshots, objects, slateGen, gen, token,
                   schemaVersion, writer>>

\* migrate_key_encoding_if_needed: nothing when the marker is there; otherwise
\* lease and extension keys (which are not rows of the catalog) are rewritten
\* one by one and the marker is put.
Migrate(p) ==
    /\ pc[p] = "migrate"
    /\ migrated \/ CanWrite(p)
    /\ migrated' = TRUE
    /\ pc' = [pc EXCEPT ![p] = "epoch"]
    /\ UNCHANGED <<formatted, dbNext, dbToken, snapshots, objects, slateGen, gen,
                   counters, token, schemaVersion, writer>>

\* One turn of the epoch loop, first half: begin a transaction (an error ends
\* open(), see OpenFails) and read the stored epoch.
EpochBegin(p) ==
    /\ pc[p] = "epoch"
    /\ gen[p] # 0
    /\ token' = [token EXCEPT ![p] =
                     [epoch |-> dbToken.epoch + 1, nonce |-> token[p].nonce]]
    /\ pc' = [pc EXCEPT ![p] = "epochtx"]
    /\ UNCHANGED <<durable, slateGen, gen, counters, schemaVersion, writer>>

EpochCommitKeepsNonce(p) ==
    /\ pc[p] = "epochtx"
    /\ CanWrite(p)
    /\ dbToken' = [dbToken EXCEPT !.epoch = token[p].epoch]
    /\ pc' = [pc EXCEPT ![p] = "load"]
    /\ UNCHANGED <<formatted, migrated, dbNext, snapshots, objects, slateGen,
                   gen, counters, token, schemaVersion, writer>>

\* Second half: epoch and nonce are committed.
EpochCommit(p) ==
    /\ pc[p] = "epochtx"
    /\ CanWrite(p)
    /\ dbToken' = token[p]
    /\ pc' = [pc EXCEPT ![p] = "load"]
    /\ UNCHANGED <<formatted, migrated, dbNext, snapshots, objects, slateGen,
                   gen, counters, token, schemaVersion, writer>>

EpochRetryBlindly(p) ==
    /\ pc[p] = "epochtx"
    /\ ~CanWrite(p)
    /\ pc' = [pc EXCEPT ![p] = "epoch"]
    /\ UNCHANGED <<durable, slateGen, gen, counters, token, schemaVersion,
                   writer>>

\* Second half when the commit fails: `Err(_) => continue`, whatever the error
\* was.  A client that finds itself fenced is closed by SlateDB.
EpochRetry(p) ==
    /\ pc[p] = "epochtx"
    /\ ~CanWrite(p)
    /\ gen' = [gen EXCEPT ![p] = 0]
    /\ pc' = [pc EXCEPT ![p] = "epoch"]
    /\ UNCHANGED <<durable, slateGen, counters, token, schemaVersion, writer>>

\* load_schema_version from the snapshot row the loaded counters point at, and
\* the store is built.
FinishOpen(p) ==
    /\ pc[p] = "load"
    /\ schemaVersion' =
           [schemaVersion EXCEPT ![p] =
               IF counters[p].snapshot > 1
               THEN VersionAt(counters[p].snapshot - 1)
               ELSE 0]
    /\ pc' = [pc EXCEPT ![p] = "ready"]
    /\ UNCHANGED <<durable, slateGen, gen, counters, token, writer>>

\* open() returns an error: creating or migrating the catalog on a fenced
\* client, or beginning a transaction on a closed one.
OpenFails(p) ==
    /\ \/ pc[p] = "init" /\ ~formatted /\ ~CanWrite(p)
       \/ pc[p] = "migrate" /\ ~migrated /\ ~CanWrite(p)
       \/ pc[p] = "epoch" /\ gen[p] = 0
    /\ Forget(p)
    /\ UNCHANGED <<durable, slateGen>>

-----------------------------------------------------------------------------
\* A write session.

\* begin_write: the session works on a copy of the store's counters.
BeginWrite(p) ==
    /\ pc[p] = "ready"
    /\ writer' = [writer EXCEPT ![p] =
           [next |-> counters[p], sv |-> schemaVersion[p],
            changed |-> FALSE, staged |-> {}]]
    /\ pc' = [pc EXCEPT ![p] = "writing"]
    /\ UNCHANGED <<durable, slateGen, gen, counters, token, schemaVersion>>

\* create_schema, create_table, add_column, create_view, create_macro: an id
\* from the catalog counter, a row that begins at the snapshot this session
\* will get, and a schema change.
WithDdl(w) ==
    [next    |-> [w.next EXCEPT !.catalog = @ + 1],
     sv      |-> w.sv,
     changed |-> TRUE,
     staged  |-> w.staged \cup {[kind |-> "catalog", id |-> w.next.catalog,
                                 begin |-> w.next.snapshot]}]

StageDdl(p) ==
    /\ pc[p] = "writing"
    /\ Cardinality(writer[p].staged) < MaxStaged
    /\ writer' = [writer EXCEPT ![p] = WithDdl(writer[p])]
    /\ UNCHANGED <<durable, slateGen, pc, gen, counters, token, schemaVersion>>

\* register_data_file, register_delete_file: an id from the file counter, and
\* no schema change.
WithFile(w) ==
    [next    |-> [w.next EXCEPT !.file = @ + 1],
     sv      |-> w.sv,
     changed |-> w.changed,
     staged  |-> w.staged \cup {[kind |-> "file", id |-> w.next.file,
                                 begin |-> w.next.snapshot]}]

StageFile(p) ==
    /\ pc[p] = "writing"
    /\ Cardinality(writer[p].staged) < MaxStaged
    /\ writer' = [writer EXCEPT ![p] = WithFile(writer[p])]
    /\ UNCHANGED <<durable, slateGen, pc, gen, counters, token, schemaVersion>>

\* An operation of the session fails (NotFound, a read error): the executor
\* returns and drops the writer; the store's counters were never touched.
AbandonWrite(p) ==
    /\ pc[p] = "writing"
    /\ writer' = [writer EXCEPT ![p] = NoWriter]
    /\ pc' = [pc EXCEPT ![p] = "ready"]
    /\ UNCHANGED <<durable, slateGen, gen, counters, token, schemaVersion>>

\* check_epoch inside the transaction.  The newest client reads what is stored.
\* A fenced one may still read the state it had, and pass.
EpochMatches(p) == dbToken = token[p] \/ ~CanWrite(p)

EpochDiffers(p) == dbToken # token[p] \/ ~CanWrite(p)

NeverBumps(w) == w.sv

NextVersion(w) == IF w.changed THEN w.sv + 1 ELSE w.sv

\* The session with its snapshot id allocated and its schema version final.
Sealed(w) ==
    [next    |-> [w.next EXCEPT !.snapshot = @ + 1],
     sv      |-> NextVersion(w),
     changed |-> FALSE,
     staged  |-> w.staged]

\* create_snapshot up to check_epoch: the snapshot id is allocated, the schema
\* version is bumped if the session changed the schema, a transaction is begun
\* (on an open client) and the epoch checked.
BeginTx(p) ==
    /\ pc[p] = "writing"
    /\ writer[p].next.snapshot <= MaxSnapshots
    /\ gen[p] # 0
    /\ EpochMatches(p)
    /\ writer' = [writer EXCEPT ![p] = Sealed(writer[p])]
    /\ pc' = [pc EXCEPT ![p] = "tx"]
    /\ UNCHANGED <<durable, slateGen, gen, counters, token, schemaVersion>>

\* create_snapshot when it gets no transaction (a closed client) or the epoch
\* is not ours: WriterEpochMismatch, and the session is gone.
BeginTxFails(p) ==
    /\ pc[p] = "writing"
    /\ gen[p] = 0 \/ EpochDiffers(p)
    /\ writer' = [writer EXCEPT ![p] = NoWriter]
    /\ pc' = [pc EXCEPT ![p] = "ready"]
    /\ UNCHANGED <<durable, slateGen, gen, counters, token, schemaVersion>>

NoFileCounter(p) == [writer[p].next EXCEPT !.file = dbNext.file]

FileCounterDropped(p) ==
    [snapshot |-> writer[p].next.snapshot, catalog |-> writer[p].next.catalog]

\* The counters create_snapshot writes with the rows that consumed the ids.
PersistedCounters(p) == writer[p].next

\* The snapshot row create_snapshot builds.
SnapshotRow(w) ==
    [id |-> w.next.snapshot - 1, sv |-> w.sv,
     nextCatalog |-> w.next.catalog, nextFile |-> w.next.file]

\* The effect of the commit: staged rows, snapshot row and counters appear
\* together.  A put replaces whatever is stored under the same key.
Durable(p) ==
    LET w == writer[p]
        row == SnapshotRow(w)
    IN  /\ objects' = {o \in objects : \A n \in w.staged :
                          ~(n.kind = o.kind /\ n.id = o.id)} \cup w.staged
        /\ snapshots' = {r \in snapshots : r.id # row.id} \cup {row}
        /\ dbNext' = PersistedCounters(p)
        /\ UNCHANGED <<formatted, migrated, dbToken>>

\* The transaction commits and create_snapshot returns a CommitResult.
Commit(p) ==
    /\ pc[p] = "tx"
    /\ CanWrite(p)
    /\ Durable(p)
    /\ pc' = [pc EXCEPT ![p] = "committed"]
    /\ UNCHANGED <<slateGen, gen, counters, token, schemaVersion, writer>>

CommitFailsButSyncs(p) ==
    /\ pc[p] = "tx"
    /\ gen' = IF CanWrite(p) THEN gen ELSE [gen EXCEPT ![p] = 0]
    /\ counters' = [counters EXCEPT ![p] = writer[p].next]
    /\ writer' = [writer EXCEPT ![p] = NoWriter]
    /\ pc' = [pc EXCEPT ![p] = "ready"]
    /\ UNCHANGED <<durable, slateGen, token, schemaVersion>>

\* The commit fails with nothing written: the client is fenced (and closed), or
\* the transaction was refused or timed out.  The session is gone; the store
\* keeps the counters it had.
CommitFails(p) ==
    /\ pc[p] = "tx"
    /\ gen' = IF CanWrite(p) THEN gen ELSE [gen EXCEPT ![p] = 0]
    /\ writer' = [writer EXCEPT ![p] = NoWriter]
    /\ pc' = [pc EXCEPT ![p] = "ready"]
    /\ UNCHANGED <<durable, slateGen, counters, token, schemaVersion>>

\* A write whose outcome SlateDB could not learn is fatal for the client: it is
\* closed, and its store can serve no further transaction.
ClosedClient(p) == [gen EXCEPT ![p] = 0]

\* The commit is durable and the caller is told it failed.
CommitInDoubt(p) ==
    /\ pc[p] = "tx"
    /\ CanWrite(p)
    /\ Durable(p)
    /\ gen' = ClosedClient(p)
    /\ writer' = [writer EXCEPT ![p] = NoWriter]
    /\ pc' = [pc EXCEPT ![p] = "ready"]
    /\ UNCHANGED <<slateGen, counters, token, schemaVersion>>

StoreCounters(p) == counters[p]

\* What commit_writer copies into the store.
SyncedCounters(p) == writer[p].next

\* commit_writer: the store follows the snapshot it committed.
CommitWriter(p) ==
    /\ pc[p] = "committed"
    /\ counters' = [counters EXCEPT ![p] = SyncedCounters(p)]
    /\ schemaVersion' = [schemaVersion EXCEPT ![p] = writer[p].sv]
    /\ writer' = [writer EXCEPT ![p] = NoWriter]
    /\ pc' = [pc EXCEPT ![p] = "ready"]
    /\ UNCHANGED <<durable, slateGen, gen, token>>

\* A crash, a kill, or a close().
Crash(p) ==
    /\ pc[p] # "down"
    /\ Forget(p)
    /\ UNCHANGED <<durable, slateGen>>

-----------------------------------------------------------------------------
OpenStep(p) ==
    \/ LoadCatalog(p) \/ CreateCatalog(p) \/ Migrate(p) \/ EpochBegin(p)
    \/ EpochCommit(p) \/ EpochRetry(p) \/ FinishOpen(p) \/ OpenFails(p)

WriteStep(p) ==
    \/ BeginWrite(p) \/ StageDdl(p) \/ StageFile(p) \/ AbandonWrite(p)
    \/ BeginTx(p) \/ BeginTxFails(p)
    \/ Commit(p) \/ CommitFails(p) \/ CommitInDoubt(p) \/ CommitWriter(p)

Next == \E p \in Proc : DbOpen(p) \/ OpenStep(p) \/ WriteStep(p) \/ Crash(p)

\* open() runs on a live task: each of its steps is eventually taken.
Fairness == \A p \in Proc : WF_vars(OpenStep(p))

Spec == Init /\ [][Next]_vars /\ Fairness

-----------------------------------------------------------------------------
\* Properties

\* Every variable has the type its Rust counterpart has.
TypeOK ==
    /\ formatted \in BOOLEAN /\ migrated \in BOOLEAN
    /\ dbNext \in Counters
    /\ dbToken \in Token
    /\ snapshots \in SUBSET Snapshot
    /\ objects \in SUBSET Object
    /\ slateGen \in Nat
    /\ pc \in [Proc -> PC]
    /\ gen \in [Proc -> Nat]
    /\ counters \in [Proc -> Counters]
    /\ token \in [Proc -> Token]
    /\ schemaVersion \in [Proc -> Nat]
    /\ writer \in [Proc -> Writer]

\* Snapshot ids are handed out without gaps and without reuse, over crashes,
\* takeovers, failed commits and commits in doubt: the stored snapshot rows are
\* exactly those below the persisted counter, one per id.
DenseHistory ==
    /\ {r.id : r \in snapshots} = 1..(dbNext.snapshot - 1)
    /\ \A r, s \in snapshots : r.id = s.id => r = s

\* The counters a snapshot row records separate the past from the future: every
\* object that begins at or before the snapshot has an id below them, every
\* later one an id at or above; and the persisted counters are above all.
CountersAhead ==
    /\ \A o \in objects :
           /\ o.id < (IF o.kind = "catalog" THEN dbNext.catalog ELSE dbNext.file)
           /\ o.begin \in 1..(dbNext.snapshot - 1)
    /\ \A r \in snapshots, o \in objects :
           LET bound == IF o.kind = "catalog" THEN r.nextCatalog ELSE r.nextFile
           IN  o.begin <= r.id <=> o.id < bound

\* The newest client is never turned away by check_epoch: once a process holds
\* the epoch, the stored epoch and nonce are its own until another client opens
\* the database.
LiveWriterOwnsEpoch ==
    \A p \in Proc : pc[p] \in {"load"} \cup Open /\ CanWrite(p) => dbToken = token[p]

\* No step of any process removes or rewrites a committed row: time travel to a
\* snapshot reads the same rows forever.
AppendOnly ==
    [][snapshots \subseteq snapshots' /\ objects \subseteq objects']_vars

\* Opening terminates, with a store or with an error, also when the catch-all
\* retry of the epoch loop meets an error that is not a conflict.
OpenTerminates ==
    \A p \in Proc : pc[p] \in Opening ~> pc[p] \notin Opening

\* The catalog as a log: entry i is what snapshot i committed.
CommittedLog ==
    [i \in 1..(dbNext.snapshot - 1) |->
        [objs |-> {o \in objects : o.begin = i}, sv |-> VersionAt(i)]]

Log == INSTANCE SnapshotLog WITH log <- CommittedLog

\* Whatever processes open, crash, fence each other or retry, the durable state
\* is an append-only log of atomic transactions (module SnapshotLog).
ImplementsLog == Log!Spec
=============================================================================
