------------------------ MODULE CatalogCommitProofs ------------------------
(***************************************************************************)
(* Proofs about CatalogCommit, for any set of processes and any bounds.    *)
(*                                                                         *)
(* DenseHistory and CountersAhead speak of durable rows only and are not   *)
(* inductive: a commit writes what a session allocated steps ago from the  *)
(* store's counters.  The strengthening says when those counters can be    *)
(* trusted: the newest SlateDB client (and nobody else) has counters equal *)
(* to the persisted ones (SyncInv), and a session's allocations lie        *)
(* between the store's counters and its own (WriterInv).                   *)
(***************************************************************************)
EXTENDS CatalogCommit, Sequences, TLAPS

\* SlateDB generations: the newest client is unique, and closed clients are
\* nobody's.
GenInv ==
    /\ \A p \in Proc : gen[p] <= slateGen
    /\ \A p \in Proc : pc[p] # "down" => slateGen > 0
    /\ \A p \in Proc : pc[p] = "down" => gen[p] = 0
    /\ \A p, q \in Proc : gen[p] = gen[q] /\ gen[p] # 0 => p = q

\* An unformatted database is empty, and nobody is past initialize_catalog.
FormatInv ==
    /\ ~formatted => /\ dbNext = InitialCounters
                     /\ snapshots = {}
                     /\ objects = {}
    /\ \A p \in Proc : pc[p] \notin {"down", "init"} => formatted

\* The counters of the newest client are the persisted ones.
SyncInv ==
    \A p \in Proc : CanWrite(p) =>
        /\ pc[p] \in {"migrate", "epoch", "epochtx", "load", "ready", "writing", "tx"}
               => counters[p] = dbNext
        /\ pc[p] = "committed" => writer[p].next = dbNext

\* What a session w has allocated lies between its store's counters c and its
\* own; n is the number of snapshot ids among it.
SessionOk(c, w, n) ==
    /\ w.next.snapshot = c.snapshot + n
    /\ c.catalog <= w.next.catalog
    /\ c.file <= w.next.file
    /\ \A o \in w.staged :
           /\ o.begin = c.snapshot
           /\ o.kind = "catalog" => c.catalog <= o.id /\ o.id < w.next.catalog
           /\ o.kind = "file" => c.file <= o.id /\ o.id < w.next.file

WriterInv ==
    \A p \in Proc :
        /\ pc[p] = "writing" => SessionOk(counters[p], writer[p], 0)
        /\ pc[p] = "tx" => SessionOk(counters[p], writer[p], 1)

\* The persisted counters dominate those every snapshot row records.
RowInv ==
    /\ dbNext.snapshot >= 1
    /\ \A r \in snapshots : /\ r.nextCatalog <= dbNext.catalog
                            /\ r.nextFile <= dbNext.file

IInv ==
    /\ TypeOK
    /\ GenInv
    /\ FormatInv
    /\ SyncInv
    /\ WriterInv
    /\ RowInv
    /\ DenseHistory
    /\ CountersAhead
    /\ LiveWriterOwnsEpoch

-----------------------------------------------------------------------------
\* The initial values are well typed.
LEMMA InitialTypes ==
    /\ InitialCounters \in Counters
    /\ NoToken \in Token
    /\ NoWriter \in Writer
BY DEF InitialCounters, Counters, NoToken, Token, NoWriter, Writer

\* A session stays a session whatever it stages.
LEMMA WriterTypes ==
    ASSUME NEW w \in Writer
    PROVE  /\ WithDdl(w) \in Writer
           /\ WithFile(w) \in Writer
           /\ Sealed(w) \in Writer
           /\ w.next.snapshot >= 1 => SnapshotRow(w) \in Snapshot
<1>1. /\ w.next \in Counters /\ w.sv \in Nat /\ w.changed \in BOOLEAN
      /\ w.staged \in SUBSET Object
  BY DEF Writer
<1>2. /\ [w.next EXCEPT !.catalog = @ + 1] \in Counters
      /\ [w.next EXCEPT !.file = @ + 1] \in Counters
      /\ [w.next EXCEPT !.snapshot = @ + 1] \in Counters
  BY <1>1 DEF Counters
<1>3. /\ [kind |-> "catalog", id |-> w.next.catalog, begin |-> w.next.snapshot] \in Object
      /\ [kind |-> "file", id |-> w.next.file, begin |-> w.next.snapshot] \in Object
  BY <1>1 DEF Counters, Object, Kind
<1>4. WithDdl(w) \in Writer
  BY <1>1, <1>2, <1>3 DEF WithDdl, Writer
<1>5. WithFile(w) \in Writer
  BY <1>1, <1>2, <1>3 DEF WithFile, Writer
<1>6. Sealed(w) \in Writer
  BY <1>1, <1>2 DEF Sealed, NextVersion, Writer
<1>7. w.next.snapshot >= 1 => SnapshotRow(w) \in Snapshot
  BY <1>1 DEF SnapshotRow, Snapshot, Counters
<1> QED BY <1>4, <1>5, <1>6, <1>7

\* Every step keeps every variable in its type.
LEMMA TypeStep ==
    ASSUME TypeOK, WriterInv, [Next]_vars
    PROVE  TypeOK'
<1> USE DEF TypeOK
<1>1. ASSUME NEW p \in Proc, DbOpen(p) PROVE TypeOK'
  BY <1>1, InitialTypes DEF DbOpen, durable, PC, Opening, Open, Token
<1>2. ASSUME NEW p \in Proc, LoadCatalog(p) \/ Migrate(p) PROVE TypeOK'
  BY <1>2 DEF LoadCatalog, Migrate, durable, PC, Opening, Open
<1>3. ASSUME NEW p \in Proc, CreateCatalog(p) PROVE TypeOK'
  BY <1>3, InitialTypes DEF CreateCatalog, PC, Opening, Open
<1>4. ASSUME NEW p \in Proc, EpochBegin(p) PROVE TypeOK'
  BY <1>4 DEF EpochBegin, durable, PC, Opening, Open, Token
<1>5. ASSUME NEW p \in Proc, EpochCommit(p) PROVE TypeOK'
  BY <1>5 DEF EpochCommit, PC, Opening, Open
<1>6. ASSUME NEW p \in Proc, EpochRetry(p) PROVE TypeOK'
  BY <1>6 DEF EpochRetry, durable, PC, Opening, Open
<1>7. ASSUME NEW p \in Proc, FinishOpen(p) PROVE TypeOK'
  <2>1. \A s : VersionAt(s) \in Nat
    BY DEF VersionAt, Snapshot
  <2> QED BY <1>7, <2>1 DEF FinishOpen, durable, PC, Opening, Open
<1>8. ASSUME NEW p \in Proc, Forget(p), UNCHANGED <<durable, slateGen>> PROVE TypeOK'
  BY <1>8, InitialTypes DEF Forget, durable, PC
<1>9. ASSUME NEW p \in Proc, BeginWrite(p) PROVE TypeOK'
  BY <1>9 DEF BeginWrite, durable, PC, Opening, Open, Writer
<1>10. ASSUME NEW p \in Proc, StageDdl(p) PROVE TypeOK'
  BY <1>10, WriterTypes DEF StageDdl, durable
<1>11. ASSUME NEW p \in Proc, StageFile(p) PROVE TypeOK'
  BY <1>11, WriterTypes DEF StageFile, durable
<1>12. ASSUME NEW p \in Proc, AbandonWrite(p) \/ BeginTxFails(p) PROVE TypeOK'
  BY <1>12, InitialTypes DEF AbandonWrite, BeginTxFails, durable, PC, Opening, Open
<1>13. ASSUME NEW p \in Proc, BeginTx(p) PROVE TypeOK'
  BY <1>13, WriterTypes DEF BeginTx, durable, PC, Opening, Open
<1>14. ASSUME NEW p \in Proc, Commit(p) \/ CommitInDoubt(p) PROVE TypeOK'
  <2>1. writer[p].next.snapshot >= 1
    BY <1>14 DEF Commit, CommitInDoubt, WriterInv, SessionOk, Writer, Counters
  <2>2. Durable(p)
    BY <1>14 DEF Commit, CommitInDoubt
  <2>3. snapshots' \in SUBSET Snapshot /\ objects' \in SUBSET Object
    BY <2>1, <2>2, WriterTypes DEF Durable, Writer
  <2>4. /\ dbNext' \in Counters /\ dbToken' \in Token
        /\ formatted' \in BOOLEAN /\ migrated' \in BOOLEAN
    BY <2>2 DEF Durable, PersistedCounters, Writer
  <2> QED
    BY <1>14, <2>3, <2>4, InitialTypes
       DEF Commit, CommitInDoubt, ClosedClient, PC, Opening, Open
<1>15. ASSUME NEW p \in Proc, CommitFails(p) PROVE TypeOK'
  BY <1>15, InitialTypes DEF CommitFails, durable, PC, Opening, Open
<1>16. ASSUME NEW p \in Proc, CommitWriter(p) PROVE TypeOK'
  BY <1>16, InitialTypes
     DEF CommitWriter, SyncedCounters, durable, PC, Opening, Open, Writer
<1>17. ASSUME UNCHANGED vars PROVE TypeOK'
  BY <1>17 DEF vars, durable, volatile
<1> QED
  BY <1>1, <1>2, <1>3, <1>4, <1>5, <1>6, <1>7, <1>8, <1>9, <1>10, <1>11,
     <1>12, <1>13, <1>14, <1>15, <1>16, <1>17
     DEF Next, OpenStep, WriteStep, OpenFails, Crash

\* Generations stay unique: a new client gets a number nobody has, and closing
\* one only forgets a number.
LEMMA GenStep ==
    ASSUME TypeOK, GenInv, [Next]_vars
    PROVE  GenInv'
<1> USE DEF TypeOK, GenInv
<1>1. ASSUME NEW p \in Proc, DbOpen(p) PROVE GenInv'
  <2>1. gen'[p] = slateGen + 1 /\ \A q \in Proc : q # p => gen'[q] = gen[q]
    BY <1>1 DEF DbOpen
  <2>2. pc'[p] = "init" /\ \A q \in Proc : q # p => pc'[q] = pc[q]
    BY <1>1 DEF DbOpen, PC, Opening, Open
  <2>3. slateGen' = slateGen + 1
    BY <1>1 DEF DbOpen
  <2> QED BY <2>1, <2>2, <2>3
<1>2. ASSUME NEW p \in Proc, Forget(p), UNCHANGED slateGen PROVE GenInv'
  BY <1>2 DEF Forget
<1>3. ASSUME NEW p \in Proc, pc[p] # "down", pc' = [pc EXCEPT ![p] = pc'[p]],
             pc'[p] # "down", UNCHANGED slateGen,
             gen' = gen \/ gen' = [gen EXCEPT ![p] = 0]
      PROVE GenInv'
  BY <1>3
<1>4. ASSUME NEW p \in Proc, OpenStep(p), ~OpenFails(p) PROVE GenInv'
  <2>1. pc[p] # "down" /\ pc' = [pc EXCEPT ![p] = pc'[p]] /\ pc'[p] # "down"
    BY <1>4 DEF OpenStep, LoadCatalog, CreateCatalog, Migrate, EpochBegin, EpochCommit,
                EpochRetry, FinishOpen
  <2>2. slateGen' = slateGen /\ (gen' = gen \/ gen' = [gen EXCEPT ![p] = 0])
    BY <1>4 DEF OpenStep, LoadCatalog, CreateCatalog, Migrate, EpochBegin, EpochCommit,
                EpochRetry, FinishOpen
  <2> QED BY <1>3, <2>1, <2>2
<1>5. ASSUME NEW p \in Proc, WriteStep(p) PROVE GenInv'
  <2>1. pc[p] # "down" /\ pc' = [pc EXCEPT ![p] = pc'[p]] /\ pc'[p] # "down"
    BY <1>5 DEF WriteStep, BeginWrite, StageDdl, StageFile, AbandonWrite, BeginTx,
                BeginTxFails, Commit, CommitFails, CommitInDoubt, CommitWriter
  <2>2. slateGen' = slateGen /\ (gen' = gen \/ gen' = [gen EXCEPT ![p] = 0])
    BY <1>5 DEF WriteStep, BeginWrite, StageDdl, StageFile, AbandonWrite, BeginTx,
                BeginTxFails, Commit, CommitFails, CommitInDoubt, CommitWriter,
                ClosedClient
  <2> QED BY <1>3, <2>1, <2>2
<1>6. ASSUME UNCHANGED vars PROVE GenInv'
  BY <1>6 DEF vars, volatile
<1> QED
  BY <1>1, <1>2, <1>4, <1>5, <1>6 DEF Next, OpenStep, OpenFails, Crash

\* The database is formatted once, before anybody reads counters from it.
LEMMA FormatStep ==
    ASSUME TypeOK, FormatInv, [Next]_vars
    PROVE  FormatInv'
<1> USE DEF TypeOK, FormatInv
<1>1. ASSUME NEW p \in Proc, DbOpen(p) PROVE FormatInv'
  BY <1>1 DEF DbOpen, durable
<1>2. ASSUME NEW p \in Proc, Forget(p), UNCHANGED durable PROVE FormatInv'
  BY <1>2 DEF Forget, durable
<1>3. ASSUME NEW p \in Proc, OpenStep(p), ~OpenFails(p) PROVE FormatInv'
  BY <1>3 DEF OpenStep, LoadCatalog, CreateCatalog, Migrate, EpochBegin, EpochCommit,
              EpochRetry, FinishOpen, durable
<1>4. ASSUME NEW p \in Proc, WriteStep(p) PROVE FormatInv'
  BY <1>4 DEF WriteStep, BeginWrite, StageDdl, StageFile, AbandonWrite, BeginTx,
              BeginTxFails, Commit, CommitFails, CommitInDoubt, CommitWriter,
              Durable, durable
<1>5. ASSUME UNCHANGED vars PROVE FormatInv'
  BY <1>5 DEF vars, durable, volatile
<1> QED
  BY <1>1, <1>2, <1>3, <1>4, <1>5 DEF Next, OpenStep, OpenFails, Crash

\* While a process stays down, opening or open, its SlateDB client can only lose
\* the right to write; whoever writes durable state is the newest client.
LEMMA SyncStep ==
    ASSUME TypeOK, GenInv, FormatInv, SyncInv, [Next]_vars
    PROVE  SyncInv'
<1> USE DEF TypeOK, SyncInv, CanWrite
<1>1. ASSUME NEW p \in Proc, DbOpen(p) PROVE SyncInv'
  <2>1. gen'[p] = slateGen + 1 /\ \A q \in Proc : q # p => gen'[q] = gen[q]
    BY <1>1 DEF DbOpen
  <2>2. pc'[p] = "init" /\ slateGen' = slateGen + 1
    BY <1>1 DEF DbOpen
  <2>3. \A q \in Proc : q # p => gen'[q] # slateGen'
    BY <2>1, <2>2 DEF GenInv
  <2> QED BY <2>2, <2>3
<1>2. ASSUME NEW p \in Proc, Forget(p), UNCHANGED <<durable, slateGen>>
      PROVE  SyncInv'
  BY <1>2 DEF Forget, durable
<1>3. ASSUME NEW p \in Proc, LoadCatalog(p) \/ Migrate(p) PROVE SyncInv'
  BY <1>3 DEF LoadCatalog, Migrate, durable
<1>4. ASSUME NEW p \in Proc, CreateCatalog(p) PROVE SyncInv'
  BY <1>4 DEF CreateCatalog, FormatInv
<1>5. ASSUME NEW p \in Proc, EpochBegin(p) \/ EpochCommit(p) \/ FinishOpen(p)
      PROVE  SyncInv'
  BY <1>5 DEF EpochBegin, EpochCommit, FinishOpen, durable
<1>6. ASSUME NEW p \in Proc, EpochRetry(p) PROVE SyncInv'
  <2>1. gen'[p] = 0 /\ slateGen' = slateGen /\ slateGen > 0
    BY <1>6 DEF EpochRetry, GenInv
  <2> QED BY <1>6, <2>1 DEF EpochRetry, durable
<1>7. ASSUME NEW p \in Proc,
             BeginWrite(p) \/ StageDdl(p) \/ StageFile(p) \/ AbandonWrite(p)
             \/ BeginTx(p) \/ BeginTxFails(p)
      PROVE  SyncInv'
  BY <1>7 DEF BeginWrite, StageDdl, StageFile, AbandonWrite, BeginTx,
              BeginTxFails, durable
<1>8. ASSUME NEW p \in Proc, Commit(p) PROVE SyncInv'
  <2>1. dbNext' = writer[p].next /\ pc'[p] = "committed" /\ UNCHANGED <<gen, slateGen, writer>>
    BY <1>8 DEF Commit, Durable, PersistedCounters
  <2>2. \A q \in Proc : q # p => gen'[q] # slateGen'
    BY <1>8, <2>1 DEF Commit, GenInv
  <2> QED BY <2>1, <2>2
<1>9. ASSUME NEW p \in Proc, CommitFails(p) PROVE SyncInv'
  <2>1. /\ slateGen' = slateGen /\ slateGen > 0
        /\ pc[p] = "tx" /\ pc'[p] = "ready" /\ UNCHANGED <<dbNext, counters>>
    BY <1>9 DEF CommitFails, durable, GenInv
  <2>2. \A q \in Proc : gen'[q] = gen[q] \/ gen'[q] = 0
    BY <1>9 DEF CommitFails
  <2>3. \A q \in Proc : q # p => pc'[q] = pc[q] /\ writer'[q] = writer[q]
    BY <1>9 DEF CommitFails
  <2> QED BY <2>1, <2>2, <2>3
<1>10. ASSUME NEW p \in Proc, CommitInDoubt(p) PROVE SyncInv'
  <2>1. gen'[p] = 0 /\ slateGen' = slateGen /\ slateGen > 0
    BY <1>10 DEF CommitInDoubt, ClosedClient, GenInv
  <2>2. \A q \in Proc : q # p => gen'[q] # slateGen'
    BY <1>10, <2>1 DEF CommitInDoubt, ClosedClient, GenInv
  <2> QED BY <2>1, <2>2
<1>11. ASSUME NEW p \in Proc, CommitWriter(p) PROVE SyncInv'
  BY <1>11 DEF CommitWriter, SyncedCounters, durable
<1>12. ASSUME UNCHANGED vars PROVE SyncInv'
  BY <1>12 DEF vars, durable, volatile
<1> QED
  BY <1>1, <1>2, <1>3, <1>4, <1>5, <1>6, <1>7, <1>8, <1>9, <1>10, <1>11, <1>12
     DEF Next, OpenStep, WriteStep, OpenFails, Crash

\* Epoch and nonce: only the newest client changes them, and it then holds them.
LEMMA EpochStep ==
    ASSUME TypeOK, GenInv, LiveWriterOwnsEpoch, [Next]_vars
    PROVE  LiveWriterOwnsEpoch'
<1> USE DEF TypeOK, LiveWriterOwnsEpoch, CanWrite, Open
<1>1. ASSUME NEW p \in Proc, DbOpen(p) PROVE LiveWriterOwnsEpoch'
  <2>1. gen'[p] = slateGen + 1 /\ \A q \in Proc : q # p => gen'[q] = gen[q]
    BY <1>1 DEF DbOpen
  <2>2. pc'[p] = "init" /\ slateGen' = slateGen + 1
    BY <1>1 DEF DbOpen
  <2>3. \A q \in Proc : q # p => gen'[q] # slateGen'
    BY <2>1, <2>2 DEF GenInv
  <2> QED BY <2>2, <2>3
<1>2. ASSUME NEW p \in Proc, Forget(p), UNCHANGED <<durable, slateGen>>
      PROVE  LiveWriterOwnsEpoch'
  BY <1>2 DEF Forget, durable
<1>3. ASSUME NEW p \in Proc, LoadCatalog(p) \/ CreateCatalog(p) \/ Migrate(p)
                             \/ EpochBegin(p) \/ EpochRetry(p) \/ FinishOpen(p)
      PROVE  LiveWriterOwnsEpoch'
  BY <1>3 DEF LoadCatalog, CreateCatalog, Migrate, EpochBegin, EpochRetry, FinishOpen, durable
<1>4. ASSUME NEW p \in Proc, EpochCommit(p) PROVE LiveWriterOwnsEpoch'
  <2>1. dbToken' = token'[p] /\ UNCHANGED <<gen, slateGen, token>>
    BY <1>4 DEF EpochCommit
  <2>2. \A q \in Proc : q # p => gen'[q] # slateGen'
    BY <1>4, <2>1 DEF EpochCommit, GenInv
  <2> QED BY <2>1, <2>2
<1>5. ASSUME NEW p \in Proc,
             BeginWrite(p) \/ StageDdl(p) \/ StageFile(p) \/ AbandonWrite(p)
             \/ BeginTx(p) \/ BeginTxFails(p) \/ Commit(p) \/ CommitWriter(p)
      PROVE  LiveWriterOwnsEpoch'
  BY <1>5 DEF BeginWrite, StageDdl, StageFile, AbandonWrite, BeginTx,
              BeginTxFails, Commit, CommitWriter, Durable, durable
<1>6. ASSUME NEW p \in Proc, CommitFails(p) \/ CommitInDoubt(p)
      PROVE  LiveWriterOwnsEpoch'
  <2>1. slateGen' = slateGen /\ slateGen > 0 /\ UNCHANGED <<dbToken, token>>
    BY <1>6 DEF CommitFails, CommitInDoubt, Durable, durable, GenInv
  <2>2. \A q \in Proc : gen'[q] = gen[q] \/ gen'[q] = 0
    BY <1>6 DEF CommitFails, CommitInDoubt, ClosedClient
  <2>3. pc[p] = "tx" /\ \A q \in Proc : q # p => pc'[q] = pc[q]
    BY <1>6 DEF CommitFails, CommitInDoubt
  <2> QED BY <2>1, <2>2, <2>3
<1>7. ASSUME UNCHANGED vars PROVE LiveWriterOwnsEpoch'
  BY <1>7 DEF vars, durable, volatile
<1> QED
  BY <1>1, <1>2, <1>3, <1>4, <1>5, <1>6, <1>7
     DEF Next, OpenStep, WriteStep, OpenFails, Crash

\* What one staged row, and sealing, do to a session's allocations.
LEMMA SessionSteps ==
    ASSUME NEW c \in Counters, NEW w \in Writer, SessionOk(c, w, 0)
    PROVE  /\ SessionOk(c, WithDdl(w), 0)
           /\ SessionOk(c, WithFile(w), 0)
           /\ SessionOk(c, Sealed(w), 1)
<1>1. /\ w.next \in Counters
      /\ w.next.snapshot \in Nat /\ w.next.catalog \in Nat /\ w.next.file \in Nat
      /\ c.snapshot \in Nat /\ c.catalog \in Nat /\ c.file \in Nat
  BY DEF Writer, Counters
<1>2. \A o \in w.staged : o.id \in Nat /\ o.kind \in {"catalog", "file"}
  BY DEF Writer, Object, Kind
<1>3. SessionOk(c, WithDdl(w), 0)
  <2>1. /\ WithDdl(w).next.snapshot = w.next.snapshot
        /\ WithDdl(w).next.catalog = w.next.catalog + 1
        /\ WithDdl(w).next.file = w.next.file
    BY <1>1 DEF WithDdl, Counters
  <2>2. WithDdl(w).staged = w.staged \cup
            {[kind |-> "catalog", id |-> w.next.catalog, begin |-> w.next.snapshot]}
    BY DEF WithDdl
  <2> QED BY <1>1, <1>2, <2>1, <2>2 DEF SessionOk
<1>4. SessionOk(c, WithFile(w), 0)
  <2>1. /\ WithFile(w).next.snapshot = w.next.snapshot
        /\ WithFile(w).next.catalog = w.next.catalog
        /\ WithFile(w).next.file = w.next.file + 1
    BY <1>1 DEF WithFile, Counters
  <2>2. WithFile(w).staged = w.staged \cup
            {[kind |-> "file", id |-> w.next.file, begin |-> w.next.snapshot]}
    BY DEF WithFile
  <2> QED BY <1>1, <1>2, <2>1, <2>2 DEF SessionOk
<1>5. SessionOk(c, Sealed(w), 1)
  <2>1. /\ Sealed(w).next.snapshot = w.next.snapshot + 1
        /\ Sealed(w).next.catalog = w.next.catalog
        /\ Sealed(w).next.file = w.next.file
        /\ Sealed(w).staged = w.staged
    BY <1>1 DEF Sealed, Counters
  <2> QED BY <1>1, <2>1 DEF SessionOk
<1> QED BY <1>3, <1>4, <1>5

\* Staging allocates upwards from the store's counters, which do not move while
\* a session is open.
LEMMA WriterStep ==
    ASSUME TypeOK, WriterInv, [Next]_vars
    PROVE  WriterInv'
<1> USE DEF TypeOK, WriterInv
<1>1. ASSUME NEW p \in Proc, DbOpen(p) PROVE WriterInv'
  BY <1>1 DEF DbOpen
<1>2. ASSUME NEW p \in Proc, Forget(p) PROVE WriterInv'
  BY <1>2 DEF Forget
<1>3. ASSUME NEW p \in Proc, LoadCatalog(p) \/ CreateCatalog(p) \/ Migrate(p)
                   \/ EpochBegin(p) \/ EpochCommit(p) \/ EpochRetry(p) \/ FinishOpen(p)
      PROVE  WriterInv'
  BY <1>3 DEF LoadCatalog, CreateCatalog, Migrate, EpochBegin, EpochCommit, EpochRetry, FinishOpen
<1>4. ASSUME NEW p \in Proc, BeginWrite(p) PROVE WriterInv'
  BY <1>4 DEF BeginWrite, SessionOk, Counters
<1>5. ASSUME NEW p \in Proc, StageDdl(p) PROVE WriterInv'
  BY <1>5, SessionSteps DEF StageDdl
<1>6. ASSUME NEW p \in Proc, StageFile(p) PROVE WriterInv'
  BY <1>6, SessionSteps DEF StageFile
<1>7. ASSUME NEW p \in Proc, BeginTx(p) PROVE WriterInv'
  BY <1>7, SessionSteps DEF BeginTx
<1>8. ASSUME NEW p \in Proc, AbandonWrite(p) \/ BeginTxFails(p) \/ Commit(p)
                   \/ CommitFails(p) \/ CommitInDoubt(p) \/ CommitWriter(p)
      PROVE  WriterInv'
  BY <1>8 DEF AbandonWrite, BeginTxFails, Commit, CommitFails, CommitInDoubt, CommitWriter
<1>9. ASSUME UNCHANGED vars PROVE WriterInv'
  BY <1>9 DEF vars, volatile
<1> QED
  BY <1>1, <1>2, <1>3, <1>4, <1>5, <1>6, <1>7, <1>8, <1>9
     DEF Next, OpenStep, WriteStep, OpenFails, Crash

\* A commit of the newest client meets no row under its keys: it only adds.
LEMMA CommitAdds ==
    ASSUME IInv, NEW p \in Proc, pc[p] = "tx", CanWrite(p), Durable(p)
    PROVE  /\ SessionOk(dbNext, writer[p], 1)
           /\ dbNext' = writer[p].next
           /\ SnapshotRow(writer[p]).id = dbNext.snapshot
           /\ snapshots' = snapshots \cup {SnapshotRow(writer[p])}
           /\ objects' = objects \cup writer[p].staged
<1> DEFINE w == writer[p]
<1>1. w \in Writer /\ dbNext \in Counters /\ snapshots \in SUBSET Snapshot
      /\ objects \in SUBSET Object
  BY DEF IInv, TypeOK
<1>2. counters[p] = dbNext
  BY DEF IInv, SyncInv
<1>3. SessionOk(dbNext, w, 1)
  BY <1>2 DEF IInv, WriterInv
<1>4. dbNext' = w.next
  BY DEF Durable, PersistedCounters
<1>5. SnapshotRow(w).id = dbNext.snapshot
  BY <1>1, <1>3 DEF SnapshotRow, SessionOk, Writer, Counters
<1>6. \A r \in snapshots : r.id # dbNext.snapshot
  BY <1>1 DEF IInv, DenseHistory, Counters
<1>7. \A o \in objects, n \in w.staged : ~(n.kind = o.kind /\ n.id = o.id)
  <2> SUFFICES ASSUME NEW o \in objects, NEW n \in w.staged,
                      n.kind = o.kind, n.id = o.id
               PROVE  FALSE
    OBVIOUS
  <2>1. o.id < (IF o.kind = "catalog" THEN dbNext.catalog ELSE dbNext.file)
    BY DEF IInv, CountersAhead
  <2>2. /\ n.kind = "catalog" => dbNext.catalog <= n.id
        /\ n.kind = "file" => dbNext.file <= n.id
    BY <1>3 DEF SessionOk
  <2>3. o.kind \in {"catalog", "file"} /\ o.id \in Nat
        /\ dbNext.catalog \in Nat /\ dbNext.file \in Nat
    BY <1>1 DEF Object, Kind, Counters
  <2> QED BY <2>1, <2>2, <2>3
<1>8. snapshots' = snapshots \cup {SnapshotRow(w)}
  BY <1>5, <1>6 DEF Durable
<1>9. objects' = objects \cup w.staged
  BY <1>7 DEF Durable
<1> QED BY <1>3, <1>4, <1>5, <1>8, <1>9

\* The rows after a commit.
LEMMA CommitRows ==
    ASSUME IInv, NEW p \in Proc, pc[p] = "tx", CanWrite(p), Durable(p)
    PROVE  RowInv' /\ DenseHistory' /\ CountersAhead'
<1> DEFINE w == writer[p]
           row == SnapshotRow(w)
<1>1. /\ SessionOk(dbNext, w, 1) /\ dbNext' = w.next /\ row.id = dbNext.snapshot
      /\ snapshots' = snapshots \cup {row} /\ objects' = objects \cup w.staged
  BY CommitAdds
<1>2. /\ w.next.snapshot \in Nat /\ w.next.catalog \in Nat /\ w.next.file \in Nat
      /\ dbNext.snapshot \in Nat /\ dbNext.catalog \in Nat /\ dbNext.file \in Nat
  BY DEF IInv, TypeOK, Writer, Counters
<1>3. row.nextCatalog = w.next.catalog /\ row.nextFile = w.next.file
  BY DEF SnapshotRow
<1>4. /\ w.next.snapshot = dbNext.snapshot + 1
      /\ dbNext.catalog <= w.next.catalog /\ dbNext.file <= w.next.file
  BY <1>1 DEF SessionOk
<1>5. \A r \in snapshots : /\ r.id \in 1..(dbNext.snapshot - 1)
                           /\ r.nextCatalog \in Nat /\ r.nextFile \in Nat
                           /\ r.nextCatalog <= dbNext.catalog
                           /\ r.nextFile <= dbNext.file
  BY DEF IInv, TypeOK, RowInv, DenseHistory, Snapshot
<1>6. \A o \in objects : /\ o.id \in Nat /\ o.kind \in {"catalog", "file"}
                         /\ o.begin \in 1..(dbNext.snapshot - 1)
                         /\ o.kind = "catalog" => o.id < dbNext.catalog
                         /\ o.kind = "file" => o.id < dbNext.file
  BY DEF IInv, TypeOK, CountersAhead, Object, Kind
<1>7. \A o \in w.staged : /\ o.id \in Nat /\ o.kind \in {"catalog", "file"}
                          /\ o.begin = dbNext.snapshot
                          /\ o.kind = "catalog" => dbNext.catalog <= o.id /\ o.id < w.next.catalog
                          /\ o.kind = "file" => dbNext.file <= o.id /\ o.id < w.next.file
  BY <1>1 DEF IInv, TypeOK, Writer, Object, Kind, SessionOk
<1>8. dbNext.snapshot >= 1
  BY DEF IInv, RowInv
<1>9. RowInv'
  BY <1>1, <1>2, <1>3, <1>4, <1>5 DEF RowInv
<1>10. DenseHistory'
  <2>1. {r.id : r \in snapshots'} = {r.id : r \in snapshots} \cup {row.id}
    BY <1>1
  <2>2. {r.id : r \in snapshots} = 1..(dbNext.snapshot - 1)
    BY DEF IInv, DenseHistory
  <2>3. {r.id : r \in snapshots'} = 1..(dbNext'.snapshot - 1)
    BY <2>1, <2>2, <1>1, <1>2, <1>4, <1>8
  <2>4. \A r, s \in snapshots' : r.id = s.id => r = s
    BY <1>1, <1>2, <1>5 DEF IInv, DenseHistory
  <2> QED BY <2>3, <2>4 DEF DenseHistory
<1>11. \A o \in objects' :
           /\ o.id < (IF o.kind = "catalog" THEN dbNext'.catalog ELSE dbNext'.file)
           /\ o.begin \in 1..(dbNext'.snapshot - 1)
  BY <1>1, <1>2, <1>4, <1>6, <1>7, <1>8
<1>12. ASSUME NEW r \in snapshots', NEW o \in objects'
       PROVE  o.begin <= r.id <=>
                o.id < (IF o.kind = "catalog" THEN r.nextCatalog ELSE r.nextFile)
  <2>1. CASE r \in snapshots /\ o \in objects
    BY <2>1 DEF IInv, CountersAhead
  <2>2. CASE r \in snapshots /\ o \in w.staged
    BY <2>2, <1>2, <1>5, <1>7
  <2>3. CASE r = row /\ o \in objects
    BY <2>3, <1>1, <1>2, <1>3, <1>4, <1>6
  <2>4. CASE r = row /\ o \in w.staged
    BY <2>4, <1>1, <1>2, <1>3, <1>7
  <2> QED BY <1>1, <2>1, <2>2, <2>3, <2>4
<1>13. CountersAhead'
  BY <1>11, <1>12 DEF CountersAhead
<1> QED BY <1>9, <1>10, <1>13

\* Every other step leaves the rows alone (formatting an empty database too).
LEMMA RowStep ==
    ASSUME IInv, [Next]_vars
    PROVE  RowInv' /\ DenseHistory' /\ CountersAhead'
<1>1. ASSUME UNCHANGED <<dbNext, snapshots, objects>>
      PROVE  RowInv' /\ DenseHistory' /\ CountersAhead'
  BY <1>1 DEF IInv, RowInv, DenseHistory, CountersAhead
<1>2. ASSUME NEW p \in Proc, Commit(p) \/ CommitInDoubt(p)
      PROVE  RowInv' /\ DenseHistory' /\ CountersAhead'
  BY <1>2, CommitRows DEF Commit, CommitInDoubt
<1>3. ASSUME NEW p \in Proc, CreateCatalog(p)
      PROVE  UNCHANGED <<dbNext, snapshots, objects>>
  BY <1>3 DEF CreateCatalog, IInv, FormatInv
<1>4. ASSUME NEW p \in Proc, DbOpen(p) \/ OpenStep(p), ~CreateCatalog(p)
      PROVE  UNCHANGED <<dbNext, snapshots, objects>>
  BY <1>4 DEF DbOpen, OpenStep, LoadCatalog, Migrate, EpochBegin, EpochCommit,
              EpochRetry, FinishOpen, OpenFails, durable
<1>5. ASSUME NEW p \in Proc, WriteStep(p), ~Commit(p), ~CommitInDoubt(p)
      PROVE  UNCHANGED <<dbNext, snapshots, objects>>
  BY <1>5 DEF WriteStep, BeginWrite, StageDdl, StageFile, AbandonWrite, BeginTx,
              BeginTxFails, CommitFails, CommitWriter, durable
<1>6. ASSUME NEW p \in Proc, Crash(p) PROVE UNCHANGED <<dbNext, snapshots, objects>>
  BY <1>6 DEF Crash, durable
<1>7. ASSUME UNCHANGED vars PROVE UNCHANGED <<dbNext, snapshots, objects>>
  BY <1>7 DEF vars, durable
<1> QED
  BY <1>1, <1>2, <1>3, <1>4, <1>5, <1>6, <1>7 DEF Next

-----------------------------------------------------------------------------
\* The initial state satisfies the inductive invariant.
LEMMA InitInv == Init => IInv
<1> SUFFICES ASSUME Init PROVE IInv
  OBVIOUS
<1> USE DEF Init
<1>1. TypeOK
  BY InitialTypes DEF TypeOK, PC
<1>2. GenInv /\ FormatInv /\ SyncInv /\ WriterInv /\ LiveWriterOwnsEpoch
  BY DEF GenInv, FormatInv, SyncInv, WriterInv, LiveWriterOwnsEpoch, Open
<1>3. RowInv /\ CountersAhead
  BY DEF RowInv, CountersAhead, InitialCounters
<1>4. DenseHistory
  BY DEF DenseHistory, InitialCounters
<1> QED BY <1>1, <1>2, <1>3, <1>4 DEF IInv

\* The inductive invariant holds in every reachable state.
THEOREM Invariance == Spec => []IInv
<1>1. IInv /\ [Next]_vars => IInv'
  <2> SUFFICES ASSUME IInv, [Next]_vars PROVE IInv'
    OBVIOUS
  <2>1. TypeOK' /\ GenInv' /\ FormatInv' /\ SyncInv' /\ WriterInv' /\ LiveWriterOwnsEpoch'
    BY TypeStep, GenStep, FormatStep, SyncStep, WriterStep, EpochStep DEF IInv
  <2>2. RowInv' /\ DenseHistory' /\ CountersAhead'
    BY RowStep
  <2> QED BY <2>1, <2>2 DEF IInv
<1> QED BY InitInv, <1>1, PTL DEF Spec

\* Every variable keeps the type of its Rust counterpart; in particular the u64
\* subtraction that recovers a snapshot id from the counter never underflows.
THEOREM TypeCorrect == Spec => []TypeOK
<1>1. IInv => TypeOK
  BY DEF IInv
<1> QED BY Invariance, <1>1, PTL

\* Snapshot ids have no gap and no duplicate, for any number of processes that
\* open, fence each other, crash or lose acknowledgements (create_snapshot).
THEOREM DenseHistoryHolds == Spec => []DenseHistory
<1>1. IInv => DenseHistory
  BY DEF IInv
<1> QED BY Invariance, <1>1, PTL

\* The counters stored with every snapshot separate older from newer ids.
THEOREM CountersAheadHolds == Spec => []CountersAhead
<1>1. IInv => CountersAhead
  BY DEF IInv
<1> QED BY Invariance, <1>1, PTL

\* check_epoch never refuses the newest client.
THEOREM LiveWriterOwnsEpochHolds == Spec => []LiveWriterOwnsEpoch
<1>1. IInv => LiveWriterOwnsEpoch
  BY DEF IInv
<1> QED BY Invariance, <1>1, PTL

\* No step rewrites or removes a committed row.
THEOREM AppendOnlyHolds == Spec => AppendOnly
<1>1. IInv /\ [Next]_vars =>
          [snapshots \subseteq snapshots' /\ objects \subseteq objects']_vars
  <2> SUFFICES ASSUME IInv, Next
               PROVE  snapshots \subseteq snapshots' /\ objects \subseteq objects'
    OBVIOUS
  <2>1. ASSUME NEW p \in Proc, Commit(p) \/ CommitInDoubt(p)
        PROVE  snapshots \subseteq snapshots' /\ objects \subseteq objects'
    BY <2>1, CommitAdds DEF Commit, CommitInDoubt
  <2>2. ASSUME NEW p \in Proc, DbOpen(p) \/ OpenStep(p) \/ Crash(p)
        PROVE  UNCHANGED <<snapshots, objects>>
    BY <2>2 DEF DbOpen, OpenStep, LoadCatalog, CreateCatalog, Migrate, EpochBegin, EpochCommit,
                EpochRetry, FinishOpen, OpenFails, Crash, durable
  <2>3. ASSUME NEW p \in Proc, WriteStep(p), ~Commit(p), ~CommitInDoubt(p)
        PROVE  UNCHANGED <<snapshots, objects>>
    BY <2>3 DEF WriteStep, BeginWrite, StageDdl, StageFile, AbandonWrite, BeginTx,
                BeginTxFails, CommitFails, CommitWriter, durable
  <2> QED BY <2>1, <2>2, <2>3 DEF Next
<1> QED BY Invariance, <1>1, PTL DEF Spec, AppendOnly

-----------------------------------------------------------------------------
(***************************************************************************)
(* CatalogCommit implements SnapshotLog.  That a commit appends an entry   *)
(* is CommitAdds; that the entry has the right schema version needs to be  *)
(* followed from the snapshot row an open() reads it from, through the     *)
(* store and the session, to the row the commit writes.                    *)
(***************************************************************************)

HasDdl(S) == \E o \in S : o.kind = "catalog"

\* What a session makes of the schema version it was given.
SessionVersion ==
    \A p \in Proc :
        /\ pc[p] = "writing" =>
               /\ writer[p].sv = schemaVersion[p]
               /\ writer[p].changed <=> HasDdl(writer[p].staged)
        /\ pc[p] = "tx" =>
               writer[p].sv = schemaVersion[p] + (IF HasDdl(writer[p].staged) THEN 1 ELSE 0)

\* The newest client knows the schema version of the latest snapshot.
StoreVersion ==
    \A p \in Proc : CanWrite(p) =>
        /\ pc[p] \in {"ready", "writing", "tx"} =>
               schemaVersion[p] = VersionAt(dbNext.snapshot - 1)
        /\ pc[p] = "committed" => writer[p].sv = VersionAt(dbNext.snapshot - 1)

\* A session's schema version follows what it stages.
LEMMA SessionVersionStep ==
    ASSUME TypeOK, SessionVersion, [Next]_vars
    PROVE  SessionVersion'
<1> USE DEF TypeOK, SessionVersion
<1>1. ASSUME NEW p \in Proc, DbOpen(p) PROVE SessionVersion'
  BY <1>1 DEF DbOpen
<1>2. ASSUME NEW p \in Proc, Forget(p) PROVE SessionVersion'
  BY <1>2 DEF Forget
<1>3. ASSUME NEW p \in Proc, LoadCatalog(p) \/ CreateCatalog(p) \/ Migrate(p)
                   \/ EpochBegin(p) \/ EpochCommit(p) \/ EpochRetry(p) \/ FinishOpen(p)
      PROVE  SessionVersion'
  BY <1>3 DEF LoadCatalog, CreateCatalog, Migrate, EpochBegin, EpochCommit, EpochRetry, FinishOpen
<1>4. ASSUME NEW p \in Proc, BeginWrite(p) PROVE SessionVersion'
  BY <1>4 DEF BeginWrite, HasDdl
<1>5. ASSUME NEW p \in Proc, StageDdl(p) PROVE SessionVersion'
  <2>1. writer'[p].sv = writer[p].sv /\ writer'[p].changed = TRUE
    BY <1>5 DEF StageDdl, WithDdl
  <2>2. [kind |-> "catalog", id |-> writer[p].next.catalog, begin |-> writer[p].next.snapshot]
            \in writer'[p].staged
    BY <1>5 DEF StageDdl, WithDdl
  <2>3. HasDdl(writer'[p].staged)
    BY <2>2 DEF HasDdl
  <2> QED BY <1>5, <2>1, <2>3 DEF StageDdl
<1>6. ASSUME NEW p \in Proc, StageFile(p) PROVE SessionVersion'
  <2>1. /\ writer'[p].sv = writer[p].sv /\ writer'[p].changed = writer[p].changed
        /\ HasDdl(writer'[p].staged) <=> HasDdl(writer[p].staged)
    BY <1>6 DEF StageFile, WithFile, HasDdl
  <2> QED BY <1>6, <2>1 DEF StageFile
<1>7. ASSUME NEW p \in Proc, BeginTx(p) PROVE SessionVersion'
  <2>1. /\ writer'[p].sv = writer[p].sv + (IF HasDdl(writer[p].staged) THEN 1 ELSE 0)
        /\ writer'[p].staged = writer[p].staged
    BY <1>7 DEF BeginTx, Sealed, NextVersion, Writer
  <2> QED BY <1>7, <2>1 DEF BeginTx
<1>8. ASSUME NEW p \in Proc, AbandonWrite(p) \/ BeginTxFails(p) \/ Commit(p)
                   \/ CommitFails(p) \/ CommitInDoubt(p) \/ CommitWriter(p)
      PROVE  SessionVersion'
  BY <1>8 DEF AbandonWrite, BeginTxFails, Commit, CommitFails, CommitInDoubt, CommitWriter
<1>9. ASSUME UNCHANGED vars PROVE SessionVersion'
  BY <1>9 DEF vars, volatile
<1> QED
  BY <1>1, <1>2, <1>3, <1>4, <1>5, <1>6, <1>7, <1>8, <1>9
     DEF Next, OpenStep, WriteStep, OpenFails, Crash

\* A stored snapshot row is found under its id.
LEMMA VersionFound ==
    ASSUME DenseHistory
    PROVE  /\ \A r \in snapshots : VersionAt(r.id) = r.sv
           /\ VersionAt(0) = 0
<1>1. ASSUME NEW r \in snapshots PROVE VersionAt(r.id) = r.sv
  <2>1. \E q \in snapshots : q.id = r.id
    BY <1>1
  <2>2. (CHOOSE q \in snapshots : q.id = r.id) = r
    BY <1>1 DEF DenseHistory
  <2> QED BY <2>1, <2>2 DEF VersionAt
<1>2. \A r \in snapshots : r.id # 0
  BY DEF DenseHistory
<1>3. VersionAt(0) = 0
  BY <1>2 DEF VersionAt
<1> QED BY <1>1, <1>3

\* A commit of the newest client changes no earlier version and adds its own.
LEMMA CommitVersions ==
    ASSUME IInv, IInv', NEW p \in Proc, pc[p] = "tx", CanWrite(p), Durable(p)
    PROVE  /\ \A i \in 1..(dbNext.snapshot - 1) : VersionAt(i)' = VersionAt(i)
           /\ \A i : i = dbNext.snapshot => VersionAt(i)' = writer[p].sv
<1> DEFINE row == SnapshotRow(writer[p])
<1>1. snapshots' = snapshots \cup {row} /\ row.id = dbNext.snapshot
  BY CommitAdds
<1>2. row.sv = writer[p].sv
  BY DEF SnapshotRow
<1>3. DenseHistory /\ DenseHistory'
  BY DEF IInv
<1>4. \A r \in snapshots : VersionAt(r.id) = r.sv
  BY <1>3, VersionFound
<1>5. \A r, s \in snapshots' : r.id = s.id => r = s
  BY <1>3 DEF DenseHistory
<1>6. ASSUME NEW r \in snapshots', NEW i, r.id = i PROVE VersionAt(i)' = r.sv
  <2>1. (CHOOSE q \in snapshots' : q.id = i) = r
    BY <1>5, <1>6
  <2> QED BY <1>6, <2>1 DEF VersionAt
<1>7. ASSUME NEW i \in 1..(dbNext.snapshot - 1) PROVE VersionAt(i)' = VersionAt(i)
  <2>1. PICK r \in snapshots : r.id = i
    BY <1>3 DEF DenseHistory
  <2> QED BY <1>1, <1>4, <1>6, <2>1
<1>8. \A i : i = dbNext.snapshot => VersionAt(i)' = writer[p].sv
  BY <1>1, <1>2, <1>6
<1> QED BY <1>7, <1>8

\* The schema version of the newest client follows the snapshots.
LEMMA StoreVersionStep ==
    ASSUME IInv, IInv', SessionVersion, StoreVersion, [Next]_vars
    PROVE  StoreVersion'
<1>0. /\ TypeOK /\ GenInv /\ SyncInv /\ DenseHistory /\ FormatInv
      /\ dbNext \in Counters /\ dbNext.snapshot \in Nat /\ dbNext.snapshot >= 1
  BY DEF IInv, TypeOK, Counters, RowInv
<1>1. ASSUME NEW p \in Proc, Commit(p) \/ CommitInDoubt(p) PROVE StoreVersion'
  <2>1. pc[p] = "tx" /\ CanWrite(p) /\ Durable(p)
    BY <1>1 DEF Commit, CommitInDoubt
  <2>2. dbNext'.snapshot - 1 = dbNext.snapshot
    <3>1. SessionOk(dbNext, writer[p], 1) /\ dbNext' = writer[p].next
      BY <2>1, CommitAdds
    <3> QED BY <1>0, <3>1 DEF SessionOk
  <2>3. VersionAt(dbNext.snapshot - 1)' = writer[p].sv
    BY <2>1, <2>2, CommitVersions
  <2>4. \A q \in Proc : q # p => gen'[q] # slateGen'
    BY <1>0, <1>1 DEF Commit, CommitInDoubt, CanWrite, GenInv, TypeOK, ClosedClient
  <2>5. CASE Commit(p)
    <3>1. pc'[p] = "committed" /\ writer'[p] = writer[p]
      BY <1>0, <2>5 DEF Commit, TypeOK
    <3> QED BY <2>3, <2>4, <3>1 DEF StoreVersion, CanWrite
  <2>6. CASE CommitInDoubt(p)
    <3>1. gen'[p] = 0 /\ slateGen' > 0
      BY <1>0, <2>6 DEF CommitInDoubt, ClosedClient, GenInv, TypeOK
    <3> QED BY <2>4, <3>1 DEF StoreVersion, CanWrite
  <2> QED BY <1>1, <2>5, <2>6
<1>2. ASSUME UNCHANGED <<dbNext, snapshots>>
      PROVE  VersionAt(dbNext.snapshot - 1)' = VersionAt(dbNext.snapshot - 1)
  BY <1>2 DEF VersionAt
<1>3. ASSUME NEW p \in Proc, DbOpen(p) PROVE StoreVersion'
  <2>1. gen'[p] = slateGen + 1 /\ \A q \in Proc : q # p => gen'[q] = gen[q]
    BY <1>0, <1>3 DEF DbOpen, TypeOK
  <2>2. pc'[p] = "init" /\ slateGen' = slateGen + 1
    BY <1>0, <1>3 DEF DbOpen, TypeOK
  <2>3. \A q \in Proc : q # p => gen'[q] # slateGen'
    BY <1>0, <2>1, <2>2 DEF GenInv, TypeOK
  <2> QED BY <2>2, <2>3 DEF StoreVersion, CanWrite
<1>4. ASSUME NEW p \in Proc, Forget(p), UNCHANGED <<durable, slateGen>> PROVE StoreVersion'
  BY <1>0, <1>2, <1>4 DEF Forget, durable, StoreVersion, CanWrite, TypeOK
<1>5. ASSUME NEW p \in Proc, CreateCatalog(p) PROVE StoreVersion'
  BY <1>0, <1>2, <1>5 DEF CreateCatalog, FormatInv, StoreVersion, CanWrite, TypeOK
<1>6. ASSUME NEW p \in Proc, LoadCatalog(p) \/ Migrate(p) \/ EpochBegin(p) \/ EpochCommit(p)
      PROVE  StoreVersion'
  BY <1>0, <1>2, <1>6
     DEF LoadCatalog, Migrate, EpochBegin, EpochCommit, durable, StoreVersion, CanWrite, TypeOK
<1>7. ASSUME NEW p \in Proc, EpochRetry(p) PROVE StoreVersion'
  <2>1. gen'[p] = 0 /\ slateGen' = slateGen /\ slateGen > 0
    BY <1>0, <1>7 DEF EpochRetry, GenInv, TypeOK
  <2> QED BY <1>0, <1>2, <1>7, <2>1 DEF EpochRetry, durable, StoreVersion, CanWrite, TypeOK
<1>8. ASSUME NEW p \in Proc, FinishOpen(p) PROVE StoreVersion'
  <2>1. CanWrite(p) => counters[p] = dbNext
    BY <1>0, <1>8 DEF FinishOpen, SyncInv
  <2>2. VersionAt(0) = 0
    BY <1>0, VersionFound
  <2>3. CanWrite(p) => schemaVersion'[p] = VersionAt(dbNext.snapshot - 1)
    BY <1>0, <1>8, <2>1, <2>2 DEF FinishOpen, TypeOK
  <2> QED BY <1>0, <1>2, <1>8, <2>3 DEF FinishOpen, durable, StoreVersion, CanWrite, TypeOK
<1>9. ASSUME NEW p \in Proc,
             BeginWrite(p) \/ StageDdl(p) \/ StageFile(p) \/ AbandonWrite(p)
             \/ BeginTx(p) \/ BeginTxFails(p)
      PROVE  StoreVersion'
  BY <1>0, <1>2, <1>9
     DEF BeginWrite, StageDdl, StageFile, AbandonWrite, BeginTx, BeginTxFails, durable,
         StoreVersion, CanWrite, TypeOK
<1>10. ASSUME NEW p \in Proc, CommitFails(p) PROVE StoreVersion'
  <2>1. /\ slateGen' = slateGen /\ slateGen > 0 /\ UNCHANGED <<dbNext, snapshots, schemaVersion>>
        /\ pc[p] = "tx" /\ pc'[p] = "ready"
    BY <1>0, <1>10 DEF CommitFails, durable, GenInv, TypeOK
  <2>2. \A q \in Proc : gen'[q] = gen[q] \/ gen'[q] = 0
    BY <1>0, <1>10 DEF CommitFails, TypeOK
  <2>3. \A q \in Proc : q # p => pc'[q] = pc[q] /\ writer'[q] = writer[q]
    BY <1>0, <1>10 DEF CommitFails, TypeOK
  <2> QED BY <1>2, <2>1, <2>2, <2>3 DEF StoreVersion, CanWrite
<1>11. ASSUME NEW p \in Proc, CommitWriter(p) PROVE StoreVersion'
  BY <1>0, <1>2, <1>11 DEF CommitWriter, durable, StoreVersion, CanWrite, TypeOK
<1>12. ASSUME UNCHANGED vars PROVE StoreVersion'
  BY <1>2, <1>12 DEF vars, durable, volatile, StoreVersion, CanWrite
<1> QED
  BY <1>1, <1>3, <1>4, <1>5, <1>6, <1>7, <1>8, <1>9, <1>10, <1>11, <1>12
     DEF Next, OpenStep, WriteStep, OpenFails, Crash

\* The schema version follows the log of snapshots in every reachable state.
LEMMA VersionInvariance == Spec => [](SessionVersion /\ StoreVersion)
<1>1. Init => SessionVersion /\ StoreVersion
  BY DEF Init, SessionVersion, StoreVersion
<1>2. IInv /\ IInv' /\ SessionVersion /\ StoreVersion /\ [Next]_vars
          => SessionVersion' /\ StoreVersion'
  <2>1. IInv => TypeOK
    BY DEF IInv
  <2> QED BY <2>1, SessionVersionStep, StoreVersionStep
<1> QED BY Invariance, <1>1, <1>2, PTL DEF Spec

\* A commit appends an entry to the log.
LEMMA CommitAppends ==
    ASSUME IInv, IInv', SessionVersion, StoreVersion,
           NEW p \in Proc, pc[p] = "tx", CanWrite(p), Durable(p)
    PROVE  Log!Append1
<1> DEFINE w == writer[p]
<1>1. /\ SessionOk(dbNext, w, 1) /\ dbNext' = w.next
      /\ snapshots' = snapshots \cup {SnapshotRow(w)} /\ objects' = objects \cup w.staged
  BY CommitAdds
<1>2. PICK n \in Nat : n = dbNext.snapshot /\ n >= 1 /\ dbNext'.snapshot = n + 1
  BY <1>1 DEF IInv, RowInv, TypeOK, Writer, Counters, SessionOk
<1>3. /\ \A i \in 1..(n - 1) : VersionAt(i)' = VersionAt(i)
      /\ VersionAt(n)' = w.sv
  BY <1>2, CommitVersions
<1>4. /\ \A o \in objects : o.begin \in 1..(n - 1)
      /\ \A o \in w.staged : o.begin = n
  BY <1>1, <1>2 DEF IInv, CountersAhead, SessionOk
<1>5. CommittedLog = [i \in 1..(n - 1) |->
          [objs |-> {o \in objects : o.begin = i}, sv |-> VersionAt(i)]]
  BY <1>2 DEF CommittedLog
<1>6. CommittedLog' = [i \in 1..n |->
          [objs |-> {o \in objects' : o.begin = i}, sv |-> VersionAt(i)']]
  BY <1>2 DEF CommittedLog
<1>7. Len(CommittedLog) = n - 1 /\ Len(CommittedLog') = n
  BY <1>2, <1>5, <1>6
<1>8. ASSUME NEW i \in 1..(n - 1) PROVE CommittedLog'[i] = CommittedLog[i]
  <2>1. {o \in objects' : o.begin = i} = {o \in objects : o.begin = i}
    BY <1>1, <1>2, <1>4
  <2>2. i \in 1..n
    BY <1>2
  <2> QED BY <1>3, <1>5, <1>6, <2>1, <2>2
<1>9. CommittedLog'[n] = [objs |-> w.staged, sv |-> w.sv]
  <2>1. {o \in objects' : o.begin = n} = w.staged
    BY <1>1, <1>2, <1>4
  <2>2. n \in 1..n
    BY <1>2
  <2> QED BY <1>3, <1>6, <2>1, <2>2
<1>10. ASSUME NEW o \in w.staged PROVE Log!Key(o) \notin Log!Used(CommittedLog)
  <2> SUFFICES ASSUME NEW i \in 1..(n - 1), NEW x \in CommittedLog[i].objs,
                      Log!Key(x) = Log!Key(o)
               PROVE  FALSE
    BY <1>7 DEF Log!Used
  <2>1. x \in objects
    BY <1>5
  <2>2. x.kind = o.kind /\ x.id = o.id
    BY DEF Log!Key
  <2>3. /\ o.kind = "catalog" => dbNext.catalog <= o.id
        /\ o.kind = "file" => dbNext.file <= o.id
    BY <1>1 DEF SessionOk
  <2>4. x.id < (IF x.kind = "catalog" THEN dbNext.catalog ELSE dbNext.file)
    BY <2>1 DEF IInv, CountersAhead
  <2>5. /\ x.id \in Nat /\ x.kind \in {"catalog", "file"}
        /\ dbNext.catalog \in Nat /\ dbNext.file \in Nat
    BY <2>1 DEF IInv, TypeOK, Object, Kind, Counters
  <2> QED BY <2>2, <2>3, <2>4, <2>5
<1>11. Log!LastVersion(CommittedLog) = VersionAt(n - 1)
  <2>1. CASE n = 1
    <3>1. CommittedLog = <<>>
      BY <1>5, <2>1
    <3>2. VersionAt(0) = 0
      BY VersionFound DEF IInv
    <3> QED BY <2>1, <3>1, <3>2 DEF Log!LastVersion
  <2>2. CASE n > 1
    <3>1. CommittedLog # <<>>
      BY <1>2, <1>7, <2>2
    <3>2. n - 1 \in 1..(n - 1)
      BY <1>2, <2>2
    <3>3. CommittedLog[n - 1].sv = VersionAt(n - 1)
      BY <1>5, <3>2
    <3> QED BY <1>7, <3>1, <3>3 DEF Log!LastVersion
  <2> QED BY <1>2, <2>1, <2>2
<1>12. w.sv = VersionAt(n - 1) + (IF HasDdl(w.staged) THEN 1 ELSE 0)
  BY <1>2 DEF SessionVersion, StoreVersion
<1>13. Log!HasDdl([objs |-> w.staged, sv |-> w.sv]) <=> HasDdl(w.staged)
  BY DEF Log!HasDdl, HasDdl
<1>14. /\ Len(CommittedLog') = Len(CommittedLog) + 1
       /\ \A i \in 1..Len(CommittedLog) : CommittedLog'[i] = CommittedLog[i]
       /\ Len(CommittedLog) + 1 = n
  BY <1>2, <1>7, <1>8
<1> QED BY <1>9, <1>10, <1>11, <1>12, <1>13, <1>14 DEF Log!Append1

\* The durable state is an append-only log of atomic transactions, each with
\* fresh identifiers and the schema version its DDL asks for, whatever processes
\* open, fence each other, crash or lose acknowledgements.
THEOREM LogImplemented == Spec => ImplementsLog
<1>1. Init => Log!Init
  <2> SUFFICES ASSUME Init PROVE CommittedLog = <<>>
    BY DEF Log!Init
  <2>1. dbNext.snapshot - 1 = 0
    BY DEF Init, InitialCounters
  <2> QED BY <2>1 DEF CommittedLog
<1>2. IInv /\ IInv' /\ SessionVersion /\ StoreVersion /\ [Next]_vars
          => [Log!Append1]_CommittedLog
  <2> SUFFICES ASSUME IInv, IInv', SessionVersion, StoreVersion, [Next]_vars
               PROVE  Log!Append1 \/ UNCHANGED CommittedLog
    OBVIOUS
  <2>1. ASSUME NEW p \in Proc, Commit(p) \/ CommitInDoubt(p) PROVE Log!Append1
    BY <2>1, CommitAppends DEF Commit, CommitInDoubt
  <2>2. ASSUME UNCHANGED <<dbNext, snapshots, objects>> PROVE UNCHANGED CommittedLog
    BY <2>2 DEF CommittedLog, VersionAt
  <2>3. ASSUME NEW p \in Proc, CreateCatalog(p) PROVE UNCHANGED <<dbNext, snapshots, objects>>
    BY <2>3 DEF CreateCatalog, IInv, FormatInv
  <2>4. ASSUME NEW p \in Proc, DbOpen(p) \/ OpenStep(p) \/ Crash(p), ~CreateCatalog(p)
        PROVE  UNCHANGED <<dbNext, snapshots, objects>>
    BY <2>4 DEF DbOpen, OpenStep, LoadCatalog, Migrate, EpochBegin, EpochCommit,
                EpochRetry, FinishOpen, OpenFails, Crash, durable
  <2>5. ASSUME NEW p \in Proc, WriteStep(p), ~Commit(p), ~CommitInDoubt(p)
        PROVE  UNCHANGED <<dbNext, snapshots, objects>>
    BY <2>5 DEF WriteStep, BeginWrite, StageDdl, StageFile, AbandonWrite, BeginTx,
                BeginTxFails, CommitFails, CommitWriter, durable
  <2>6. ASSUME UNCHANGED vars PROVE UNCHANGED <<dbNext, snapshots, objects>>
    BY <2>6 DEF vars, durable
  <2> QED BY <2>1, <2>2, <2>3, <2>4, <2>5, <2>6 DEF Next
<1> QED
  BY <1>1, <1>2, Invariance, VersionInvariance, PTL DEF Spec, ImplementsLog, Log!Spec
=============================================================================
