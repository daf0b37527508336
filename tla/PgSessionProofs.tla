--------------------------- MODULE PgSessionProofs ---------------------------
(***************************************************************************)
(* Proofs about PgSession, for any set of sessions and any workloads.      *)
(*                                                                         *)
(* AtomicTransactions is not inductive: it needs that the writer has       *)
(* exactly the rows of what the mutex's holder has applied (WriterInv),    *)
(* that a session's buffers hold operations of its current transaction     *)
(* (OwnInv), and that a transaction under way has no row yet (RowsInv).    *)
(* RowIdsDisjoint needs where the numbers of committed and of staged files *)
(* lie with respect to the stored next_row_id (NumberInv).                 *)
(*                                                                         *)
(* Both properties hold of clients that keep to a discipline, which is a   *)
(* premise of the theorem: see AttachesOnce and NumbersFiles.              *)
(***************************************************************************)
EXTENDS PgSession, SequenceTheorems, TLAPS

\* The variables have their types.
TypeInv ==
    /\ workload \in Workloads
    /\ inTransaction \in [Session -> BOOLEAN]
    /\ pending \in [Session -> Seq(Op)]
    /\ bootstrap \in [Session -> Seq(Op)]
    /\ txn \in [Session -> Nat]
    /\ view \in [Session -> [catalog : Nat, rows : Nat]]
    /\ phase \in [Session -> Phase]
    /\ batch \in [Session -> Seq(Op)]
    /\ acked \in SUBSET [by : Session \X Nat, ops : Seq(Op)]
    /\ queue \in Seq(Session)
    /\ latest \in Nat /\ nextCatalog \in Nat
    /\ rows \in SUBSET Row
    /\ stats \in [count : Nat, next : Nat]
    /\ writer \in [rows : SUBSET Row, next : Nat, pos : Nat]

LEMMA WorkloadType ==
    ASSUME TypeInv
    PROVE  /\ Attach \in Seq(OpName) /\ MaxTxns \in Nat
           /\ Scripts \in SUBSET Seq(OpName)
  BY WorkloadsAssumption DEF TypeInv, Attach, MaxTxns, Scripts

LEMMA ClientOpType ==
    ASSUME TypeInv, NEW s \in Session, NEW name \in OpName, NEW t \in Nat
    PROVE  ClientOp(s, name, t) \in Op
  <1>1. view[s].catalog \in Nat /\ view[s].rows + 1 \in Nat
    BY DEF TypeInv
  <1>2. (IF name = "column" THEN view[s].catalog ELSE 0) \in Nat
    BY <1>1
  <1>3. (IF name = "setStats" THEN view[s].rows + 1 ELSE 0) \in Nat
    BY <1>1
  <1> QED BY <1>2, <1>3 DEF ClientOp, Op

LEMMA InitType == Init => TypeInv
  <1> SUFFICES ASSUME Init PROVE TypeInv
    OBVIOUS
  <1>1. <<>> \in Seq(Op) /\ <<>> \in Seq(Session)
    OBVIOUS
  <1>2. NoView \in [catalog : Nat, rows : Nat] /\ "idle" \in Phase
    BY DEF NoView, Phase
  <1>3. NoWriter \in [rows : SUBSET Row, next : Nat, pos : Nat]
    BY DEF NoWriter
  <1> QED BY <1>1, <1>2, <1>3 DEF Init, TypeInv

LEMMA AnswerType ==
    ASSUME TypeInv, NEW s \in Session, NEW result, Answer(s, result)
    PROVE  /\ phase' \in [Session -> Phase]
           /\ batch' \in [Session -> Seq(Op)]
           /\ acked' \in SUBSET [by : Session \X Nat, ops : Seq(Op)]
  <1>1. "idle" \in Phase /\ <<>> \in Seq(Op)
    BY DEF Phase
  <1>2. [by |-> <<s, txn[s]>>, ops |-> batch[s]] \in [by : Session \X Nat, ops : Seq(Op)]
    BY DEF TypeInv
  <1>3. phase' \in [Session -> Phase] /\ batch' \in [Session -> Seq(Op)]
    BY <1>1 DEF TypeInv, Answer
  <1>4. acked' \in SUBSET [by : Session \X Nat, ops : Seq(Op)]
    BY <1>2 DEF TypeInv, Answer
  <1> QED BY <1>3, <1>4

LEMMA QueueType ==
    ASSUME TypeInv, NEW s \in Session
    PROVE  /\ Append(queue, s) \in Seq(Session)
           /\ HasLock(s) => Tail(queue) \in Seq(Session)
  BY AppendProperties, HeadTailProperties DEF TypeInv, HasLock

LEMMA TypeStatement ==
    ASSUME TypeInv, NEW s \in Session, Statement(s), UNCHANGED workload
    PROVE  TypeInv'
  <1>1. CASE Look(s)
    <2>1. [catalog |-> nextCatalog, rows |-> stats.count] \in [catalog : Nat, rows : Nat]
      BY DEF TypeInv
    <2>2. view' \in [Session -> [catalog : Nat, rows : Nat]]
      BY <1>1, <2>1 DEF TypeInv, Look
    <2> QED BY <1>1, <2>2 DEF TypeInv, Look, client, task, store
  <1>2. CASE Begin(s)
    <2>1. NoView \in [catalog : Nat, rows : Nat]
      BY DEF NoView
    <2>2. view' \in [Session -> [catalog : Nat, rows : Nat]]
      BY <1>2, <2>1 DEF TypeInv, Begin
    <2>3. inTransaction' \in [Session -> BOOLEAN] /\ txn' \in [Session -> Nat]
      <3>1. /\ inTransaction \in [Session -> BOOLEAN] /\ txn \in [Session -> Nat]
            /\ inTransaction' = [inTransaction EXCEPT ![s] = TRUE]
            /\ txn' = [txn EXCEPT ![s] = @ + 1]
        BY <1>2 DEF TypeInv, Begin
      <3> QED BY <3>1
    <2>4. UNCHANGED <<pending, bootstrap, phase, batch, acked, queue, latest, nextCatalog,
                      rows, stats, writer>>
      BY <1>2 DEF Begin, task, store
    <2> QED BY <2>2, <2>3, <2>4 DEF TypeInv
  <1>3. CASE Buffer(s)
    <2>1. PICK name \in OpName :
              pending' = [pending EXCEPT ![s] = Append(@, ClientOp(s, name, txn[s]))]
      BY <1>3 DEF Buffer
    <2>2. txn[s] \in Nat
      BY DEF TypeInv
    <2>3. ClientOp(s, name, txn[s]) \in Op
      BY <2>2, ClientOpType
    <2>4. Append(pending[s], ClientOp(s, name, txn[s])) \in Seq(Op)
      BY <2>3, AppendProperties DEF TypeInv
    <2>5. pending' \in [Session -> Seq(Op)]
      BY <2>1, <2>4 DEF TypeInv
    <2> QED BY <1>3, <2>5 DEF TypeInv, Buffer, client, task, store
  <1>4. CASE CopyDone(s)
    <2>1. bootstrap'= [bootstrap EXCEPT ![s] =
              [i \in DOMAIN Attach |-> ClientOp(s, Attach[i], txn[s])]]
      BY <1>4 DEF CopyDone
    <2>2. txn[s] \in Nat
      BY DEF TypeInv
    <2>3. DOMAIN Attach = 1..Len(Attach) /\ Len(Attach) \in Nat
      BY WorkloadType, LenProperties
    <2>4. \A i \in DOMAIN Attach : ClientOp(s, Attach[i], txn[s]) \in Op
      BY <2>2, <2>3, WorkloadType, ElementOfSeq, ClientOpType
    <2>5. [i \in DOMAIN Attach |-> ClientOp(s, Attach[i], txn[s])]
              \in [1..Len(Attach) -> Op]
      BY <2>3, <2>4
    <2>6. [i \in DOMAIN Attach |-> ClientOp(s, Attach[i], txn[s])] \in Seq(Op)
      BY <2>3, <2>5, SeqDef
    <2>7. bootstrap' \in [Session -> Seq(Op)]
      BY <2>1, <2>6 DEF TypeInv
    <2> QED BY <1>4, <2>7 DEF TypeInv, CopyDone, client, task, store
  <1>5. CASE Rollback(s)
    <2>1. pending' \in [Session -> Seq(Op)]
      BY <1>5 DEF TypeInv, Rollback, Dropped
    <2> QED BY <1>5, <2>1 DEF TypeInv, Rollback, client, task, store
  <1>6. CASE Disconnect(s)
    <2>1. pending' \in [Session -> Seq(Op)] /\ bootstrap' \in [Session -> Seq(Op)]
      BY <1>6 DEF TypeInv, Disconnect
    <2> QED BY <1>6, <2>1 DEF TypeInv, Disconnect, client, task, store
  <1>7. CASE Commit(s)
    <2>1. pending' \in [Session -> Seq(Op)] /\ bootstrap' \in [Session -> Seq(Op)]
          /\ inTransaction' \in [Session -> BOOLEAN]
      BY <1>7 DEF TypeInv, Commit
    <2>2. pending[s] \in Seq(Op) /\ bootstrap[s] \o pending[s] \in Seq(Op)
      BY ConcatProperties DEF TypeInv
    <2>3. /\ phase' \in [Session -> Phase] /\ batch' \in [Session -> Seq(Op)]
          /\ acked' \in SUBSET [by : Session \X Nat, ops : Seq(Op)]
          /\ queue' \in Seq(Session)
      <3>1. "check" \in Phase /\ "execute" \in Phase
        BY DEF Phase
      <3>2. Append(queue, s) \in Seq(Session)
        BY QueueType
      <3>3. CASE bootstrap[s] # <<>>
        <4>1. /\ batch' = [batch EXCEPT ![s] = bootstrap[s] \o pending[s]]
              /\ phase' = [phase EXCEPT ![s] = "check"]
              /\ queue' = Append(queue, s) /\ acked' = acked
          BY <1>7, <3>3 DEF Commit, Enqueued
        <4> QED BY <2>2, <3>1, <3>2, <4>1 DEF TypeInv
      <3>4. CASE bootstrap[s] = <<>> /\ pending[s] # <<>>
        <4>1. /\ batch' = [batch EXCEPT ![s] = pending[s]]
              /\ phase' = [phase EXCEPT ![s] = "execute"]
              /\ queue' = Append(queue, s) /\ acked' = acked
          BY <1>7, <3>4 DEF Commit, Enqueued
        <4> QED BY <2>2, <3>1, <3>2, <4>1 DEF TypeInv
      <3>5. CASE bootstrap[s] = <<>> /\ pending[s] = <<>>
        <4>1. Answer(s, "ok") /\ queue' = queue
          BY <1>7, <3>5 DEF Commit
        <4> QED BY <4>1, AnswerType DEF TypeInv
      <3> QED BY <3>3, <3>4, <3>5
    <2> QED BY <1>7, <2>1, <2>3 DEF TypeInv, Commit, store
  <1>8. CASE Autocommit(s)
    <2>1. PICK script \in Scripts :
              /\ Len(script) = 1
              /\ batch' = [batch EXCEPT ![s] = <<ClientOp(s, script[1], txn[s] + 1)>>]
      BY <1>8 DEF Autocommit
    <2>2. script[1] \in OpName
      <3>1. script \in Seq(OpName) /\ 1 \in 1..Len(script)
        BY <2>1, WorkloadType
      <3> QED BY <3>1, ElementOfSeq
    <2>3. ClientOp(s, script[1], txn[s] + 1) \in Op
      <3>1. txn[s] + 1 \in Nat
        BY DEF TypeInv
      <3> QED BY <2>2, <3>1, ClientOpType
    <2>4. batch' \in [Session -> Seq(Op)]
      BY <2>1, <2>3 DEF TypeInv
    <2>5. txn' \in [Session -> Nat]
      BY <1>8 DEF TypeInv, Autocommit
    <2>6. phase' \in [Session -> Phase]
      BY <1>8 DEF TypeInv, Autocommit, Phase
    <2>7. queue' \in Seq(Session)
      BY <1>8, QueueType DEF Autocommit, Enqueued
    <2> QED BY <1>8, <2>4, <2>5, <2>6, <2>7 DEF TypeInv, Autocommit, store
  <1> QED BY <1>1, <1>2, <1>3, <1>4, <1>5, <1>6, <1>7, <1>8 DEF Statement

\* A task that ends its statement and gives up the mutex leaves the types.
LEMMA TypeEnds ==
    ASSUME TypeInv, NEW s \in Session, NEW result, Answer(s, result), HasLock(s),
           queue' = Tail(queue), UNCHANGED <<workload, client>>,
           writer' \in [rows : SUBSET Row, next : Nat, pos : Nat],
           latest' \in Nat, nextCatalog' \in Nat, rows' \in SUBSET Row, UNCHANGED stats
    PROVE  TypeInv'
  <1>1. queue' \in Seq(Session)
    BY QueueType
  <1>2. /\ phase' \in [Session -> Phase] /\ batch' \in [Session -> Seq(Op)]
        /\ acked' \in SUBSET [by : Session \X Nat, ops : Seq(Op)]
    BY AnswerType
  <1> QED BY <1>1, <1>2 DEF TypeInv, client

LEMMA NoWriterType == NoWriter \in [rows : SUBSET Row, next : Nat, pos : Nat]
  BY DEF NoWriter

\* An operation that stages nothing moves the writer to the next one.
LEMMA WriterMoves ==
    ASSUME TypeInv, writer' = [writer EXCEPT !.pos = @ + 1]
    PROVE  /\ writer' \in [rows : SUBSET Row, next : Nat, pos : Nat]
           /\ writer'.rows = writer.rows /\ writer'.pos = writer.pos + 1
  <1>1. /\ writer \in [rows : SUBSET Row, next : Nat, pos : Nat]
        /\ writer.pos + 1 \in Nat
    BY DEF TypeInv
  <1> QED BY <1>1

\* The row StageRow adds.
StagedRow(s) ==
    LET op == Current(s)
        ddl == op.op # "file"
    IN  [op |-> op.op, from |-> op.from, pos |-> writer.pos, tid |-> op.tid,
         id |-> IF ddl THEN writer.next ELSE 0,
         start |-> IF ddl THEN 0 ELSE RowIdStart, snap |-> latest + 1]

LEMMA WorkType ==
    ASSUME TypeInv, NEW s \in Session, HasWork(s)
    PROVE  /\ writer.pos \in 1..Len(batch[s]) /\ Current(s) \in Op
           /\ Current(s) = batch[s][writer.pos] /\ writer.pos > 0
  <1>1. batch[s] \in Seq(Op)
    BY DEF TypeInv
  <1>2. writer.pos \in 1..Len(batch[s])
    BY <1>1, LenProperties DEF HasWork
  <1> QED BY <1>1, <1>2, ElementOfSeq DEF Current

LEMMA StagedRowType ==
    ASSUME TypeInv, NEW s \in Session, StageRow(s)
    PROVE  /\ StagedRow(s) \in Row
           /\ writer'.rows = writer.rows \cup {StagedRow(s)}
           /\ writer'.pos = writer.pos + 1
           /\ writer' \in [rows : SUBSET Row, next : Nat, pos : Nat]
  <1>1. HasWork(s) /\ Current(s).op \in Versioned
    BY DEF StageRow
  <1>2. /\ Current(s) \in Op /\ writer.pos \in Nat
        /\ writer.next \in Nat /\ writer.rows \in SUBSET Row /\ latest + 1 \in Nat
        /\ RowIdStart \in Nat
    <2>1. Current(s) \in Op
      BY <1>1, WorkType
    <2> QED BY <2>1 DEF TypeInv, RowIdStart
  <1>3. /\ (IF Current(s).op # "file" THEN writer.next ELSE 0) \in Nat
        /\ (IF Current(s).op # "file" THEN 0 ELSE RowIdStart) \in Nat
        /\ (IF Current(s).op # "file" THEN writer.next + 1 ELSE writer.next) \in Nat
    BY <1>2
  <1>4. Current(s).from \in Session \X Nat /\ Current(s).tid \in Nat
    BY <1>2 DEF Op
  <1>5. StagedRow(s) \in Row
    BY <1>1, <1>2, <1>3, <1>4 DEF StagedRow, Row
  <1>6. writer' = [rows |-> writer.rows \cup {StagedRow(s)},
                   next |-> IF Current(s).op # "file" THEN writer.next + 1 ELSE writer.next,
                   pos |-> writer.pos + 1]
    BY DEF StageRow, StagedRow
  <1> QED BY <1>2, <1>3, <1>5, <1>6

LEMMA TypeTask ==
    ASSUME TypeInv, NEW s \in Session, TaskStep(s), UNCHANGED workload
    PROVE  TypeInv'
  <1>1. CASE CheckFresh(s)
    <2>1. batch[s] \in Seq(Op) /\ Len(batch[s]) \in Nat /\ Len(Attach) \in Nat
      BY WorkloadType, LenProperties DEF TypeInv
    <2>2. \A i \in Len(Attach) + 1..Len(batch[s]) : batch[s][i] \in Op
      BY <2>1, ElementOfSeq
    <2>3. SubSeq(batch[s], Len(Attach) + 1, Len(batch[s])) \in Seq(Op)
      BY <2>1, <2>2, SubSeqProperties
    <2>4. batch' \in [Session -> Seq(Op)]
      BY <1>1, <2>1, <2>3 DEF TypeInv, CheckFresh
    <2>5. phase' \in [Session -> Phase]
      BY <1>1 DEF TypeInv, CheckFresh, Phase
    <2>6. queue' \in Seq(Session)
      BY <1>1, QueueType DEF CheckFresh
    <2> QED BY <1>1, <2>4, <2>5, <2>6 DEF TypeInv, CheckFresh, client, store
  <1>2. CASE CheckFails(s)
    <2>1. /\ Answer(s, "error") /\ HasLock(s) /\ queue' = Tail(queue)
          /\ UNCHANGED <<client, writer>> /\ UNCHANGED <<latest, nextCatalog, rows, stats>>
      BY <1>2 DEF CheckFails, store
    <2> QED BY <2>1, TypeEnds DEF TypeInv
  <1>3. CASE Execute(s)
    <2>1. CASE batch[s] = <<>>
      <3>1. Answer(s, "ok") /\ queue' = queue
        BY <1>3, <2>1 DEF Execute
      <3>2. /\ phase' \in [Session -> Phase] /\ batch' \in [Session -> Seq(Op)]
            /\ acked' \in SUBSET [by : Session \X Nat, ops : Seq(Op)]
        BY <3>1, AnswerType
      <3> QED BY <1>3, <3>1, <3>2 DEF TypeInv, Execute, client, store
    <2>2. CASE batch[s] # <<>>
      <3>1. phase' \in [Session -> Phase]
        BY <1>3, <2>2 DEF TypeInv, Execute, Phase
      <3>2. queue' \in Seq(Session)
        BY <1>3, <2>2, QueueType DEF Execute, Enqueued
      <3> QED BY <1>3, <2>2, <3>1, <3>2 DEF TypeInv, Execute, client, store
    <2> QED BY <2>1, <2>2
  <1>4. CASE BeginWrite(s)
    <2>1. writer' \in [rows : SUBSET Row, next : Nat, pos : Nat]
      BY <1>4 DEF BeginWrite, TypeInv
    <2> QED BY <1>4, <2>1 DEF TypeInv, BeginWrite, client, task, store
  <1>5. CASE StageRow(s)
    BY <1>5, StagedRowType DEF TypeInv, StageRow, client, task, store
  <1>6. CASE PutStats(s)
    <2>1. HasWork(s)
      BY <1>6 DEF PutStats
    <2>2. Current(s).next \in Nat /\ stats.count \in Nat /\ stats.next \in Nat
      BY <2>1, WorkType DEF TypeInv, Op
    <2>3. LargerOf(stats.next + 1, Current(s).next) \in Nat
      BY <2>2 DEF LargerOf
    <2>4. StatsAfter(Current(s)) \in [count : Nat, next : Nat]
      BY <2>2, <2>3 DEF StatsAfter
    <2>5. writer' \in [rows : SUBSET Row, next : Nat, pos : Nat]
      BY <1>6, WriterMoves DEF PutStats
    <2> QED BY <1>6, <2>4, <2>5 DEF TypeInv, PutStats, client, task
  <1>7. CASE KeepMessage(s)
    <2>1. writer' \in [rows : SUBSET Row, next : Nat, pos : Nat]
      BY <1>7, WriterMoves DEF KeepMessage
    <2> QED BY <1>7, <2>1 DEF TypeInv, KeepMessage, client, task, store
  <1>8. CASE OpFails(s)
    <2>1. /\ Answer(s, "error") /\ HasLock(s) /\ queue' = Tail(queue)
          /\ UNCHANGED client /\ writer' = NoWriter
          /\ UNCHANGED <<latest, nextCatalog, rows, stats>>
      BY <1>8 DEF OpFails, HasWork, Executing, LockReleased, store
    <2> QED BY <2>1, TypeEnds, NoWriterType DEF TypeInv
  <1>9. CASE Snapshot(s)
    <2>1. /\ Answer(s, "ok") /\ HasLock(s) /\ queue' = Tail(queue)
          /\ UNCHANGED client /\ writer' = NoWriter /\ stats' = stats
          /\ latest' = latest + 1 /\ nextCatalog' = writer.next /\ rows' = rows \cup writer.rows
      BY <1>9 DEF Snapshot, AllApplied, Executing, LockReleased
    <2>2. latest' \in Nat /\ nextCatalog' \in Nat /\ rows' \in SUBSET Row
      BY <2>1 DEF TypeInv
    <2> QED BY <2>1, <2>2, TypeEnds, NoWriterType
  <1>10. CASE SnapshotFails(s) \/ NoSnapshot(s)
    <2>1. PICK result \in {"ok", "error"} :
          /\ Answer(s, result) /\ HasLock(s) /\ queue' = Tail(queue)
          /\ UNCHANGED client /\ writer' = NoWriter
          /\ UNCHANGED <<latest, nextCatalog, rows, stats>>
      BY <1>10 DEF SnapshotFails, NoSnapshot, AllApplied, Executing, LockReleased, store
    <2> QED BY <2>1, TypeEnds, NoWriterType DEF TypeInv
  <1> QED
    BY <1>1, <1>2, <1>3, <1>4, <1>5, <1>6, <1>7, <1>8, <1>9, <1>10 DEF TaskStep

-----------------------------------------------------------------------------
\* The operations that are sent.

Sends(w) == Range(w.attach) \cup UNION {Range(script) : script \in w.scripts}

SentOp == {o \in Op : o.op \in Sends(workload)}

AttachOp == {o \in Op : o.op \in Range(workload.attach)}

\* Only what the workload has is buffered, executed or stored.
SentInv ==
    /\ \A s \in Session :
           /\ pending[s] \in Seq(SentOp) /\ batch[s] \in Seq(SentOp)
           /\ bootstrap[s] \in Seq(AttachOp)
    /\ \A r \in rows : r.op \in Sends(workload)

\* The writer is that of the mutex's holder, has the rows of the operations it has
\* applied, and those of no other.
Holding(s) == writer.pos > 0 /\ HasLock(s)

Staged(s) ==
    /\ \A r \in writer.rows :
           /\ r.pos \in 1..writer.pos - 1 /\ r.snap = latest + 1
           /\ batch[s][r.pos].op = r.op /\ batch[s][r.pos].from = r.from
    /\ \A i \in 1..writer.pos - 1 :
           /\ batch[s][i].op # "drop"
           /\ batch[s][i].op \in Versioned => \E r \in writer.rows : r.pos = i

WriterInv ==
    /\ writer.pos = 0 => writer = NoWriter
    /\ writer.pos > 0 => queue # <<>>
    /\ \A s \in Session : Holding(s) =>
           phase[s] = "execute" /\ writer.pos <= Len(batch[s]) + 1 /\ Staged(s)

LEMMA ClientOpSent ==
    ASSUME TypeInv, NEW s \in Session, NEW name \in OpName, NEW t \in Nat
    PROVE  /\ name \in Sends(workload) => ClientOp(s, name, t) \in SentOp
           /\ name \in Range(workload.attach) => ClientOp(s, name, t) \in AttachOp
  <1>1. ClientOp(s, name, t) \in Op
    BY ClientOpType
  <1>2. ClientOp(s, name, t).op = name
    BY DEF ClientOp
  <1> QED BY <1>1, <1>2 DEF SentOp, AttachOp

\* What a client appends is a name of the script it follows.
LEMMA PrefixName ==
    ASSUME NEW ops \in Seq(Op), NEW name \in OpName, NEW script \in Seq(OpName),
           IsPrefix(Append(Names(ops), name), script)
    PROVE  name \in Range(script)
  <1> DEFINE n == Len(ops)
             new == Append(Names(ops), name)
  <1>1. n \in Nat /\ DOMAIN ops = 1..n /\ \A i \in 1..n : ops[i] \in Op
    BY LenProperties, ElementOfSeq
  <1>2. Names(ops) \in [1..n -> OpName]
    BY <1>1 DEF Names, Op
  <1>3. Names(ops) \in Seq(OpName) /\ Len(Names(ops)) = n
    <2>1. Names(ops) \in Seq(OpName)
      BY <1>1, <1>2, SeqDef
    <2> QED BY <1>1, <1>2, <2>1, LenProperties
  <1>4. new \in Seq(OpName) /\ Len(new) = n + 1 /\ new[n + 1] = name
    BY <1>3, AppendProperties
  <1>5. n + 1 <= Len(script) /\ SubSeq(new, 1, n + 1) = SubSeq(script, 1, n + 1)
    BY <1>4 DEF IsPrefix
  <1>6. Len(script) \in Nat /\ DOMAIN script = 1..Len(script)
    BY LenProperties
  <1>7. SubSeq(new, 1, n + 1)[n + 1] = new[n + 1]
    <2> HIDE DEF new
    <2> QED BY <1>4, SubSeqFull
  <1>8. SubSeq(script, 1, n + 1)[n + 1] = script[n + 1]
    <2>1. \A i \in 1..n + 1 : script[i] \in OpName
      BY <1>1, <1>5, <1>6, ElementOfSeq
    <2>2. \A i \in 1..(n + 1) - 1 + 1 : SubSeq(script, 1, n + 1)[i] = script[1 + i - 1]
      BY <1>1, <2>1, SubSeqProperties
    <2> QED BY <1>1, <2>2
  <1>9. script[n + 1] = name /\ n + 1 \in DOMAIN script
    BY <1>1, <1>4, <1>5, <1>6, <1>7, <1>8
  <1> QED BY <1>9 DEF Range

\* What a step does to a session's buffers.
LEMMA BufferStep ==
    ASSUME TypeInv, NEW s \in Session, Statement(s) \/ TaskStep(s), UNCHANGED workload,
           NEW q \in Session
    PROVE  /\ \/ pending'[q] = pending[q] \/ pending'[q] = <<>>
              \/ \E name \in OpName :
                     /\ name \in Sends(workload)
                     /\ pending'[q] = Append(pending[q], ClientOp(q, name, txn[q]))
           /\ \/ bootstrap'[q] = bootstrap[q] \/ bootstrap'[q] = <<>>
              \/ bootstrap'[q] = [i \in DOMAIN Attach |-> ClientOp(q, Attach[i], txn[q])]
           /\ \/ batch'[q] = batch[q] \/ batch'[q] = <<>>
              \/ batch'[q] = bootstrap[q] \o pending[q] \/ batch'[q] = pending[q]
              \/ \E script \in Scripts :
                     Len(script) = 1 /\ batch'[q] = <<ClientOp(q, script[1], txn[q] + 1)>>
              \/ batch'[q] = SubSeq(batch[q], Len(Attach) + 1, Len(batch[q]))
  <1>1. CASE Buffer(s)
    <2>1. PICK script \in Scripts, name \in OpName :
              /\ IsPrefix(Append(Names(pending[s]), name), script)
              /\ pending' = [pending EXCEPT ![s] = Append(@, ClientOp(s, name, txn[s]))]
      BY <1>1 DEF Buffer
    <2>2. pending[s] \in Seq(Op) /\ script \in Seq(OpName)
      BY WorkloadType DEF TypeInv
    <2>3. name \in Sends(workload)
      BY <2>1, <2>2, PrefixName DEF Sends, Scripts
    <2> QED BY <1>1, <2>1, <2>3 DEF TypeInv, Buffer, task
  <1>2. CASE CopyDone(s)
    BY <1>2 DEF TypeInv, CopyDone, task
  <1>3. CASE Commit(s)
    <2>1. /\ pending \in [Session -> Seq(Op)] /\ bootstrap \in [Session -> Seq(Op)]
          /\ batch \in [Session -> Seq(Op)]
      BY DEF TypeInv
    <2>2. /\ pending' = [pending EXCEPT ![s] = <<>>]
          /\ bootstrap' = [bootstrap EXCEPT ![s] = <<>>]
          /\ \/ batch' = [batch EXCEPT ![s] = bootstrap[s] \o pending[s]]
             \/ batch' = [batch EXCEPT ![s] = pending[s]]
             \/ batch' = [batch EXCEPT ![s] = <<>>]
      BY <1>3 DEF Commit, Answer
    <2> QED BY <2>1, <2>2
  <1>4. CASE Autocommit(s)
    BY <1>4 DEF TypeInv, Autocommit
  <1>5. CASE CheckFresh(s)
    BY <1>5 DEF TypeInv, CheckFresh, client
  <1>6. CASE Look(s) \/ Begin(s) \/ Rollback(s) \/ Disconnect(s)
    BY <1>6 DEF TypeInv, Look, Begin, Rollback, Dropped, Disconnect, task
  <1>7. CASE CheckFails(s) \/ Execute(s) \/ OpFails(s) \/ Snapshot(s)
             \/ SnapshotFails(s) \/ NoSnapshot(s)
    BY <1>7 DEF TypeInv, CheckFails, Execute, OpFails, Snapshot, SnapshotFails, NoSnapshot,
                Answer, client
  <1>8. CASE BeginWrite(s) \/ StageRow(s) \/ PutStats(s) \/ KeepMessage(s)
    BY <1>8 DEF BeginWrite, StageRow, PutStats, KeepMessage, client, task
  <1> QED
    BY <1>1, <1>2, <1>3, <1>4, <1>5, <1>6, <1>7, <1>8 DEF Statement, TaskStep

LEMMA SentStep ==
    ASSUME TypeInv, SentInv, WriterInv, NEW s \in Session,
           Statement(s) \/ TaskStep(s), UNCHANGED workload
    PROVE  SentInv'
  <1>1. /\ SentOp' = SentOp /\ AttachOp' = AttachOp /\ Sends(workload)' = Sends(workload)
        /\ AttachOp \subseteq SentOp
    BY DEF SentOp, AttachOp, Sends
  <1>2. ASSUME NEW q \in Session
        PROVE  /\ pending'[q] \in Seq(SentOp) /\ batch'[q] \in Seq(SentOp)
               /\ bootstrap'[q] \in Seq(AttachOp)
    <2>1. /\ pending[q] \in Seq(SentOp) /\ batch[q] \in Seq(SentOp)
          /\ bootstrap[q] \in Seq(AttachOp)
      BY DEF SentInv
    <2>2. txn[q] \in Nat /\ txn[q] + 1 \in Nat
      <3>1. txn \in [Session -> Nat]
        BY DEF TypeInv
      <3> QED BY <3>1
    <2>3. <<>> \in Seq(SentOp) /\ <<>> \in Seq(AttachOp)
      BY EmptySeq
    <2>4. pending'[q] \in Seq(SentOp)
      <3>1. CASE pending'[q] = pending[q] \/ pending'[q] = <<>>
        BY <2>1, <2>3, <3>1
      <3>2. CASE \E name \in OpName :
                     /\ name \in Sends(workload)
                     /\ pending'[q] = Append(pending[q], ClientOp(q, name, txn[q]))
        <4>1. PICK name \in OpName :
                     /\ name \in Sends(workload)
                     /\ pending'[q] = Append(pending[q], ClientOp(q, name, txn[q]))
          BY <3>2
        <4>2. ClientOp(q, name, txn[q]) \in SentOp
          BY <2>2, <4>1, ClientOpSent
        <4> QED BY <2>1, <4>1, <4>2, AppendProperties
      <3> QED BY <3>1, <3>2, BufferStep
    <2>5. bootstrap'[q] \in Seq(AttachOp)
      <3>1. CASE bootstrap'[q] = bootstrap[q] \/ bootstrap'[q] = <<>>
        BY <2>1, <2>3, <3>1
      <3>2. CASE bootstrap'[q] = [i \in DOMAIN Attach |-> ClientOp(q, Attach[i], txn[q])]
        <4>1. DOMAIN Attach = 1..Len(Attach) /\ Len(Attach) \in Nat
          BY WorkloadType, LenProperties
        <4>2. ASSUME NEW i \in 1..Len(Attach)
              PROVE  ClientOp(q, Attach[i], txn[q]) \in AttachOp
          <5>1. Attach[i] \in OpName
            BY WorkloadType, ElementOfSeq
          <5>2. Attach[i] \in Range(workload.attach)
            BY <4>1 DEF Range, Attach
          <5> QED BY <2>2, <5>1, <5>2, ClientOpSent
        <4>3. bootstrap'[q] \in [1..Len(Attach) -> AttachOp]
          BY <3>2, <4>1, <4>2
        <4> QED BY <4>1, <4>3, SeqDef
      <3> QED BY <3>1, <3>2, BufferStep
    <2>6. batch'[q] \in Seq(SentOp)
      <3>1. CASE batch'[q] = batch[q] \/ batch'[q] = <<>> \/ batch'[q] = pending[q]
        BY <2>1, <2>3, <3>1
      <3>2. CASE batch'[q] = bootstrap[q] \o pending[q]
        <4>1. bootstrap[q] \in Seq(SentOp)
          BY <1>1, <2>1, SeqMonotonic
        <4> QED BY <2>1, <3>2, <4>1, ConcatProperties
      <3>3. CASE \E script \in Scripts :
                     Len(script) = 1 /\ batch'[q] = <<ClientOp(q, script[1], txn[q] + 1)>>
        <4>1. PICK script \in Scripts :
                     Len(script) = 1 /\ batch'[q] = <<ClientOp(q, script[1], txn[q] + 1)>>
          BY <3>3
        <4>2. script \in Seq(OpName) /\ 1 \in 1..Len(script)
          BY <4>1, WorkloadType
        <4>3. script[1] \in OpName /\ script[1] \in Range(script)
          BY <4>2, ElementOfSeq, LenProperties DEF Range
        <4>4. script[1] \in Sends(workload)
          BY <4>3 DEF Sends, Scripts
        <4>5. ClientOp(q, script[1], txn[q] + 1) \in SentOp
          BY <2>2, <4>3, <4>4, ClientOpSent
        <4> QED BY <4>1, <4>5
      <3>4. CASE batch'[q] = SubSeq(batch[q], Len(Attach) + 1, Len(batch[q]))
        <4>1. Len(Attach) \in Nat /\ Len(batch[q]) \in Nat
          BY <2>1, WorkloadType, LenProperties
        <4>2. \A i \in Len(Attach) + 1..Len(batch[q]) : batch[q][i] \in SentOp
          BY <2>1, <4>1, ElementOfSeq
        <4> QED BY <3>4, <4>1, <4>2, SubSeqProperties
      <3> QED BY <3>1, <3>2, <3>3, <3>4, BufferStep
    <2> QED BY <2>4, <2>5, <2>6
  <1>3. \A r \in rows' : r.op \in Sends(workload)
    <2>1. CASE Snapshot(s)
      <3>1. rows' = rows \cup writer.rows /\ AllApplied(s)
        BY <2>1 DEF Snapshot
      <3>2. batch[s] \in Seq(Op) /\ Len(batch[s]) \in Nat /\ writer.pos = Len(batch[s]) + 1
        BY <3>1, LenProperties DEF TypeInv, AllApplied
      <3>3. Staged(s)
        BY <3>1, <3>2 DEF WriterInv, Holding, AllApplied, Executing
      <3>4. ASSUME NEW r \in writer.rows
            PROVE  r.op \in Sends(workload)
        <4>1. r.pos \in 1..Len(batch[s]) /\ batch[s][r.pos].op = r.op
          BY <3>2, <3>3 DEF Staged
        <4>2. batch[s][r.pos] \in SentOp
          BY <4>1, ElementOfSeq DEF SentInv
        <4> QED BY <4>1, <4>2 DEF SentOp
      <3> QED BY <3>1, <3>4 DEF SentInv
    <2>2. CASE ~Snapshot(s)
      <3>1. rows' = rows
        BY <2>2 DEF Statement, TaskStep, Look, Begin, Buffer, CopyDone, Rollback, Disconnect,
           Commit, Autocommit, CheckFresh, CheckFails, Execute, BeginWrite, StageRow,
           PutStats, KeepMessage, OpFails, SnapshotFails, NoSnapshot, store
      <3> QED BY <3>1 DEF SentInv
    <2> QED BY <2>1, <2>2
  <1> QED BY <1>1, <1>2, <1>3 DEF SentInv

-----------------------------------------------------------------------------
\* The writer.

\* The head of the queue is the holder.
LEMMA OneHolder ==
    ASSUME NEW s, NEW h, HasLock(s), HasLock(h)
    PROVE  s = h
  BY DEF HasLock

LEMMA AppendKeepsHead ==
    ASSUME NEW s \in Session, queue \in Seq(Session), queue # <<>>
    PROVE  Append(queue, s) # <<>> /\ Head(Append(queue, s)) = Head(queue)
  BY AppendProperties

\* A client's step.
ClientStep(s) ==
    Look(s) \/ Begin(s) \/ Buffer(s) \/ CopyDone(s) \/ Rollback(s) \/ Disconnect(s)

\* The steps of a task that does not hold a writer.
QueueStep(s) ==
    Commit(s) \/ Autocommit(s) \/ CheckFresh(s) \/ CheckFails(s) \/ Execute(s)

\* None of them touches the store, or the writer or the batch of another task.
LEMMA HolderKept ==
    ASSUME TypeInv, WriterInv, NEW s \in Session, ClientStep(s) \/ QueueStep(s)
    PROVE  /\ UNCHANGED <<writer, store>>
           /\ writer.pos > 0 => queue' # <<>>
           /\ \A h \in Session : Holding(h)' =>
                  Holding(h) /\ phase'[h] = phase[h] /\ batch'[h] = batch[h]
  <1>1. CASE ClientStep(s)
    <2>1. UNCHANGED <<writer, store, queue, phase, batch>>
      BY <1>1 DEF ClientStep, Look, Begin, Buffer, CopyDone, Rollback, Disconnect, task
    <2> QED BY <1>1, <2>1 DEF Holding, HasLock, WriterInv
  <1>2. CASE QueueStep(s)
    <2>1. UNCHANGED <<writer, store>>
      BY <1>2 DEF QueueStep, Commit, Autocommit, CheckFresh, CheckFails, Execute
    <2>2. /\ phase[s] # "execute"
          /\ \A h \in Session : h # s => phase'[h] = phase[h] /\ batch'[h] = batch[h]
      BY <1>2 DEF QueueStep, Commit, Autocommit, CheckFresh, CheckFails, Execute, Answer,
         TypeInv
    <2>3. \/ queue' = queue \/ queue' = Append(queue, s)
          \/ HasLock(s) /\ queue' = Tail(queue)
      BY <1>2 DEF QueueStep, Commit, Autocommit, CheckFresh, CheckFails, Execute, Enqueued
    <2>4. CASE writer.pos = 0
      BY <2>1, <2>4 DEF Holding
    <2>5. CASE writer.pos > 0
      <3>1. queue \in Seq(Session) /\ queue # <<>>
        BY <2>5 DEF TypeInv, WriterInv
      <3>2. \A h \in Session : HasLock(h) => phase[h] = "execute"
        BY <2>5 DEF WriterInv, Holding
      <3>3. ~HasLock(s)
        BY <2>2, <3>2
      <3>4. queue' # <<>> /\ Head(queue') = Head(queue)
        BY <2>3, <3>1, <3>3, AppendKeepsHead
      <3>5. \A h \in Session : HasLock(h)' => HasLock(h) /\ h # s
        BY <3>1, <3>3, <3>4 DEF HasLock
      <3> QED BY <2>1, <2>2, <2>5, <3>4, <3>5 DEF Holding
    <2>6. writer.pos \in Nat
      BY DEF TypeInv
    <2> QED BY <2>1, <2>4, <2>5, <2>6
  <1> QED BY <1>1, <1>2

\* A task that ends takes its writer with it.
EndStep(s) == OpFails(s) \/ Snapshot(s) \/ SnapshotFails(s) \/ NoSnapshot(s)

LEMMA WriterStep ==
    ASSUME TypeInv, WriterInv, NEW s \in Session, Statement(s) \/ TaskStep(s)
    PROVE  WriterInv'
  <1>0. /\ writer.pos \in Nat /\ latest \in Nat /\ writer.rows \in SUBSET Row
        /\ batch[s] \in Seq(Op) /\ Len(batch[s]) \in Nat
    BY LenProperties DEF TypeInv
  <1>1. CASE ClientStep(s) \/ QueueStep(s)
    <2>1. writer' = writer /\ latest' = latest
      BY <1>1, HolderKept DEF store
    <2>2. writer.pos > 0 => queue' # <<>>
      BY <1>1, HolderKept
    <2>3. \A h \in Session : Holding(h)' =>
              Holding(h) /\ phase'[h] = phase[h] /\ batch'[h] = batch[h]
      BY <1>1, HolderKept
    <2>4. ASSUME NEW h \in Session, Holding(h)'
          PROVE  (phase[h] = "execute" /\ writer.pos <= Len(batch[h]) + 1 /\ Staged(h))'
      BY <2>1, <2>3, <2>4 DEF WriterInv, Staged
    <2> QED BY <2>1, <2>2, <2>4 DEF WriterInv
  <1>2. CASE EndStep(s)
    <2>1. writer' = NoWriter
      BY <1>2 DEF EndStep, OpFails, Snapshot, SnapshotFails, NoSnapshot
    <2>2. writer'.pos = 0
      BY <2>1 DEF NoWriter
    <2> QED BY <2>1, <2>2 DEF WriterInv, Holding
  <1>3. CASE BeginWrite(s)
    <2>1. /\ UNCHANGED <<queue, phase, batch, latest>> /\ Executing(s)
          /\ writer' = [rows |-> {}, next |-> nextCatalog, pos |-> 1]
      BY <1>3 DEF BeginWrite, task, store
    <2>2. writer'.rows = {} /\ writer'.pos = 1
      BY <2>1
    <2>3. ASSUME NEW h \in Session, Holding(h)'
          PROVE  (phase[h] = "execute" /\ writer.pos <= Len(batch[h]) + 1 /\ Staged(h))'
      <3>1. h = s
        BY <2>1, <2>3, OneHolder DEF Holding, HasLock, Executing
      <3> QED BY <1>0, <2>1, <2>2, <3>1 DEF Staged, Executing
    <2> QED BY <2>1, <2>2, <2>3 DEF WriterInv, Executing, HasLock
  <1>4. CASE StageRow(s) \/ PutStats(s) \/ KeepMessage(s)
    <2>1. HasWork(s) /\ HasLock(s) /\ Executing(s)
      BY <1>4 DEF StageRow, PutStats, KeepMessage, HasWork, Executing
    <2>2. UNCHANGED <<queue, phase, batch, latest>>
      BY <1>4 DEF StageRow, PutStats, KeepMessage, task, store
    <2>3. /\ writer.pos \in 1..Len(batch[s]) /\ writer.pos > 0
          /\ Current(s) = batch[s][writer.pos] /\ Current(s) \in Op
      BY <2>1, WorkType
    <2>4. writer'.pos = writer.pos + 1
      BY <1>4, StagedRowType, WriterMoves DEF PutStats, KeepMessage
    <2>5. Current(s).op # "drop"
      BY <1>4 DEF StageRow, PutStats, KeepMessage, Versioned
    <2>6. Staged(s)
      BY <2>1, <2>3 DEF WriterInv, Holding
    <2>7. Staged(s)'
      <3>1. CASE StageRow(s)
        <4>1. writer'.rows = writer.rows \cup {StagedRow(s)}
          BY <3>1, StagedRowType
        <4>2. /\ StagedRow(s).pos = writer.pos /\ StagedRow(s).snap = latest + 1
              /\ StagedRow(s).op = batch[s][writer.pos].op
              /\ StagedRow(s).from = batch[s][writer.pos].from
          BY <2>3 DEF StagedRow
        <4>3. ASSUME NEW r \in writer'.rows
              PROVE  /\ r.pos \in 1..writer'.pos - 1 /\ r.snap = latest + 1
                     /\ batch[s][r.pos].op = r.op /\ batch[s][r.pos].from = r.from
          BY <1>0, <2>3, <2>4, <2>6, <4>1, <4>2 DEF Staged
        <4>4. ASSUME NEW i \in 1..writer'.pos - 1
              PROVE  /\ batch[s][i].op # "drop"
                     /\ batch[s][i].op \in Versioned => \E r \in writer'.rows : r.pos = i
          <5>1. CASE i = writer.pos
            BY <2>3, <2>5, <4>1, <4>2, <5>1
          <5>2. CASE i # writer.pos
            <6>1. i \in 1..writer.pos - 1
              BY <1>0, <2>4, <5>2
            <6> QED BY <2>6, <4>1, <6>1 DEF Staged
          <5> QED BY <5>1, <5>2
        <4> QED BY <2>2, <4>3, <4>4 DEF Staged
      <3>2. CASE PutStats(s) \/ KeepMessage(s)
        <4>1. writer'.rows = writer.rows
          BY <3>2, WriterMoves DEF PutStats, KeepMessage
        <4>2. Current(s).op \notin Versioned
          BY <3>2 DEF PutStats, KeepMessage, Versioned
        <4>3. ASSUME NEW r \in writer'.rows
              PROVE  /\ r.pos \in 1..writer'.pos - 1 /\ r.snap = latest + 1
                     /\ batch[s][r.pos].op = r.op /\ batch[s][r.pos].from = r.from
          BY <1>0, <2>3, <2>4, <2>6, <4>1 DEF Staged
        <4>4. ASSUME NEW i \in 1..writer'.pos - 1
              PROVE  /\ batch[s][i].op # "drop"
                     /\ batch[s][i].op \in Versioned => \E r \in writer'.rows : r.pos = i
          <5>1. CASE i = writer.pos
            BY <2>3, <2>5, <4>2, <5>1
          <5>2. CASE i # writer.pos
            <6>1. i \in 1..writer.pos - 1
              BY <1>0, <2>4, <5>2
            <6> QED BY <2>6, <4>1, <6>1 DEF Staged
          <5> QED BY <5>1, <5>2
        <4> QED BY <2>2, <4>3, <4>4 DEF Staged
      <3> QED BY <1>4, <3>1, <3>2
    <2>8. ASSUME NEW h \in Session, Holding(h)'
          PROVE  (phase[h] = "execute" /\ writer.pos <= Len(batch[h]) + 1 /\ Staged(h))'
      <3>1. h = s
        BY <2>1, <2>2, <2>8, OneHolder DEF Holding, HasLock
      <3>2. writer.pos + 1 <= Len(batch[s]) + 1
        BY <1>0, <2>3
      <3> QED BY <2>1, <2>2, <2>4, <2>7, <3>1, <3>2 DEF Executing
    <2> QED BY <1>0, <2>1, <2>2, <2>4, <2>8 DEF WriterInv, HasLock
  <1> QED
    BY <1>1, <1>2, <1>3, <1>4 DEF Statement, TaskStep, ClientStep, QueueStep, EndStep

-----------------------------------------------------------------------------
\* Transactions.

\* A client that attaches has one transaction per connection: ROLLBACK keeps the
\* rows that COPY has left in the session.
AttachesOnce(w) == w.attach = <<>> \/ w.txns <= 1

OpsOf(s, t) == {o \in Op : o.from = <<s, t>>}

\* What is in a session's buffers was sent in its current transaction.
Own(s) ==
    /\ pending[s] \in Seq(OpsOf(s, txn[s])) /\ bootstrap[s] \in Seq(OpsOf(s, txn[s]))
    /\ batch[s] \in Seq(OpsOf(s, txn[s]))
    /\ pending[s] # <<>> => inTransaction[s]
    /\ inTransaction[s] => phase[s] = "idle" /\ txn[s] > 0
    /\ phase[s] = "idle" => batch[s] = <<>>
    /\ bootstrap[s] # <<>> => workload.attach # <<>> /\ txn[s] > 0

OwnInv == \A s \in Session : Own(s)

Active(s) == inTransaction[s] \/ phase[s] # "idle"

\* No snapshot is newer than the latest, and a transaction that has committed is
\* not under way.
RowsInv ==
    \A r \in rows :
        /\ r.snap <= latest
        /\ \A s \in Session : r.from[1] = s =>
               r.from[2] <= txn[s] /\ (Active(s) => r.from[2] < txn[s])

AtomInv == AttachesOnce(workload) => OwnInv /\ RowsInv /\ AtomicTransactions

LEMMA ClientOpOwn ==
    ASSUME TypeInv, NEW s \in Session, NEW name \in OpName, NEW t \in Nat
    PROVE  ClientOp(s, name, t) \in OpsOf(s, t)
  <1>1. ClientOp(s, name, t) \in Op
    BY ClientOpType
  <1>2. ClientOp(s, name, t).from = <<s, t>>
    BY DEF ClientOp
  <1> QED BY <1>1, <1>2 DEF OpsOf

\* A step of a session changes no other session.
LEMMA OthersKept ==
    ASSUME TypeInv, NEW s \in Session, Statement(s) \/ TaskStep(s),
           NEW q \in Session, q # s
    PROVE  /\ pending'[q] = pending[q] /\ bootstrap'[q] = bootstrap[q]
           /\ batch'[q] = batch[q] /\ txn'[q] = txn[q] /\ phase'[q] = phase[q]
           /\ inTransaction'[q] = inTransaction[q]
  <1>1. CASE ClientStep(s)
    BY <1>1 DEF ClientStep, Look, Begin, Buffer, CopyDone, Rollback, Dropped, Disconnect,
                task, TypeInv
  <1>2. CASE QueueStep(s)
    BY <1>2 DEF QueueStep, Commit, Autocommit, CheckFresh, CheckFails, Execute, Answer,
                client, TypeInv
  <1>3. CASE EndStep(s)
    BY <1>3 DEF EndStep, OpFails, Snapshot, SnapshotFails, NoSnapshot, Answer, client, TypeInv
  <1>4. CASE BeginWrite(s) \/ StageRow(s) \/ PutStats(s) \/ KeepMessage(s)
    BY <1>4 DEF BeginWrite, StageRow, PutStats, KeepMessage, client, task
  <1> QED
    BY <1>1, <1>2, <1>3, <1>4 DEF Statement, TaskStep, ClientStep, QueueStep, EndStep

\* A session that starts a transaction has nothing left of the one before.
LEMMA NothingLeft ==
    ASSUME TypeInv, AttachesOnce(workload), NEW s \in Session, Own(s),
           phase[s] = "idle", ~inTransaction[s], txn[s] < MaxTxns
    PROVE  pending[s] = <<>> /\ bootstrap[s] = <<>> /\ batch[s] = <<>>
  <1>1. pending[s] = <<>> /\ batch[s] = <<>>
    BY DEF Own
  <1>2. CASE workload.attach = <<>>
    BY <1>1, <1>2 DEF Own
  <1>3. CASE workload.txns <= 1
    <2>1. txn[s] \in Nat /\ MaxTxns \in Nat
      BY WorkloadType DEF TypeInv
    <2>2. txn[s] = 0
      BY <1>3, <2>1 DEF MaxTxns
    <2> QED BY <1>1, <2>2 DEF Own
  <1> QED BY <1>2, <1>3 DEF AttachesOnce

LEMMA OwnStep ==
    ASSUME TypeInv, OwnInv, AttachesOnce(workload), NEW s \in Session,
           Statement(s) \/ TaskStep(s), UNCHANGED workload
    PROVE  OwnInv'
  <1> DEFINE Mine == OpsOf(s, txn[s])
  <1>0. /\ txn[s] \in Nat /\ inTransaction[s] \in BOOLEAN /\ Own(s)
        /\ <<>> \in Seq(Mine) /\ workload.attach = Attach
    BY EmptySeq DEF TypeInv, OwnInv, Attach
  <1>1. ASSUME NEW q \in Session, q # s
        PROVE  Own(q)'
    <2>1. Own(q)
      BY DEF OwnInv
    <2> QED BY <1>1, <2>1, OthersKept DEF Own
  <1>2. Own(s)'
    <2>1. CASE Look(s) \/ BeginWrite(s) \/ StageRow(s) \/ PutStats(s) \/ KeepMessage(s)
      <3>1. UNCHANGED <<inTransaction, pending, bootstrap, txn, phase, batch>>
        BY <2>1 DEF Look, BeginWrite, StageRow, PutStats, KeepMessage, client, task
      <3> QED BY <1>0, <3>1 DEF Own
    <2>2. CASE Begin(s)
      <3>1. pending[s] = <<>> /\ bootstrap[s] = <<>> /\ batch[s] = <<>>
        BY <1>0, <2>2, NothingLeft DEF Begin
      <3>2. <<>> \in Seq(OpsOf(s, txn[s] + 1))
        BY EmptySeq
      <3>3. /\ UNCHANGED <<pending, bootstrap, phase, batch>> /\ phase[s] = "idle"
            /\ txn'[s] = txn[s] + 1 /\ inTransaction'[s] = TRUE
        BY <2>2 DEF Begin, task, TypeInv
      <3>4. txn'[s] > 0 /\ pending'[s] = <<>> /\ bootstrap'[s] = <<>> /\ batch'[s] = <<>>
        BY <1>0, <3>1, <3>3
      <3>5. <<>> \in Seq(OpsOf(s, txn'[s]))
        BY <3>2, <3>3
      <3> QED BY <3>3, <3>4, <3>5 DEF Own
    <2>3. CASE Buffer(s)
      <3>1. PICK name \in OpName : pending'[s] = Append(pending[s], ClientOp(s, name, txn[s]))
        BY <2>3 DEF Buffer, TypeInv
      <3>2. ClientOp(s, name, txn[s]) \in Mine
        BY <1>0, ClientOpOwn
      <3>3. pending[s] \in Seq(Mine)
        BY <1>0 DEF Own
      <3>4. pending'[s] \in Seq(Mine)
        BY <3>1, <3>2, <3>3, AppendProperties
      <3>5. UNCHANGED <<bootstrap, inTransaction, txn, phase, batch>> /\ inTransaction[s]
        BY <2>3 DEF Buffer, task
      <3> QED BY <1>0, <3>4, <3>5 DEF Own
    <2>4. CASE CopyDone(s)
      <3>1. bootstrap'[s] = [i \in DOMAIN Attach |-> ClientOp(s, Attach[i], txn[s])]
        BY <2>4 DEF CopyDone, TypeInv
      <3>2. DOMAIN Attach = 1..Len(Attach) /\ Len(Attach) \in Nat
        BY WorkloadType, LenProperties
      <3>3. \A i \in 1..Len(Attach) : ClientOp(s, Attach[i], txn[s]) \in Mine
        BY <1>0, WorkloadType, ElementOfSeq, ClientOpOwn
      <3>4. bootstrap'[s] \in [1..Len(Attach) -> Mine]
        BY <3>1, <3>2, <3>3
      <3>5. bootstrap'[s] \in Seq(Mine)
        BY <3>2, <3>4, SeqDef
      <3>6. /\ UNCHANGED <<pending, inTransaction, txn, phase, batch>>
            /\ inTransaction[s] /\ Attach # <<>>
        BY <2>4 DEF CopyDone, task
      <3> QED BY <1>0, <3>5, <3>6 DEF Own
    <2>5. CASE Rollback(s) \/ Disconnect(s)
      <3>1. /\ pending'[s] = <<>> /\ bootstrap'[s] \in {bootstrap[s], <<>>}
            /\ inTransaction'[s] = FALSE /\ UNCHANGED <<txn, phase, batch>>
        BY <2>5 DEF Rollback, Dropped, Disconnect, task, TypeInv
      <3> QED BY <1>0, <3>1 DEF Own
    <2>6. CASE Commit(s)
      <3>1. /\ pending'[s] = <<>> /\ bootstrap'[s] = <<>> /\ txn' = txn
            /\ inTransaction'[s] = FALSE
            /\ \/ batch'[s] = bootstrap[s] \o pending[s] /\ phase'[s] = "check"
               \/ batch'[s] = pending[s] /\ phase'[s] = "execute"
               \/ batch'[s] = <<>> /\ phase'[s] = "idle"
        BY <2>6 DEF Commit, Answer, TypeInv
      <3>2. bootstrap[s] \o pending[s] \in Seq(Mine) /\ pending[s] \in Seq(Mine)
        BY <1>0, ConcatProperties DEF Own
      <3> QED BY <1>0, <3>1, <3>2 DEF Own
    <2>7. CASE Autocommit(s)
      <3>1. pending[s] = <<>> /\ bootstrap[s] = <<>> /\ inTransaction[s] = FALSE
        BY <1>0, <2>7, NothingLeft DEF Autocommit
      <3>2. PICK script \in Scripts :
                Len(script) = 1 /\ batch'[s] = <<ClientOp(s, script[1], txn[s] + 1)>>
        BY <2>7 DEF Autocommit, TypeInv
      <3>3. script \in Seq(OpName) /\ 1 \in 1..Len(script)
        BY <3>2, WorkloadType
      <3>4. script[1] \in OpName /\ txn[s] + 1 \in Nat
        BY <1>0, <3>3, ElementOfSeq
      <3>5. ClientOp(s, script[1], txn[s] + 1) \in OpsOf(s, txn[s] + 1)
        BY <3>4, ClientOpOwn
      <3>6. batch'[s] \in Seq(OpsOf(s, txn[s] + 1)) /\ <<>> \in Seq(OpsOf(s, txn[s] + 1))
        BY <3>2, <3>5, EmptySeq
      <3>7. /\ UNCHANGED <<pending, bootstrap, inTransaction>>
            /\ txn'[s] = txn[s] + 1 /\ phase'[s] = "execute"
        BY <2>7 DEF Autocommit, TypeInv
      <3> QED BY <3>1, <3>6, <3>7 DEF Own
    <2>8. CASE CheckFresh(s)
      <3>1. /\ UNCHANGED <<inTransaction, pending, bootstrap, txn>>
            /\ phase[s] = "check" /\ phase'[s] = "checked"
            /\ \/ batch'[s] = batch[s]
               \/ batch'[s] = SubSeq(batch[s], Len(Attach) + 1, Len(batch[s]))
        BY <2>8 DEF CheckFresh, client, TypeInv
      <3>2. batch[s] \in Seq(Mine)
        BY <1>0 DEF Own
      <3>3. Len(Attach) \in Nat /\ Len(batch[s]) \in Nat
        BY <3>2, WorkloadType, LenProperties
      <3>4. \A i \in Len(Attach) + 1..Len(batch[s]) : batch[s][i] \in Mine
        BY <3>2, <3>3, ElementOfSeq
      <3>5. SubSeq(batch[s], Len(Attach) + 1, Len(batch[s])) \in Seq(Mine)
        BY <3>3, <3>4, SubSeqProperties
      <3> QED BY <1>0, <3>1, <3>2, <3>5 DEF Own
    <2>9. CASE CheckFails(s) \/ Execute(s) \/ EndStep(s)
      <3>1. /\ UNCHANGED <<inTransaction, pending, bootstrap, txn>> /\ phase[s] # "idle"
            /\ \/ batch'[s] = <<>> /\ phase'[s] = "idle"
               \/ batch'[s] = batch[s] /\ phase'[s] = "execute"
        BY <2>9 DEF CheckFails, Execute, EndStep, OpFails, Snapshot, SnapshotFails,
           NoSnapshot, HasWork, AllApplied, Executing, Answer, client, TypeInv
      <3> QED BY <1>0, <3>1 DEF Own
    <2> QED
      BY <2>1, <2>2, <2>3, <2>4, <2>5, <2>6, <2>7, <2>8, <2>9
         DEF Statement, TaskStep, EndStep
  <1> QED BY <1>1, <1>2 DEF OwnInv

\* What the holder of the mutex has staged belongs to its transaction.
LEMMA StagedIsOwn ==
    ASSUME TypeInv, WriterInv, OwnInv, NEW s \in Session, AllApplied(s)
    PROVE  /\ writer.pos = Len(batch[s]) + 1 /\ Len(batch[s]) \in Nat
           /\ DOMAIN batch[s] = 1..Len(batch[s]) /\ Staged(s)
           /\ phase[s] = "execute" /\ inTransaction[s] = FALSE
           /\ \A i \in 1..Len(batch[s]) : batch[s][i].from = <<s, txn[s]>>
           /\ \A r \in writer.rows : r.from = <<s, txn[s]>> /\ r.snap = latest + 1
  <1>1. /\ writer.pos = Len(batch[s]) + 1 /\ Len(batch[s]) \in Nat
        /\ DOMAIN batch[s] = 1..Len(batch[s]) /\ phase[s] = "execute" /\ HasLock(s)
    BY LenProperties DEF AllApplied, Executing, TypeInv
  <1>2. Staged(s)
    BY <1>1 DEF WriterInv, Holding
  <1>3. Own(s) /\ inTransaction[s] = FALSE
    BY <1>1 DEF OwnInv, Own, TypeInv
  <1>4. \A i \in 1..Len(batch[s]) : batch[s][i] \in OpsOf(s, txn[s])
    BY <1>3, ElementOfSeq DEF Own
  <1>5. \A i \in 1..Len(batch[s]) : batch[s][i].from = <<s, txn[s]>>
    BY <1>4 DEF OpsOf
  <1>6. \A r \in writer.rows : r.from = <<s, txn[s]>> /\ r.snap = latest + 1
    BY <1>1, <1>2, <1>5 DEF Staged
  <1> QED BY <1>1, <1>2, <1>3, <1>5, <1>6

\* A transaction is new, or the one that was under way.
LEMMA ActiveStep ==
    ASSUME TypeInv, OwnInv, NEW s \in Session, Statement(s) \/ TaskStep(s),
           NEW q \in Session
    PROVE  \/ txn'[q] = txn[q] + 1
           \/ txn'[q] = txn[q] /\ (Active(q)' => Active(q))
  <1>1. CASE q # s
    BY <1>1, OthersKept DEF Active
  <1>2. CASE q = s
    <2>1. CASE Begin(s) \/ Autocommit(s)
      BY <1>2, <2>1 DEF Begin, Autocommit, TypeInv
    <2>2. CASE Look(s) \/ Buffer(s) \/ CopyDone(s) \/ Rollback(s) \/ Disconnect(s)
               \/ Commit(s)
      <3>1. txn' = txn
        BY <2>2 DEF Look, Buffer, CopyDone, Rollback, Disconnect, Commit
      <3>2. \/ Active(s)
            \/ phase' = phase /\ inTransaction'[s] = FALSE /\ phase[s] = "idle"
        BY <2>2 DEF Look, Buffer, CopyDone, Rollback, Disconnect, Commit, Active, task, TypeInv
      <3> QED BY <1>2, <3>1, <3>2 DEF Active
    <2>3. CASE TaskStep(s)
      <3>1. txn' = txn /\ phase[s] # "idle"
        BY <2>3 DEF TaskStep, CheckFresh, CheckFails, Execute, BeginWrite, StageRow, PutStats,
           KeepMessage, OpFails, Snapshot, SnapshotFails, NoSnapshot, HasWork, AllApplied,
           Executing, client
      <3> QED BY <1>2, <3>1 DEF Active
    <2> QED BY <2>1, <2>2, <2>3 DEF Statement
  <1> QED BY <1>1, <1>2

LEMMA RowsStep ==
    ASSUME TypeInv, WriterInv, OwnInv, RowsInv, NEW s \in Session,
           Statement(s) \/ TaskStep(s)
    PROVE  RowsInv'
  <1>1. txn \in [Session -> Nat] /\ latest \in Nat /\ rows \in SUBSET Row
    BY DEF TypeInv
  <1>2. ASSUME NEW r \in rows, NEW q \in Session, r.from[1] = q
        PROVE  r.from[2] <= txn'[q] /\ (Active(q)' => r.from[2] < txn'[q])
    <2>1. r.from[2] <= txn[q] /\ (Active(q) => r.from[2] < txn[q])
      BY <1>2 DEF RowsInv
    <2>2. r.from[2] \in Nat /\ txn[q] \in Nat
      BY <1>1 DEF Row
    <2> QED BY <2>1, <2>2, ActiveStep
  <1>3. CASE Snapshot(s)
    <2>1. /\ rows' = rows \cup writer.rows /\ latest' = latest + 1 /\ AllApplied(s)
          /\ UNCHANGED <<txn, inTransaction>> /\ phase'[s] = "idle"
      BY <1>3 DEF Snapshot, Answer, client, TypeInv
    <2>2. ASSUME NEW r \in writer.rows
          PROVE  /\ r.snap <= latest'
                 /\ \A q \in Session : r.from[1] = q =>
                        r.from[2] <= txn'[q] /\ (Active(q)' => r.from[2] < txn'[q])
      <3>1. r.from = <<s, txn[s]>> /\ r.snap = latest + 1 /\ inTransaction[s] = FALSE
        BY <2>1, StagedIsOwn
      <3>2. r.from[1] = s /\ r.from[2] = txn[s] /\ ~Active(s)'
        BY <2>1, <3>1 DEF Active
      <3> QED BY <1>1, <2>1, <3>1, <3>2
    <2>3. ASSUME NEW r \in rows
          PROVE  r.snap <= latest'
      <3>1. r.snap \in Nat /\ r.snap <= latest
        BY <1>1 DEF RowsInv, Row
      <3> QED BY <1>1, <2>1, <3>1
    <2> QED BY <1>2, <2>1, <2>2, <2>3 DEF RowsInv
  <1>4. CASE ~Snapshot(s)
    <2>1. rows' = rows /\ latest' = latest
      BY <1>4 DEF Statement, TaskStep, Look, Begin, Buffer, CopyDone, Rollback, Disconnect,
         Commit, Autocommit, CheckFresh, CheckFails, Execute, BeginWrite, StageRow,
         PutStats, KeepMessage, OpFails, SnapshotFails, NoSnapshot, store
    <2> QED BY <1>2, <2>1 DEF RowsInv
  <1> QED BY <1>3, <1>4

\* Where the rows of a batch are.
Places(ops) == {<<ops[i].from, i>> : i \in {j \in DOMAIN ops : ops[j].op \in Versioned}}

LEMMA AtomicStep ==
    ASSUME TypeInv, WriterInv, OwnInv, RowsInv, AtomicTransactions, NEW s \in Session,
           Statement(s) \/ TaskStep(s)
    PROVE  AtomicTransactions'
  <1> DEFINE RowPlaces(set) == {<<r.from, r.pos>> : r \in set}
             AckedPlaces(set) == UNION {Places(b.ops) : b \in set}
             mine == [by |-> <<s, txn[s]>>, ops |-> batch[s]]
  <1>0. /\ RowPlaces(rows) = AckedPlaces(acked)
        /\ \A r, q \in rows : r.snap = q.snap <=> r.from = q.from
        /\ \A b \in acked : \A i \in DOMAIN b.ops : b.ops[i].from = b.by
    BY DEF AtomicTransactions, Places
  <1>1. SUFFICES /\ RowPlaces(rows') = AckedPlaces(acked')
                 /\ \A r, q \in rows' : r.snap = q.snap <=> r.from = q.from
                 /\ \A b \in acked' : \A i \in DOMAIN b.ops : b.ops[i].from = b.by
    BY DEF AtomicTransactions, Places
  <1>2. batch[s] \in Seq(Op) /\ Len(batch[s]) \in Nat /\ DOMAIN batch[s] = 1..Len(batch[s])
    BY LenProperties DEF TypeInv
  <1>3. \A i \in DOMAIN batch[s] : batch[s][i].from = <<s, txn[s]>>
    <2>1. \A i \in 1..Len(batch[s]) : batch[s][i] \in OpsOf(s, txn[s])
      BY ElementOfSeq DEF OwnInv, Own
    <2> QED BY <1>2, <2>1 DEF OpsOf
  <1>4. \A b \in acked \cup {mine} : \A i \in DOMAIN b.ops : b.ops[i].from = b.by
    BY <1>0, <1>3
  <1>5. AckedPlaces(acked \cup {mine}) = AckedPlaces(acked) \cup Places(batch[s])
    <2>1. mine.ops = batch[s]
      OBVIOUS
    <2> HIDE DEF mine
    <2> QED BY <2>1
  <1>6. CASE Snapshot(s)
    <2>1. AllApplied(s) /\ rows' = rows \cup writer.rows /\ acked' = acked \cup {mine}
      BY <1>6 DEF Snapshot, Answer
    <2>2. /\ Staged(s) /\ writer.pos = Len(batch[s]) + 1
          /\ \A r \in writer.rows : r.from = <<s, txn[s]>> /\ r.snap = latest + 1
      BY <2>1, StagedIsOwn
    <2>3. RowPlaces(writer.rows) = Places(batch[s])
      <3>1. ASSUME NEW r \in writer.rows
            PROVE  <<r.from, r.pos>> \in Places(batch[s])
        <4>1. /\ r.pos \in 1..Len(batch[s]) /\ batch[s][r.pos].op = r.op
              /\ batch[s][r.pos].from = r.from
          BY <1>2, <2>2 DEF Staged
        <4>2. r.op \in Versioned
          BY DEF TypeInv, Row
        <4> QED BY <1>2, <4>1, <4>2 DEF Places
      <3>2. ASSUME NEW i \in DOMAIN batch[s], batch[s][i].op \in Versioned
            PROVE  <<batch[s][i].from, i>> \in RowPlaces(writer.rows)
        <4>1. i \in 1..writer.pos - 1
          BY <1>2, <2>2
        <4>2. PICK r \in writer.rows : r.pos = i
          BY <2>2, <3>2, <4>1 DEF Staged
        <4>3. r.from = batch[s][i].from
          BY <2>2, <4>2 DEF Staged
        <4> QED BY <4>2, <4>3
      <3> QED BY <3>1, <3>2 DEF Places
    <2>4. RowPlaces(rows') = RowPlaces(rows) \cup RowPlaces(writer.rows)
      BY <2>1
    <2>5. ASSUME NEW r \in rows, NEW q \in writer.rows
          PROVE  r.snap # q.snap /\ r.from # q.from
      <3>1. r.snap \in Nat /\ latest \in Nat /\ r.snap <= latest /\ q.snap = latest + 1
        BY <2>2 DEF TypeInv, Row, RowsInv
      <3>2. Active(s)
        BY <2>1 DEF Active, AllApplied, Executing
      <3>3. r.from[1] = s => r.from[2] < txn[s]
        BY <3>2 DEF RowsInv
      <3>4. txn[s] \in Nat /\ q.from[1] = s /\ q.from[2] = txn[s]
        BY <2>2 DEF TypeInv
      <3> QED BY <3>1, <3>3, <3>4
    <2>6. \A r, q \in rows' : r.snap = q.snap <=> r.from = q.from
      BY <1>0, <2>1, <2>2, <2>5
    <2> QED BY <1>0, <1>4, <1>5, <2>1, <2>3, <2>4, <2>6
  <1>7. CASE ~Snapshot(s)
    <2>1. rows' = rows
      BY <1>7 DEF Statement, TaskStep, Look, Begin, Buffer, CopyDone, Rollback, Disconnect,
         Commit, Autocommit, CheckFresh, CheckFails, Execute, BeginWrite, StageRow,
         PutStats, KeepMessage, OpFails, SnapshotFails, NoSnapshot, store
    <2>2. \/ acked' = acked
          \/ /\ acked' = acked \cup {mine}
             /\ \/ phase[s] = "idle" \/ batch[s] = <<>>
                \/ ~NeedsSnapshot(s)
      BY <1>7 DEF Statement, TaskStep, Look, Begin, Buffer, CopyDone, Rollback, Disconnect,
         Commit, Autocommit, CheckFresh, CheckFails, Execute, BeginWrite, StageRow,
         PutStats, KeepMessage, OpFails, SnapshotFails, NoSnapshot, Answer, task
    <2>3. CASE acked' = acked
      BY <1>0, <2>1, <2>3
    <2>4. CASE /\ acked' = acked \cup {mine}
               /\ phase[s] = "idle" \/ batch[s] = <<>> \/ ~NeedsSnapshot(s)
      <3>1. phase[s] = "idle" => batch[s] = <<>>
        BY DEF OwnInv, Own
      <3>2. Places(batch[s]) = {}
        BY <2>4, <3>1 DEF Places, NeedsSnapshot, Unversioned, Versioned
      <3> QED BY <1>0, <1>4, <1>5, <2>1, <2>4, <3>2
    <2> QED BY <2>2, <2>3, <2>4
  <1> QED BY <1>6, <1>7

-----------------------------------------------------------------------------
\* Row ids.

\* Every file is followed by the statistics that count its row, before the next
\* file, or by an operation that fails.
Counted(names) ==
    \A i \in DOMAIN names : names[i] = "file" =>
        \E j \in DOMAIN names :
            /\ i < j /\ names[j] \in {"insertStats", "drop"}
            /\ \A k \in DOMAIN names : i < k /\ k < j => names[k] # "file"

\* Clients count the files they register, and leave next_row_id to the server.
CountsFiles(w) ==
    /\ "setStats" \notin Sends(w)
    /\ "file" \notin Range(w.attach)
    /\ \A script \in w.scripts : Counted(script)

\* Clients that do, and clients that register no file.
NumbersFiles(w) == "file" \notin Sends(w) \/ CountsFiles(w)

\* Counted, of the operations of a batch.
CountedOps(ops) ==
    \A i \in 1..Len(ops) : ops[i].op = "file" =>
        \E j \in 1..Len(ops) :
            /\ i < j /\ ops[j].op \in {"insertStats", "drop"}
            /\ \A k \in 1..Len(ops) : i < k /\ k < j => ops[k].op # "file"

Files(set) == {r \in set : r.op = "file"}

\* The files of the snapshots are numbered below next_row_id, those of the writer
\* up to it, and below it once they are counted.
NumberInv ==
    /\ \A r \in Files(rows) : r.start < stats.next
    /\ \A r \in Files(rows), q \in Files(writer.rows) : r.start # q.start
    /\ \A r, q \in Files(writer.rows) : r.start = q.start => r = q
    /\ \A r \in Files(writer.rows) : r.start <= stats.next
    /\ \A s \in Session : Holding(s) =>
           \A r \in Files(writer.rows) : r.start = stats.next =>
               \A i \in r.pos + 1..writer.pos - 1 : batch[s][i].op # "insertStats"

CountInv ==
    CountsFiles(workload) =>
        /\ \A s \in Session : CountedOps(batch[s])
        /\ NumberInv /\ RowIdsDisjoint

LEMMA CountedNames ==
    ASSUME NEW ops \in Seq(Op), Counted(Names(ops))
    PROVE  CountedOps(ops)
  <1>1. Len(ops) \in Nat /\ DOMAIN ops = 1..Len(ops)
    BY LenProperties
  <1>2. DOMAIN Names(ops) = 1..Len(ops) /\ \A i \in 1..Len(ops) : Names(ops)[i] = ops[i].op
    BY <1>1 DEF Names
  <1> QED BY <1>2 DEF Counted, CountedOps

LEMMA CountedConcat ==
    ASSUME NEW a \in Seq(Op), NEW b \in Seq(Op), CountedOps(b),
           \A i \in 1..Len(a) : a[i].op # "file"
    PROVE  CountedOps(a \o b)
  <1> DEFINE m == Len(a)
             n == Len(b)
             ops == a \o b
  <1>1. m \in Nat /\ n \in Nat
    BY LenProperties
  <1>2. /\ Len(ops) = m + n
        /\ \A i \in 1..m + n : ops[i] = IF i <= m THEN a[i] ELSE b[i - m]
    BY ConcatProperties
  <1> SUFFICES CountedOps(ops)
    OBVIOUS
  <1> HIDE DEF ops, m, n
  <1>3. ASSUME NEW i \in 1..m + n, ops[i].op = "file"
        PROVE  \E j \in 1..m + n :
                   /\ i < j /\ ops[j].op \in {"insertStats", "drop"}
                   /\ \A k \in 1..m + n : i < k /\ k < j => ops[k].op # "file"
    <2>1. i > m /\ i - m \in 1..n /\ b[i - m].op = "file"
      <3>1. i > m
        BY <1>1, <1>2, <1>3 DEF m
      <3> QED BY <1>1, <1>2, <1>3, <3>1
    <2>2. PICK j \in 1..n :
              /\ i - m < j /\ b[j].op \in {"insertStats", "drop"}
              /\ \A k \in 1..n : i - m < k /\ k < j => b[k].op # "file"
      BY <2>1 DEF CountedOps, n
    <2>3. m + j \in 1..m + n /\ i < m + j /\ ops[m + j] = b[j]
      <3>1. m + j \in 1..m + n /\ i < m + j /\ ~(m + j <= m) /\ (m + j) - m = j
        BY <1>1, <2>1, <2>2
      <3> QED BY <1>2, <3>1
    <2>4. ASSUME NEW k \in 1..m + n, i < k, k < m + j
          PROVE  ops[k].op # "file"
      <3>1. ~(k <= m) /\ k - m \in 1..n /\ i - m < k - m /\ k - m < j
        BY <1>1, <2>1, <2>2, <2>4
      <3>2. ops[k] = b[k - m]
        BY <1>2, <3>1
      <3> QED BY <2>2, <3>1, <3>2
    <2> QED BY <2>2, <2>3, <2>4
  <1> QED BY <1>2, <1>3 DEF CountedOps

LEMMA CountedSuffix ==
    ASSUME NEW ops \in Seq(Op), CountedOps(ops), NEW m \in Nat
    PROVE  CountedOps(SubSeq(ops, m + 1, Len(ops)))
  <1> DEFINE n == Len(ops)
             sub == SubSeq(ops, m + 1, n)
  <1>1. n \in Nat
    BY LenProperties
  <1>2. \A i \in m + 1..n : ops[i] \in Op
    BY <1>1, ElementOfSeq
  <1>3. /\ Len(sub) = IF m + 1 <= n THEN n - (m + 1) + 1 ELSE 0
        /\ \A i \in 1..n - (m + 1) + 1 : sub[i] = ops[m + 1 + i - 1]
    BY <1>1, <1>2, SubSeqProperties
  <1> SUFFICES CountedOps(sub)
    OBVIOUS
  <1> HIDE DEF sub, n
  <1>4. CASE n <= m
    <2>1. Len(sub) = 0
      BY <1>1, <1>3, <1>4
    <2> QED BY <2>1 DEF CountedOps
  <1>5. CASE n > m
    <2>1. Len(sub) = n - m /\ n - m \in Nat
      BY <1>1, <1>3, <1>5
    <2>2. ASSUME NEW i \in 1..n - m
          PROVE  sub[i] = ops[m + i] /\ m + i \in 1..n
      <3>1. i \in 1..n - (m + 1) + 1 /\ m + 1 + i - 1 = m + i /\ m + i \in 1..n
        BY <1>1, <1>5
      <3> QED BY <1>3, <3>1
    <2>3. ASSUME NEW i \in 1..n - m, sub[i].op = "file"
          PROVE  \E j \in 1..n - m :
                     /\ i < j /\ sub[j].op \in {"insertStats", "drop"}
                     /\ \A k \in 1..n - m : i < k /\ k < j => sub[k].op # "file"
      <3>1. PICK j \in 1..n :
                /\ m + i < j /\ ops[j].op \in {"insertStats", "drop"}
                /\ \A k \in 1..n : m + i < k /\ k < j => ops[k].op # "file"
        BY <2>2, <2>3 DEF CountedOps, n
      <3>2. j - m \in 1..n - m /\ i < j - m /\ m + (j - m) = j
        BY <1>1, <1>5, <3>1
      <3>3. sub[j - m] = ops[j]
        BY <2>2, <3>2
      <3>4. ASSUME NEW k \in 1..n - m, i < k, k < j - m
            PROVE  sub[k].op # "file"
        <4>1. m + k \in 1..n /\ m + i < m + k /\ m + k < j
          BY <1>1, <1>5, <3>1, <3>4
        <4> QED BY <2>2, <3>1, <4>1
      <3> QED BY <3>1, <3>2, <3>3, <3>4
    <2> QED BY <2>1, <2>3 DEF CountedOps
  <1> QED BY <1>1, <1>4, <1>5

\* A batch that has a file counts it.
LEMMA CountedStep ==
    ASSUME TypeInv, SentInv, CountsFiles(workload), \A q \in Session : CountedOps(batch[q]),
           NEW s \in Session, Statement(s) \/ TaskStep(s), UNCHANGED workload,
           NEW q \in Session
    PROVE  CountedOps(batch'[q])
  <1>1. pending[s] \in Seq(Op) /\ bootstrap[s] \in Seq(Op) /\ batch[s] \in Seq(Op)
    BY DEF TypeInv
  <1>2. CASE q # s
    BY <1>2, OthersKept
  <1>3. CASE q = s
    <2>1. CASE batch'[s] = batch[s]
      BY <1>3, <2>1
    <2>2. CASE batch'[s] = <<>>
      BY <1>3, <2>2 DEF CountedOps
    <2>3. CASE Commit(s) /\ batch'[s] # <<>>
      <3>1. Names(pending[s]) \in Scripts \cup {<<>>}
        BY <2>3 DEF Commit
      <3>2. CountedOps(pending[s])
        <4>1. Counted(Names(pending[s]))
          BY <3>1 DEF CountsFiles, Scripts, Counted
        <4> QED BY <1>1, <4>1, CountedNames
      <3>3. \A i \in 1..Len(bootstrap[s]) : bootstrap[s][i].op # "file"
        <4>1. \A i \in 1..Len(bootstrap[s]) : bootstrap[s][i] \in AttachOp
          BY ElementOfSeq DEF SentInv
        <4> QED BY <4>1 DEF AttachOp, CountsFiles
      <3>4. batch'[s] = bootstrap[s] \o pending[s] \/ batch'[s] = pending[s]
        BY <2>3 DEF Commit, Answer, TypeInv
      <3> QED BY <1>1, <1>3, <3>2, <3>3, <3>4, CountedConcat
    <2>4. CASE Autocommit(s)
      <3>1. PICK script \in Scripts :
                Len(script) = 1 /\ batch'[s] = <<ClientOp(s, script[1], txn[s] + 1)>>
        BY <2>4 DEF Autocommit, TypeInv
      <3>2. script \in Seq(OpName) /\ DOMAIN script = 1..1
        BY <3>1, WorkloadType, LenProperties
      <3>3. script[1] # "file"
        BY <3>2 DEF CountsFiles, Scripts, Counted
      <3>4. Len(batch'[s]) = 1 /\ batch'[s][1].op # "file"
        BY <3>1, <3>3 DEF ClientOp
      <3> QED BY <1>3, <3>4 DEF CountedOps
    <2>5. CASE batch'[s] = SubSeq(batch[s], Len(Attach) + 1, Len(batch[s]))
      <3>1. Len(Attach) \in Nat
        BY WorkloadType, LenProperties
      <3> QED BY <1>1, <1>3, <2>5, <3>1, CountedSuffix
    <2>6. \/ batch'[s] = batch[s] \/ batch'[s] = <<>> \/ Commit(s) \/ Autocommit(s)
          \/ batch'[s] = SubSeq(batch[s], Len(Attach) + 1, Len(batch[s]))
      BY DEF Statement, TaskStep, Look, Begin, Buffer, CopyDone, Rollback, Disconnect,
         CheckFresh, CheckFails, Execute, BeginWrite, StageRow,
         PutStats, KeepMessage, OpFails, Snapshot, SnapshotFails, NoSnapshot, Answer, task,
         TypeInv
    <2> QED BY <2>1, <2>2, <2>3, <2>4, <2>5, <2>6
  <1> QED BY <1>2, <1>3

\* A file that has another file after it, or whose batch is applied, is counted.
LEMMA FileIsCounted ==
    ASSUME TypeInv, WriterInv, NumberInv, NEW s \in Session, Holding(s),
           CountedOps(batch[s]), NEW r \in Files(writer.rows),
           \/ writer.pos = Len(batch[s]) + 1
           \/ writer.pos \in 1..Len(batch[s]) /\ batch[s][writer.pos].op = "file"
    PROVE  r.start < stats.next
  <1>1. /\ writer.pos \in Nat /\ Len(batch[s]) \in Nat /\ stats.next \in Nat
        /\ r.start \in Nat /\ r.pos \in Nat
    <2>1. batch[s] \in Seq(Op) /\ r \in Row
      BY DEF TypeInv, Files
    <2> QED BY <2>1, LenProperties DEF TypeInv, Row
  <1>2. Staged(s) /\ r \in writer.rows /\ r.op = "file"
    BY DEF WriterInv, Files
  <1>3. r.pos \in 1..writer.pos - 1 /\ batch[s][r.pos].op = "file"
    BY <1>2 DEF Staged
  <1>4. r.pos \in 1..Len(batch[s])
    BY <1>1, <1>3
  <1>5. PICK j \in 1..Len(batch[s]) :
            /\ r.pos < j /\ batch[s][j].op \in {"insertStats", "drop"}
            /\ \A k \in 1..Len(batch[s]) : r.pos < k /\ k < j => batch[s][k].op # "file"
    BY <1>3, <1>4 DEF CountedOps
  <1>6. j \in 1..writer.pos - 1
    <2>1. j \in Nat /\ j >= 1 /\ j <= Len(batch[s]) /\ r.pos < writer.pos
      BY <1>1, <1>3, <1>5
    <2>2. CASE writer.pos = Len(batch[s]) + 1
      BY <1>1, <2>1, <2>2
    <2>3. CASE writer.pos \in 1..Len(batch[s]) /\ batch[s][writer.pos].op = "file"
      <3>1. writer.pos # j /\ ~(writer.pos < j)
        BY <1>5, <2>1, <2>3
      <3> QED BY <1>1, <2>1, <3>1
    <2> QED BY <2>2, <2>3
  <1>7. batch[s][j].op = "insertStats"
    BY <1>2, <1>5, <1>6 DEF Staged
  <1>8. r.start <= stats.next /\ r.start # stats.next
    <2>1. j \in r.pos + 1..writer.pos - 1
      BY <1>1, <1>5, <1>6
    <2> QED BY <1>7, <2>1 DEF NumberInv
  <1> QED BY <1>1, <1>8

LEMMA NumberStep ==
    ASSUME TypeInv, SentInv, WriterInv, CountsFiles(workload),
           \A q \in Session : CountedOps(batch[q]), NumberInv, RowIdsDisjoint,
           NEW s \in Session, Statement(s) \/ TaskStep(s)
    PROVE  NumberInv' /\ RowIdsDisjoint'
  <1>0. /\ writer.pos \in Nat /\ stats.next \in Nat /\ latest \in Nat
        /\ writer.rows \in SUBSET Row /\ rows \in SUBSET Row
        /\ \A r \in Row : r.start \in Nat /\ r.pos \in Nat
    BY DEF TypeInv, Row
  <1>1. CASE ClientStep(s) \/ QueueStep(s)
    <2>1. UNCHANGED <<writer, rows, stats>>
      BY <1>1, HolderKept DEF store
    <2>2. \A h \in Session : Holding(h)' => Holding(h) /\ batch'[h] = batch[h]
      BY <1>1, HolderKept
    <2> QED BY <2>1, <2>2 DEF NumberInv, RowIdsDisjoint, Files
  <1>2. CASE EndStep(s) /\ ~Snapshot(s)
    <2>1. UNCHANGED <<rows, stats>> /\ writer' = NoWriter
      BY <1>2 DEF EndStep, OpFails, SnapshotFails, NoSnapshot, store
    <2>2. Files(writer'.rows) = {}
      BY <2>1 DEF NoWriter, Files
    <2> QED BY <2>1, <2>2 DEF NumberInv, RowIdsDisjoint, Files
  <1>3. CASE Snapshot(s)
    <2>1. /\ rows' = rows \cup writer.rows /\ stats' = stats /\ writer' = NoWriter
          /\ AllApplied(s)
      BY <1>3 DEF Snapshot
    <2>2. Files(writer'.rows) = {}
      BY <2>1 DEF NoWriter, Files
    <2>3. Holding(s) /\ writer.pos = Len(batch[s]) + 1
      <3>1. Len(batch[s]) \in Nat
        BY LenProperties DEF TypeInv
      <3> QED BY <2>1, <3>1 DEF AllApplied, Executing, Holding
    <2>4. \A r \in Files(writer.rows) : r.start < stats.next
      BY <2>3, FileIsCounted
    <2>5. Files(rows') = Files(rows) \cup Files(writer.rows)
      BY <2>1 DEF Files
    <2>6. \A r \in Files(rows') : r.start < stats.next
      BY <2>4, <2>5 DEF NumberInv
    <2>7. \A r, q \in Files(rows) : r.start = q.start => r = q
      BY DEF RowIdsDisjoint, Files
    <2>8. \A r, q \in Files(rows') : r.start = q.start => r = q
      BY <2>5, <2>7 DEF NumberInv
    <2>9. NumberInv'
      BY <2>1, <2>2, <2>6 DEF NumberInv
    <2>10. RowIdsDisjoint'
      BY <2>8 DEF RowIdsDisjoint, Files
    <2> QED BY <2>9, <2>10
  <1>4. CASE BeginWrite(s)
    <2>1. UNCHANGED <<rows, stats>> /\ writer'.rows = {}
      BY <1>4 DEF BeginWrite, store
    <2>2. Files(writer'.rows) = {}
      BY <2>1 DEF Files
    <2> QED BY <2>1, <2>2 DEF NumberInv, RowIdsDisjoint, Files
  <1>5. CASE StageRow(s) \/ PutStats(s) \/ KeepMessage(s)
    <2>1. HasWork(s) /\ HasLock(s) /\ UNCHANGED <<queue, batch, rows>>
      BY <1>5 DEF StageRow, PutStats, KeepMessage, HasWork, Executing, task, store
    <2>2. /\ writer.pos \in 1..Len(batch[s]) /\ Current(s) = batch[s][writer.pos]
          /\ writer.pos > 0 /\ Holding(s)
      BY <2>1, WorkType DEF Holding
    <2>3. writer'.pos = writer.pos + 1
      BY <1>5, StagedRowType, WriterMoves DEF PutStats, KeepMessage
    <2>4. \A h \in Session : Holding(h)' => h = s
      BY <2>1, OneHolder DEF Holding, HasLock
    <2>5. \A r \in writer.rows : r.pos <= writer.pos - 1
      BY <1>0, <2>2 DEF WriterInv, Staged
    <2>6. RowIdsDisjoint'
      BY <2>1 DEF RowIdsDisjoint
    <2>7. CASE Files(writer'.rows) = Files(writer.rows) /\ stats' = stats
               /\ Current(s).op # "insertStats"
      <3>1. ASSUME NEW r \in Files(writer.rows), r.start = stats.next,
                   NEW i \in r.pos + 1..writer.pos
            PROVE  batch[s][i].op # "insertStats"
        <4>1. CASE i = writer.pos
          BY <2>2, <2>7, <4>1
        <4>2. CASE i # writer.pos
          <5>1. r.pos \in Nat
            BY <1>0 DEF Files
          <5>2. i \in r.pos + 1..writer.pos - 1
            BY <1>0, <4>2, <5>1
          <5> QED BY <2>2, <3>1, <5>2 DEF NumberInv
        <4> QED BY <4>1, <4>2
      <3>2. writer'.pos - 1 = writer.pos
        BY <1>0, <2>3
      <3>3. ASSUME NEW h \in Session, Holding(h)', NEW r \in Files(writer'.rows),
                   r.start = stats'.next, NEW i \in r.pos + 1..writer'.pos - 1
            PROVE  batch'[h][i].op # "insertStats"
        BY <2>1, <2>4, <2>7, <3>1, <3>2, <3>3
      <3>4. /\ \A r \in Files(rows') : r.start < stats'.next
            /\ \A r \in Files(rows'), q \in Files(writer'.rows) : r.start # q.start
            /\ \A r, q \in Files(writer'.rows) : r.start = q.start => r = q
            /\ \A r \in Files(writer'.rows) : r.start <= stats'.next
        BY <2>1, <2>7 DEF NumberInv
      <3>5. NumberInv'
        BY <3>3, <3>4 DEF NumberInv
      <3> QED BY <2>6, <3>5
    <2>8. CASE KeepMessage(s)
      <3>1. writer'.rows = writer.rows /\ stats' = stats /\ Current(s).op # "insertStats"
        BY <2>8, WriterMoves DEF KeepMessage, store
      <3> QED BY <2>7, <3>1
    <2>9. CASE PutStats(s)
      <3>1. writer'.rows = writer.rows /\ stats' = StatsAfter(Current(s))
        BY <2>9, WriterMoves DEF PutStats
      <3>2. Current(s) \in SentOp
        BY <2>2, ElementOfSeq DEF SentInv
      <3>3. Current(s).op = "insertStats" /\ Current(s).next \in Nat
        BY <2>9, <3>2 DEF PutStats, SentOp, CountsFiles, Op
      <3>4. stats'.next = LargerOf(stats.next + 1, Current(s).next)
        BY <3>1, <3>3 DEF StatsAfter
      <3>5. stats'.next > stats.next /\ stats'.next \in Nat
        BY <1>0, <3>3, <3>4 DEF LargerOf
      <3>6. \A r \in Files(writer.rows) : r.start \in Nat /\ r.start < stats'.next
        <4>1. \A r \in Files(writer.rows) : r.start \in Nat /\ r.start <= stats.next
          BY <1>0 DEF NumberInv, Files
        <4> QED BY <1>0, <3>5, <4>1
      <3>7. \A r \in Files(rows) : r.start < stats'.next
        <4>1. \A r \in Files(rows) : r.start \in Nat /\ r.start < stats.next
          BY <1>0 DEF NumberInv, Files
        <4> QED BY <1>0, <3>5, <4>1
      <3>8. NumberInv'
        BY <2>1, <3>1, <3>5, <3>6, <3>7 DEF NumberInv
      <3> QED BY <2>6, <3>8
    <2>10. CASE StageRow(s)
      <3>1. /\ writer'.rows = writer.rows \cup {StagedRow(s)} /\ stats' = stats
            /\ Current(s).op \in Versioned
        BY <2>10, StagedRowType DEF StageRow, store
      <3>2. StagedRow(s).op = Current(s).op /\ StagedRow(s).pos = writer.pos
        BY DEF StagedRow
      <3>3. CASE Current(s).op # "file"
        <4>1. Files(writer'.rows) = Files(writer.rows)
          BY <3>1, <3>2, <3>3 DEF Files
        <4> QED BY <2>7, <3>1, <4>1 DEF Versioned
      <3>4. CASE Current(s).op = "file"
        <4> DEFINE new == StagedRow(s)
        <4>1. new.start = stats.next
          BY <3>4 DEF StagedRow, RowIdStart
        <4>2. Files(writer'.rows) = Files(writer.rows) \cup {new}
          BY <3>1, <3>2, <3>4 DEF Files
        <4> HIDE DEF new
        <4>3. \A r \in Files(writer.rows) : r.start \in Nat /\ r.start < stats.next
          <5>1. \A r \in Files(writer.rows) : r.start < stats.next
            BY <2>2, <3>4, FileIsCounted
          <5> QED BY <1>0, <5>1 DEF Files
        <4>4. \A r \in Files(rows) : r.start \in Nat /\ r.start < stats.next
          BY <1>0 DEF NumberInv, Files
        <4>5. new.pos = writer.pos
          BY <3>2 DEF new
        <4>6. \A r \in Files(writer'.rows) : r.start <= stats.next
          BY <1>0, <4>1, <4>2, <4>3
        <4>7. \A r \in Files(rows), q \in Files(writer'.rows) : r.start # q.start
          BY <1>0, <4>1, <4>2, <4>4 DEF NumberInv
        <4>8. \A r, q \in Files(writer'.rows) : r.start = q.start => r = q
          BY <1>0, <4>1, <4>2, <4>3 DEF NumberInv
        <4>9. ASSUME NEW r \in Files(writer'.rows), r.start = stats.next,
                     NEW i \in r.pos + 1..writer'.pos - 1
              PROVE  FALSE
          <5>1. r = new
            BY <1>0, <4>2, <4>3, <4>9
          <5> QED BY <1>0, <2>3, <4>5, <4>9, <5>1
        <4>10. NumberInv'
          BY <2>1, <3>1, <4>4, <4>6, <4>7, <4>8, <4>9 DEF NumberInv
        <4> QED BY <2>6, <4>10
      <3> QED BY <3>3, <3>4
    <2> QED BY <1>5, <2>8, <2>9, <2>10
  <1> QED
    BY <1>1, <1>2, <1>3, <1>4, <1>5 DEF Statement, TaskStep, ClientStep, QueueStep, EndStep

-----------------------------------------------------------------------------
IInv == TypeInv /\ SentInv /\ WriterInv /\ AtomInv /\ CountInv

LEMMA InitInv == Init => IInv
  <1> SUFFICES ASSUME Init PROVE IInv
    OBVIOUS
  <1>1. TypeInv
    BY InitType
  <1>2. SentInv
    <2>1. <<>> \in Seq(SentOp) /\ <<>> \in Seq(AttachOp)
      BY EmptySeq
    <2> QED BY <2>1 DEF Init, SentInv
  <1>3. WriterInv
    BY DEF Init, WriterInv, Holding, NoWriter
  <1>4. AtomInv
    <2>1. \A s \in Session : <<>> \in Seq(OpsOf(s, txn[s]))
      BY EmptySeq
    <2>2. OwnInv
      BY <2>1 DEF Init, OwnInv, Own
    <2> QED BY <2>2 DEF Init, AtomInv, RowsInv, AtomicTransactions
  <1>5. CountInv
    <2>1. \A s \in Session : CountedOps(batch[s])
      BY DEF Init, CountedOps
    <2>2. writer.rows = {} /\ rows = {}
      BY DEF Init, NoWriter
    <2> QED BY <2>1, <2>2 DEF CountInv, NumberInv, RowIdsDisjoint, Files
  <1> QED BY <1>1, <1>2, <1>3, <1>4, <1>5 DEF IInv

LEMMA StepInv == IInv /\ [Next]_vars => IInv'
  <1> SUFFICES ASSUME IInv, [Next]_vars PROVE IInv'
    OBVIOUS
  <1>1. TypeInv /\ SentInv /\ WriterInv /\ AtomInv /\ CountInv
    BY DEF IInv
  <1>2. ASSUME NEW s \in Session, Statement(s) \/ TaskStep(s), UNCHANGED workload
        PROVE  IInv'
    <2>1. TypeInv'
      BY <1>1, <1>2, TypeStatement, TypeTask
    <2>2. SentInv'
      BY <1>1, <1>2, SentStep
    <2>3. WriterInv'
      BY <1>1, <1>2, WriterStep
    <2>4. AtomInv'
      <3>1. SUFFICES ASSUME AttachesOnce(workload) PROVE OwnInv' /\ RowsInv' /\ AtomicTransactions'
        BY <1>2 DEF AtomInv
      <3>2. OwnInv /\ RowsInv /\ AtomicTransactions
        BY <1>1, <3>1 DEF AtomInv
      <3> QED BY <1>1, <1>2, <3>1, <3>2, OwnStep, RowsStep, AtomicStep
    <2>5. CountInv'
      <3>1. SUFFICES ASSUME CountsFiles(workload)
                     PROVE  /\ \A q \in Session : CountedOps(batch'[q])
                            /\ NumberInv' /\ RowIdsDisjoint'
        BY <1>2 DEF CountInv
      <3>2. (\A q \in Session : CountedOps(batch[q])) /\ NumberInv /\ RowIdsDisjoint
        BY <1>1, <3>1 DEF CountInv
      <3>3. \A q \in Session : CountedOps(batch'[q])
        BY <1>1, <1>2, <3>1, <3>2, CountedStep
      <3>4. NumberInv' /\ RowIdsDisjoint'
        BY <1>1, <1>2, <3>1, <3>2, NumberStep
      <3> QED BY <3>3, <3>4
    <2> QED BY <2>1, <2>2, <2>3, <2>4, <2>5 DEF IInv
  <1>3. CASE UNCHANGED vars
    <2>1. /\ UNCHANGED <<workload, inTransaction, pending, bootstrap, txn, view>>
          /\ UNCHANGED <<phase, batch, acked, queue>>
          /\ UNCHANGED <<latest, nextCatalog, rows, stats, writer>>
      BY <1>3 DEF vars, client, task, store
    <2>2. TypeInv'
      BY <1>1, <2>1 DEF TypeInv
    <2>3. SentInv'
      <3>1. SentOp' = SentOp /\ AttachOp' = AttachOp
        BY <2>1 DEF SentOp, AttachOp
      <3> QED BY <1>1, <2>1, <3>1 DEF SentInv
    <2>4. WriterInv'
      BY <1>1, <2>1 DEF WriterInv, Holding, HasLock, Staged
    <2>5. AtomInv'
      <3>1. OwnInv => OwnInv'
        BY <2>1 DEF OwnInv, Own
      <3>2. RowsInv => RowsInv'
        BY <2>1 DEF RowsInv, Active
      <3>3. AtomicTransactions => AtomicTransactions'
        BY <2>1 DEF AtomicTransactions
      <3> QED BY <1>1, <2>1, <3>1, <3>2, <3>3 DEF AtomInv
    <2>6. CountInv'
      <3>1. NumberInv => NumberInv'
        BY <2>1 DEF NumberInv, Holding, HasLock
      <3>2. RowIdsDisjoint => RowIdsDisjoint'
        BY <2>1 DEF RowIdsDisjoint
      <3> QED BY <1>1, <2>1, <3>1, <3>2 DEF CountInv
    <2> QED BY <2>2, <2>3, <2>4, <2>5, <2>6 DEF IInv
  <1> QED BY <1>2, <1>3 DEF Next

\* The inductive invariant holds for every set of sessions and every workload.
THEOREM Invariance == Spec => []IInv
  <1> QED BY InitInv, StepInv, PTL DEF Spec

\* COMMIT is all or nothing: whatever the sessions do between the freshness check
\* and the execution, and whichever operation or snapshot fails, the committed rows
\* are those of the acknowledged batches, one transaction to a snapshot.
THEOREM TransactionsAreAtomic ==
    Spec => [](AttachesOnce(workload) => AtomicTransactions)
  <1>1. IInv => (AttachesOnce(workload) => AtomicTransactions)
    BY DEF IInv, AtomInv
  <1> QED BY <1>1, Invariance, PTL

\* Files get disjoint row ids, although register_data_file reads next_row_id from
\* statistics that are put outside the transaction and survive its failure, if the
\* clients count each file before the next and do not set the statistics.
THEOREM RowIdsAreDisjoint ==
    Spec => [](NumbersFiles(workload) => RowIdsDisjoint)
  <1>1. IInv => (NumbersFiles(workload) => RowIdsDisjoint)
    <2> SUFFICES ASSUME IInv, NumbersFiles(workload) PROVE RowIdsDisjoint
      OBVIOUS
    <2>1. CASE "file" \notin Sends(workload)
      BY <2>1 DEF IInv, SentInv, RowIdsDisjoint
    <2>2. CASE CountsFiles(workload)
      BY <2>2 DEF IInv, CountInv
    <2> QED BY <2>1, <2>2 DEF NumbersFiles
  <1> QED BY <1>1, Invariance, PTL
=============================================================================
