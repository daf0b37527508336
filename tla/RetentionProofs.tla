--------------------------- MODULE RetentionProofs ---------------------------
(***************************************************************************)
(* Proofs about Retention, for any number of concurrent gc_apply calls,    *)
(* lease holders, pins, snapshots and rows.                                *)
(*                                                                         *)
(* HoldsHonoured says nothing about calls between their scan and their     *)
(* commit.  The strengthening does: what a call has read justifies its     *)
(* target (ScanInv), for as long as it may commit, because leases only run *)
(* out and a serializable commit needs that what was read still stands;    *)
(* and an excision under way stays below the floor (ExciseInv).            *)
(***************************************************************************)
EXTENDS Retention, TLAPS

Pin == [snap : Nat, kept : BOOLEAN]

Lease == [by : Consumer, min : Nat, expires : Nat, kept : BOOLEAN]

\* The floor, the pins and the leases of some moment.
Read == Nat \X (SUBSET Pin) \X (SUBSET Lease)

\* The states of gc_apply and excise_apply.
GcType ==
    /\ gc \in [Gc -> [at : {"idle", "commit"}, target : Nat, read : Read \cup {<<>>}]]
    /\ excise \in [at : {"idle", "rows", "markers", "snapshots"}, before : Nat]

\* The target of a call was above the floor it read, below the pins it read, and
\* not above the leases it read that are still active.
ScanInv ==
    \A g \in Gc : gc[g].at = "commit" =>
        /\ gc[g].target \in 1..head
        /\ gc[g].read \in Read
        /\ gc[g].read[1] < gc[g].target
        /\ \A p \in gc[g].read[2] : gc[g].target < p.snap
        /\ \A l \in gc[g].read[3] : Active(l, now) => gc[g].target <= l.min

\* An excision deletes below a point that the floor has passed.
ExciseInv == excise.at # "idle" => excise.before <= retainFrom

IInv ==
    /\ TypeOK
    /\ GcType
    /\ ScanInv
    /\ ExciseInv
    /\ HoldsHonoured
    /\ RetainedSnapshotsKept

-----------------------------------------------------------------------------
\* The keys a transaction reads have their type.
LEMMA ReadSetType ==
    ASSUME TypeOK
    PROVE  ReadSet \in Read
<1>1. retainFrom \in Nat
  BY DEF TypeOK
<1>2. pins \in SUBSET Pin
  BY DEF TypeOK, Pin
<1>3. leases \in SUBSET Lease
  BY DEF TypeOK, Lease
<1> QED BY <1>1, <1>2, <1>3, Zenon DEF ReadSet, Read

\* A scan that ends with a put pending has found the target free.
LEMMA ScanFree ==
    ASSUME TypeOK, NEW t \in 1..head, retainFrom < t, ~PinBlocks(t), ~LeaseBlocks(t)
    PROVE  /\ ReadSet[1] < t
           /\ \A p \in ReadSet[2] : t < p.snap
           /\ \A l \in ReadSet[3] : Active(l, now) => t <= l.min
<1>1. \A p \in pins : p.snap \in Nat
  BY DEF TypeOK
<1>2. \A l \in leases : l.min \in Nat
  BY DEF TypeOK
<1> QED BY <1>1, <1>2 DEF ReadSet, PinBlocks, LeaseBlocks

\* A commit changes the catalog at its new snapshot and nothing else.
LEMMA CommitStep ==
    ASSUME IInv, Commit
    PROVE  IInv'
<1> USE RetentionAssumption
<1>1. head \in Nat /\ head' = head + 1 /\ head' \in 1..MaxSnapshots
  BY DEF IInv, TypeOK, Commit
<1>2. rows' \in SUBSET [id : Nat, begin : Nat, end : Nat]
  BY <1>1 DEF IInv, TypeOK, Commit, NoEnd
<1>3. markers' \in SUBSET [id : Nat, begin : Nat]
  BY <1>1 DEF IInv, TypeOK, Commit
<1>4. TypeOK'
  BY <1>1, <1>2, <1>3 DEF IInv, TypeOK, Commit, holds
<1>5. GcType' /\ ExciseInv' /\ HoldsHonoured'
  BY DEF IInv, GcType, ExciseInv, HoldsHonoured, Active, Commit, holds
<1>6. ScanInv'
  BY <1>1 DEF IInv, ScanInv, Active, Commit
<1>7. RetainedSnapshotsKept'
  BY <1>1 DEF IInv, TypeOK, RetainedSnapshotsKept, Commit
<1> QED BY <1>4, <1>5, <1>6, <1>7 DEF IInv

\* Time passes: leases run out.
LEMMA TickStep ==
    ASSUME IInv, Tick
    PROVE  IInv'
<1> USE RetentionAssumption
<1>1. now \in Nat /\ now' = now + 1 /\ now' \in 0..MaxTime
  BY DEF IInv, TypeOK, Tick
<1>2. TypeOK'
  BY <1>1 DEF IInv, TypeOK, Tick, data, holds
<1>3. GcType' /\ ExciseInv' /\ RetainedSnapshotsKept'
  BY DEF IInv, GcType, ExciseInv, RetainedSnapshotsKept, Tick, data
<1>4. \A l : l.expires \in Nat /\ Active(l, now)' => Active(l, now)
  BY <1>1 DEF Active
<1>5. HoldsHonoured'
  <2>1. \A l \in leases : l.expires \in Nat
    BY DEF IInv, TypeOK
  <2> QED BY <1>4, <2>1 DEF IInv, HoldsHonoured, Tick, holds
<1>6. ScanInv'
  <2>1. \A g \in Gc : gc[g].at = "commit" => \A l \in gc[g].read[3] : l.expires \in Nat
    <3> SUFFICES ASSUME NEW g \in Gc, gc[g].at = "commit", NEW l \in gc[g].read[3]
                 PROVE  l.expires \in Nat
      OBVIOUS
    <3>1. gc[g].read \in Read
      BY DEF IInv, ScanInv
    <3> QED BY <3>1 DEF Read, Lease
  <2> QED BY <1>4, <2>1 DEF IInv, ScanInv, Tick, data
<1> QED BY <1>2, <1>3, <1>5, <1>6 DEF IInv

\* Leases and pins come and go; a new one remembers whether it came in time.
LEMMA HoldStep ==
    ASSUME IInv, Hold
    PROVE  IInv'
<1> USE RetentionAssumption
<1>1. UNCHANGED <<data, retainFrom, now, gc, excise>>
  BY DEF Hold, HoldSnapshot, ReleaseSnapshot, PinSnapshot, UnpinSnapshot
<1>2. GcType' /\ ScanInv' /\ ExciseInv' /\ RetainedSnapshotsKept'
  BY <1>1 DEF IInv, GcType, ScanInv, ExciseInv, RetainedSnapshotsKept, Active, data
<1>3. ASSUME NEW c \in Consumer, NEW s \in 1..head, HoldSnapshot(c, s)
      PROVE  TypeOK' /\ HoldsHonoured'
  <2> DEFINE new == [by |-> c, min |-> s, expires |-> now + TTL, kept |-> retainFrom <= s]
  <2>1. new \in [by : Consumer, min : 1..head, expires : Nat, kept : BOOLEAN]
    BY DEF IInv, TypeOK
  <2>2. leases' \in SUBSET [by : Consumer, min : 1..head, expires : Nat, kept : BOOLEAN]
    BY <1>3, <2>1 DEF IInv, TypeOK, HoldSnapshot
  <2>3. TypeOK'
    BY <1>1, <1>3, <2>2 DEF IInv, TypeOK, HoldSnapshot, data
  <2>4. new.kept => retainFrom <= new.min
    OBVIOUS
  <2>5. HoldsHonoured'
    BY <1>1, <1>3, <2>4 DEF IInv, HoldsHonoured, HoldSnapshot, Active
  <2> QED BY <2>3, <2>5
<1>4. ASSUME NEW c \in Consumer, ReleaseSnapshot(c) PROVE TypeOK' /\ HoldsHonoured'
  BY <1>1, <1>4 DEF IInv, TypeOK, HoldsHonoured, ReleaseSnapshot, Active, data
<1>5. ASSUME NEW s \in 1..head, PinSnapshot(s) PROVE TypeOK' /\ HoldsHonoured'
  <2> DEFINE new == [snap |-> s, kept |-> retainFrom < s]
  <2>1. new \in [snap : 1..head, kept : BOOLEAN]
    BY DEF IInv, TypeOK
  <2>2. pins' \in SUBSET [snap : 1..head, kept : BOOLEAN]
    BY <1>5, <2>1 DEF IInv, TypeOK, PinSnapshot
  <2>3. TypeOK'
    BY <1>1, <1>5, <2>2 DEF IInv, TypeOK, PinSnapshot, data
  <2>4. new.kept => retainFrom < new.snap
    OBVIOUS
  <2>5. HoldsHonoured'
    BY <1>1, <1>5, <2>4 DEF IInv, HoldsHonoured, PinSnapshot, Active
  <2> QED BY <2>3, <2>5
<1>6. ASSUME NEW s \in 1..head, UnpinSnapshot(s) PROVE TypeOK' /\ HoldsHonoured'
  BY <1>1, <1>6 DEF IInv, TypeOK, HoldsHonoured, UnpinSnapshot, Active, data
<1> QED BY <1>2, <1>3, <1>4, <1>5, <1>6 DEF IInv, Hold

\* What a commit of gc_apply finds: all that its call has read still stands.
LEMMA GcCommitSafe ==
    ASSUME IInv, NEW g \in Gc, GcCommit(g)
    PROVE  /\ retainFrom' \in 1..head
           /\ retainFrom < retainFrom'
           /\ \A p \in pins : retainFrom' < p.snap
           /\ \A l \in leases : Active(l, now) => retainFrom' <= l.min
<1>1. retainFrom' = gc[g].target /\ gc[g].at = "commit"
  BY DEF GcCommit, NewFloor
<1>2. /\ gc[g].read[1] = retainFrom
      /\ gc[g].read[2] = pins
      /\ gc[g].read[3] = leases
  BY DEF GcCommit, Serializable, ReadSet
<1> QED BY <1>1, <1>2 DEF IInv, ScanInv

\* A new floor respects the holds that are there when it is committed.
LEMMA CollectStep ==
    ASSUME IInv, Collect
    PROVE  IInv'
<1> USE RetentionAssumption
<1>1. UNCHANGED <<data, holds, now, excise>>
  BY DEF Collect, GcCommit, GcRetry, GcScan
<1>2. ReadSet \in Read
  BY ReadSetType DEF IInv
<1>3. ASSUME NEW g \in Gc, GcCommit(g) PROVE IInv'
  <2>1. /\ retainFrom' \in 1..head /\ retainFrom < retainFrom'
        /\ \A p \in pins : retainFrom' < p.snap
        /\ \A l \in leases : Active(l, now) => retainFrom' <= l.min
    BY <1>3, GcCommitSafe
  <2>2. /\ Idle \in [at : {"idle", "commit"}, target : Nat, read : Read \cup {<<>>}]
        /\ Idle.at = "idle" /\ Idle.target = 0
    BY Zenon DEF Idle
  <2>3. GcType' /\ ScanInv'
    BY <1>1, <1>3, <2>2 DEF IInv, GcType, ScanInv, GcCommit, Active, data
  <2>4. TypeOK'
    BY <1>1, <1>3, <2>1, <2>2 DEF IInv, TypeOK, GcType, GcCommit, data, holds
  <2>5. HoldsHonoured'
    BY <1>1, <2>1 DEF HoldsHonoured, Active, holds
  <2>6. ExciseInv' /\ RetainedSnapshotsKept'
    BY <1>1, <2>1 DEF IInv, TypeOK, GcType, ExciseInv, RetainedSnapshotsKept, data
  <2> QED BY <2>3, <2>4, <2>5, <2>6 DEF IInv
<1>4. ASSUME NEW g \in Gc, UNCHANGED retainFrom,
             gc' = [gc EXCEPT ![g] = gc'[g]],
             gc'[g] \in [at : {"idle", "commit"}, target : Nat, read : Read \cup {<<>>}],
             gc'[g].target \in 0..head,
             gc'[g].at = "commit" =>
                 /\ gc'[g].target \in 1..head
                 /\ gc'[g].read \in Read
                 /\ gc'[g].read[1] < gc'[g].target
                 /\ \A p \in gc'[g].read[2] : gc'[g].target < p.snap
                 /\ \A l \in gc'[g].read[3] : Active(l, now) => gc'[g].target <= l.min
      PROVE  IInv'
  <2>1. GcType' /\ ExciseInv' /\ HoldsHonoured' /\ RetainedSnapshotsKept'
    BY <1>1, <1>4 DEF IInv, GcType, ExciseInv, HoldsHonoured, RetainedSnapshotsKept, Active,
                      data, holds
  <2>2. ScanInv'
    BY <1>1, <1>4 DEF IInv, GcType, ScanInv, Active, data
  <2>3. TypeOK'
    BY <1>1, <1>4 DEF IInv, TypeOK, GcType, data, holds
  <2> QED BY <2>1, <2>2, <2>3 DEF IInv
<1>5. ASSUME NEW g \in Gc, NEW t \in 1..head, GcScan(g, t) PROVE IInv'
  <2>1. /\ ReadSet[1] < t
        /\ \A p \in ReadSet[2] : t < p.snap
        /\ \A l \in ReadSet[3] : Active(l, now) => t <= l.min
    BY <1>5, ScanFree DEF IInv, GcScan
  <2>2. gc'[g] = [at |-> "commit", target |-> t, read |-> ReadSet]
    BY <1>5 DEF IInv, GcType, GcScan
  <2>3. gc' = [gc EXCEPT ![g] = gc'[g]] /\ UNCHANGED retainFrom
    BY <1>5, <2>2 DEF GcScan
  <2>4. t \in Nat /\ t \in 0..head
    BY DEF IInv, TypeOK
  <2> QED BY <1>2, <1>4, <2>1, <2>2, <2>3, <2>4
<1>6. ASSUME NEW g \in Gc, GcRetry(g) PROVE IInv'
  <2> DEFINE t == gc[g].target
  <2>1. gc' = [gc EXCEPT ![g] = gc'[g]] /\ UNCHANGED retainFrom
    BY <1>6 DEF IInv, GcType, GcRetry
  <2>2. CASE retainFrom < t /\ ~PinBlocks(t) /\ ~LeaseBlocks(t)
    <3>1. t \in 1..head /\ t \in Nat /\ t \in 0..head
      BY <1>6 DEF IInv, TypeOK, ScanInv, GcRetry
    <3>2. /\ ReadSet[1] < t
          /\ \A p \in ReadSet[2] : t < p.snap
          /\ \A l \in ReadSet[3] : Active(l, now) => t <= l.min
      BY <2>2, <3>1, ScanFree DEF IInv
    <3>3. gc'[g] = [gc[g] EXCEPT !.read = ReadSet]
      BY <1>6, <2>2 DEF IInv, GcType, GcRetry
    <3>4. /\ gc'[g].at = "commit" /\ gc'[g].target = t /\ gc'[g].read = ReadSet
          /\ gc'[g] \in [at : {"idle", "commit"}, target : Nat, read : Read \cup {<<>>}]
      BY <1>2, <1>6, <3>3 DEF IInv, GcType, GcRetry
    <3> QED BY <1>2, <1>4, <2>1, <3>1, <3>2, <3>4
  <2>3. CASE ~(retainFrom < t /\ ~PinBlocks(t) /\ ~LeaseBlocks(t))
    <3>1. gc'[g] = Idle
      BY <1>6, <2>3 DEF IInv, GcType, GcRetry
    <3>2. /\ Idle \in [at : {"idle", "commit"}, target : Nat, read : Read \cup {<<>>}]
          /\ Idle.at = "idle" /\ Idle.target = 0
      BY Zenon DEF Idle
    <3>3. 0 \in 0..head
      BY DEF IInv, TypeOK
    <3> QED BY <1>4, <2>1, <3>1, <3>2, <3>3
  <2> QED BY <2>2, <2>3
<1> QED BY <1>3, <1>5, <1>6 DEF Collect

\* An excision begins below the floor and stays there.
LEMMA ExciseStep ==
    ASSUME IInv, Excise
    PROVE  IInv'
<1> USE RetentionAssumption
<1>1. UNCHANGED <<head, retainFrom, holds, now, gc>>
  BY DEF Excise, ExciseBegin, ExciseRows, ExciseMarkers, ExciseSnapshots, ExciseStops, data
<1>2. ScanInv' /\ HoldsHonoured'
  BY <1>1 DEF IInv, ScanInv, HoldsHonoured, Active, holds
<1>3. rows' \subseteq rows /\ markers' \subseteq markers /\ snapshots' \subseteq snapshots
  BY DEF Excise, ExciseBegin, ExciseRows, ExciseMarkers, ExciseSnapshots, ExciseStops, data
<1>4. excise' \in [at : {"idle", "rows", "markers", "snapshots"}, before : Nat] /\ ExciseInv'
  <2>1. ASSUME NEW b \in Before, ExciseBegin(b)
        PROVE  /\ excise' \in [at : {"idle", "rows", "markers", "snapshots"}, before : Nat]
               /\ excise'.before <= retainFrom
    BY <2>1 DEF ExciseBegin, Unsafe, IInv, TypeOK
  <2>2. ASSUME ExciseRows \/ ExciseMarkers \/ ExciseSnapshots \/ ExciseStops
        PROVE  /\ excise' \in [at : {"idle", "rows", "markers", "snapshots"}, before : Nat]
               /\ excise'.at # "idle" => excise'.before <= retainFrom
    BY <2>2 DEF ExciseRows, ExciseMarkers, ExciseSnapshots, ExciseStops, NoExcise,
                IInv, GcType, ExciseInv
  <2> QED BY <1>1, <2>1, <2>2 DEF Excise, ExciseInv
<1>5. TypeOK' /\ GcType'
  BY <1>1, <1>3, <1>4 DEF IInv, TypeOK, GcType, holds
<1>6. RetainedSnapshotsKept'
  <2>1. ASSUME ExciseSnapshots, NEW s \in 1..head, retainFrom <= s PROVE s \in snapshots'
    <3>1. s \in snapshots
      BY <2>1 DEF IInv, RetainedSnapshotsKept
    <3>2. ~(s < excise.before)
      BY <2>1 DEF IInv, TypeOK, GcType, ExciseInv, ExciseSnapshots
    <3> QED BY <2>1, <3>1, <3>2 DEF ExciseSnapshots
  <2>2. ASSUME ~ExciseSnapshots PROVE UNCHANGED snapshots
    BY <2>2 DEF Excise, ExciseBegin, ExciseRows, ExciseMarkers, ExciseStops, data
  <2> QED BY <1>1, <2>1, <2>2 DEF IInv, RetainedSnapshotsKept
<1> QED BY <1>2, <1>4, <1>5, <1>6 DEF IInv

\* The initial state satisfies the inductive invariant.
LEMMA InitInv == Init => IInv
<1> SUFFICES ASSUME Init PROVE IInv
  OBVIOUS
<1> USE RetentionAssumption DEF Init
<1>1. Idle \in [at : {"idle", "commit"}, target : Nat, read : Read \cup {<<>>}]
  BY Zenon DEF Idle
<1>2. TypeOK
  BY DEF TypeOK, Idle, NoExcise
<1>3. GcType
  BY <1>1 DEF GcType, NoExcise
<1>4. ScanInv /\ ExciseInv
  BY DEF ScanInv, ExciseInv, Idle, NoExcise
<1>5. HoldsHonoured /\ RetainedSnapshotsKept
  BY DEF HoldsHonoured, RetainedSnapshotsKept
<1> QED BY <1>2, <1>3, <1>4, <1>5 DEF IInv

\* The inductive invariant holds in every reachable state.
THEOREM Invariance == Spec => []IInv
<1>1. IInv /\ [Next]_vars => IInv'
  <2> SUFFICES ASSUME IInv, [Next]_vars PROVE IInv'
    OBVIOUS
  <2>1. ASSUME UNCHANGED vars PROVE IInv'
    BY <2>1 DEF vars, data, holds, IInv, TypeOK, GcType, ScanInv, ExciseInv, HoldsHonoured,
                RetainedSnapshotsKept, Active
  <2> QED BY <2>1, CommitStep, TickStep, HoldStep, CollectStep, ExciseStep DEF Next
<1> QED BY InitInv, <1>1, PTL DEF Spec

\* Every variable keeps its type and the floor never passes the latest snapshot.
THEOREM TypeCorrect == Spec => []TypeOK
<1>1. IInv => TypeOK
  BY DEF IInv
<1> QED BY Invariance, <1>1, PTL

\* No pin and no unexpired lease that was placed in time is overrun, however many
\* gc_apply calls are between their scan and their commit when it is placed.
THEOREM HoldsAreHonoured == Spec => []HoldsHonoured
<1>1. IInv => HoldsHonoured
  BY DEF IInv
<1> QED BY Invariance, <1>1, PTL

\* Excision, interrupted or not, spares the snapshot rows a reader may ask for.
THEOREM RetainedSnapshotsAreKept == Spec => []RetainedSnapshotsKept
<1>1. IInv => RetainedSnapshotsKept
  BY DEF IInv
<1> QED BY Invariance, <1>1, PTL

\* The floor only rises, whichever of several gc_apply calls commits last.
THEOREM FloorOnlyRises == Spec => FloorRises
<1>1. IInv /\ [Next]_vars => [retainFrom' >= retainFrom]_vars
  <2> SUFFICES ASSUME IInv, Next PROVE retainFrom' >= retainFrom
    OBVIOUS
  <2>1. retainFrom \in Nat
    BY DEF IInv, TypeOK
  <2>2. ASSUME NEW g \in Gc, GcCommit(g) PROVE retainFrom' >= retainFrom
    BY <2>1, <2>2, GcCommitSafe DEF IInv, TypeOK
  <2>3. ASSUME Collect, ~\E g \in Gc : GcCommit(g) PROVE UNCHANGED retainFrom
    BY <2>3 DEF Collect, GcRetry, GcScan
  <2>4. ASSUME Commit \/ Tick \/ Hold \/ Excise PROVE UNCHANGED retainFrom
    BY <2>4 DEF Commit, Tick, Hold, HoldSnapshot, ReleaseSnapshot, PinSnapshot, UnpinSnapshot,
                Excise, ExciseBegin, ExciseRows, ExciseMarkers, ExciseSnapshots, ExciseStops
  <2> QED BY <2>1, <2>2, <2>3, <2>4 DEF Next
<1> QED BY Invariance, <1>1, PTL DEF Spec, FloorRises

\* A row that delete_excisable_* may delete is visible at no retained snapshot.
LEMMA ExcisableInvisible ==
    ASSUME IInv, excise.at # "idle", NEW r \in rows, ExcisableRow(r, excise.before),
           NEW s \in 1..head, retainFrom <= s
    PROVE  ~Visible(r, s)
<1>1. /\ r.end \in Nat /\ r.end # NoEnd /\ r.end <= excise.before
      /\ excise.before \in Nat /\ excise.before <= retainFrom /\ retainFrom \in Nat
  BY DEF IInv, TypeOK, GcType, ExciseInv, ExcisableRow
<1> QED BY <1>1 DEF Visible

\* At every moment of an excision the rows visible at a retained snapshot are all
\* there, whatever it has deleted and wherever it stops.
THEOREM RetainedRowsAreKept == Spec => RetainedRowsKept
<1>1. IInv /\ [Next]_vars =>
        [\A s \in 1..head : retainFrom <= s /\ head' = head => RowsAt(s)' = RowsAt(s)]_vars
  <2> SUFFICES ASSUME IInv, Next, NEW s \in 1..head, retainFrom <= s, head' = head
               PROVE  RowsAt(s)' = RowsAt(s)
    OBVIOUS
  <2>1. ASSUME ExciseRows PROVE RowsAt(s)' = RowsAt(s)
    <3>1. PICK S \in SUBSET {r \in rows : ExcisableRow(r, excise.before)} : rows' = rows \ S
      BY <2>1 DEF ExciseRows
    <3>2. \A r \in S : ~Visible(r, s)
      BY <2>1, ExcisableInvisible DEF ExciseRows
    <3>3. {x \in rows' : Visible(x, s)} = {x \in rows : Visible(x, s)}
      BY <3>1, <3>2
    <3> QED BY <3>3 DEF RowsAt, Visible
  <2>2. ASSUME UNCHANGED rows PROVE RowsAt(s)' = RowsAt(s)
    BY <2>2 DEF RowsAt, Visible
  <2>3. ASSUME Tick \/ Hold \/ Collect PROVE UNCHANGED rows
    BY <2>3 DEF Tick, Hold, HoldSnapshot, ReleaseSnapshot, PinSnapshot, UnpinSnapshot,
                Collect, GcScan, GcCommit, GcRetry, data
  <2>4. ASSUME Excise, ~ExciseRows PROVE UNCHANGED rows
    BY <2>4 DEF Excise, ExciseBegin, ExciseMarkers, ExciseSnapshots, ExciseStops, data
  <2>5. ~Commit
    BY DEF Commit, IInv, TypeOK
  <2> QED BY <2>1, <2>2, <2>3, <2>4, <2>5 DEF Next
<1> QED BY Invariance, <1>1, PTL DEF Spec, RetainedRowsKept
=============================================================================
