------------------------------ MODULE Retention ------------------------------
(***************************************************************************)
(* Retention: the retain-from floor that garbage collection advances       *)
(* (gc.rs), what holds it back (pinned snapshots, snapshot leases of       *)
(* lease.rs), and excision, which deletes what lies below the floor        *)
(* (excise.rs).                                                            *)
(*                                                                         *)
(* gc_apply() runs as a serializable transaction over the floor, the pins  *)
(* and the leases, in parallel with everything else; excise_apply() is no  *)
(* transaction at all, but one scan and one series of deletes per kind of  *)
(* row.                                                                    *)
(*                                                                         *)
(* Abstractions: rows are intervals (how they come about is CatalogRows),  *)
(* inlined delete markers have a begin only; the clock ticks in the unit   *)
(* of the leases' TTL.                                                     *)
(***************************************************************************)
EXTENDS Naturals, FiniteSets

CONSTANTS
    Gc,             \* concurrent gc_apply calls
    Consumer,       \* holders of snapshot leases
    Pinned,         \* snapshots an operator pins
    Before,         \* snapshots an operator excises up to
    MaxSnapshots,   \* bound: snapshots
    MaxRows,        \* bound: rows, and inlined delete markers
    MaxTime,        \* bound: ticks of the clock
    TTL             \* time to live of a lease

ASSUME RetentionAssumption ==
    /\ MaxSnapshots \in Nat \ {0} /\ MaxTime \in Nat
    /\ TTL \in Nat \ {0}
    /\ Before \subseteq Nat

VARIABLES
    head,       \* latest snapshot
    rows,       \* versioned rows
    markers,    \* inlined delete markers
    snapshots,  \* ids of the snapshot rows
    retainFrom, \* the persisted floor, 0 = keep everything
    pins,       \* pinned snapshots
    leases,     \* snapshot leases
    now,        \* the clock
    gc,         \* the gc_apply calls
    excise      \* the excise_apply call

data == <<head, rows, markers, snapshots>>
holds == <<pins, leases>>
vars == <<data, retainFrom, holds, now, gc, excise>>

-----------------------------------------------------------------------------
NoEnd == 0

Visible(r, s) == r.begin <= s /\ (r.end = NoEnd \/ s < r.end)

\* What readers at snapshot s see of the rows, and of the markers.
RowsAt(s) == {r.id : r \in {x \in rows : Visible(x, s)}}

DeletedAt(s) == {m.id : m \in {x \in markers : x.begin <= s}}

Idle == [at |-> "idle", target |-> 0, read |-> <<>>]

NoExcise == [at |-> "idle", before |-> 0]

Init ==
    /\ head = 1 /\ rows = {} /\ markers = {} /\ snapshots = {1}
    /\ retainFrom = 0
    /\ pins = {} /\ leases = {}
    /\ now = 0
    /\ gc = [g \in Gc |-> Idle]
    /\ excise = NoExcise

-----------------------------------------------------------------------------
\* The catalog moves on: a commit adds a row, retires one, or marks a row of a
\* data file deleted.
Commit ==
    /\ head < MaxSnapshots
    /\ head' = head + 1
    /\ snapshots' = snapshots \cup {head + 1}
    /\ \/ /\ Cardinality(rows) < MaxRows
          /\ rows' = rows \cup {[id |-> head + 1, begin |-> head + 1, end |-> NoEnd]}
          /\ UNCHANGED markers
       \/ /\ \E r \in {x \in rows : x.end = NoEnd} :
                 rows' = (rows \ {r}) \cup {[r EXCEPT !.end = head + 1]}
          /\ UNCHANGED markers
       \/ /\ Cardinality(markers) < MaxRows
          /\ markers' = markers \cup {[id |-> head + 1, begin |-> head + 1]}
          /\ UNCHANGED rows
       \/ UNCHANGED <<rows, markers>>
    /\ UNCHANGED <<retainFrom, holds, now, gc, excise>>

Tick ==
    /\ now < MaxTime
    /\ now' = now + 1
    /\ UNCHANGED <<data, retainFrom, holds, gc, excise>>

-----------------------------------------------------------------------------
\* Holding the floor back.  `kept` is history: the snapshot was still above the
\* floor when the hold was placed.

\* hold_snapshot: a put, which replaces the consumer's previous lease.
HoldSnapshot(c, s) ==
    /\ leases' = {l \in leases : l.by # c}
                     \cup {[by |-> c, min |-> s, expires |-> now + TTL,
                            kept |-> retainFrom <= s]}
    /\ UNCHANGED <<data, retainFrom, pins, now, gc, excise>>

ReleaseSnapshot(c) ==
    /\ \E l \in leases : l.by = c
    /\ leases' = {l \in leases : l.by # c}
    /\ UNCHANGED <<data, retainFrom, pins, now, gc, excise>>

Active(l, t) == l.expires > t

PinSnapshot(s) ==
    /\ pins' = {p \in pins : p.snap # s} \cup {[snap |-> s, kept |-> retainFrom < s]}
    /\ UNCHANGED <<data, retainFrom, leases, now, gc, excise>>

UnpinSnapshot(s) ==
    /\ \E p \in pins : p.snap = s
    /\ pins' = {p \in pins : p.snap # s}
    /\ UNCHANGED <<data, retainFrom, leases, now, gc, excise>>

-----------------------------------------------------------------------------
\* gc_apply

\* The keys the transaction reads, and so conflicts on.
ReadSet == <<retainFrom, pins, leases>>

PinBlocksAbove(target) == \E p \in pins : target > p.snap

\* A pin refuses a floor at or above it.
PinBlocks(target) == \E p \in pins : target >= p.snap

\* A lease that has not expired refuses a floor above it.
LeaseBlocks(target) == \E l \in leases : Active(l, now) /\ target > l.min

\* Begin, read and check: the call is over at once when the floor is there
\* already or held back, and has its put pending otherwise.
GcScan(g, target) ==
    /\ gc[g].at = "idle"
    /\ retainFrom < target
    /\ ~PinBlocks(target)
    /\ ~LeaseBlocks(target)
    /\ gc' = [gc EXCEPT ![g] =
                  [at |-> "commit", target |-> target, read |-> ReadSet]]
    /\ UNCHANGED <<data, retainFrom, holds, now, excise>>

NoConflict(g) == TRUE

\* A serializable transaction commits only if nothing it read was written since.
Serializable(g) == gc[g].read = ReadSet

FloorPast(g) == gc[g].target + 1

\* The value of the transaction's put.
NewFloor(g) == gc[g].target

GcCommit(g) ==
    /\ gc[g].at = "commit"
    /\ Serializable(g)
    /\ retainFrom' = NewFloor(g)
    /\ gc' = [gc EXCEPT ![g] = Idle]
    /\ UNCHANGED <<data, holds, now, excise>>

\* `Err(_) => continue`: scan again, and end there if the target is now behind
\* the floor or held back.
GcRetry(g) ==
    /\ gc[g].at = "commit"
    /\ ~Serializable(g)
    /\ gc' = [gc EXCEPT ![g] =
           IF retainFrom < @.target /\ ~PinBlocks(@.target) /\ ~LeaseBlocks(@.target)
           THEN [@ EXCEPT !.read = ReadSet]
           ELSE Idle]
    /\ UNCHANGED <<data, retainFrom, holds, now, excise>>

-----------------------------------------------------------------------------
\* excise_apply

NeverUnsafe(before) == FALSE

\* The interlock: the floor must have been advanced to the excision point.
Unsafe(before) == retainFrom = 0 \/ retainFrom < before

ExciseBegin(before) ==
    /\ excise.at = "idle"
    /\ ~Unsafe(before)
    /\ excise' = [at |-> "rows", before |-> before]
    /\ UNCHANGED <<data, retainFrom, holds, now, gc>>

ExcisableByBegin(r, before) == r.begin < before

\* delete_excisable_schemas, _tables, _columns, _inlined_inserts
ExcisableRow(r, before) == r.end # NoEnd /\ r.end <= before

\* delete_excisable_inlined_deletes
ExcisableMarker(m, before) == m.begin < before

\* A delete that fails is logged and skipped, so any subset may go.
ExciseRows ==
    /\ excise.at = "rows"
    /\ \E S \in SUBSET {r \in rows : ExcisableRow(r, excise.before)} : rows' = rows \ S
    /\ excise' = [excise EXCEPT !.at = "markers"]
    /\ UNCHANGED <<head, markers, snapshots, retainFrom, holds, now, gc>>

ExciseMarkers ==
    /\ excise.at = "markers"
    /\ \E S \in SUBSET {m \in markers : ExcisableMarker(m, excise.before)} :
           markers' = markers \ S
    /\ excise' = [excise EXCEPT !.at = "snapshots"]
    /\ UNCHANGED <<head, rows, snapshots, retainFrom, holds, now, gc>>

\* delete_old_snapshots, and the audit entry.
ExciseSnapshots ==
    /\ excise.at = "snapshots"
    /\ \E S \in SUBSET {s \in snapshots : s < excise.before} :
           snapshots' = snapshots \ S
    /\ excise' = NoExcise
    /\ UNCHANGED <<head, rows, markers, retainFrom, holds, now, gc>>

\* The process stops between two deletes; the operator runs it again later.
ExciseStops ==
    /\ excise.at # "idle"
    /\ excise' = NoExcise
    /\ UNCHANGED <<data, retainFrom, holds, now, gc>>

-----------------------------------------------------------------------------
Hold ==
    \/ \E c \in Consumer : ReleaseSnapshot(c) \/ \E s \in 1..head : HoldSnapshot(c, s)
    \/ \E s \in Pinned \cap 1..head : PinSnapshot(s) \/ UnpinSnapshot(s)

Collect ==
    \E g \in Gc : GcCommit(g) \/ GcRetry(g) \/ \E t \in 1..head : GcScan(g, t)

Excise ==
    \/ \E s \in Before : ExciseBegin(s)
    \/ ExciseRows \/ ExciseMarkers \/ ExciseSnapshots \/ ExciseStops

Next == Commit \/ Tick \/ Hold \/ Collect \/ Excise

Spec == Init /\ [][Next]_vars

-----------------------------------------------------------------------------
\* Properties

\* Every variable has its type, and the floor never passes the head.
TypeOK ==
    /\ head \in 1..MaxSnapshots
    /\ rows \in SUBSET [id : Nat, begin : Nat, end : Nat]
    /\ markers \in SUBSET [id : Nat, begin : Nat]
    /\ snapshots \subseteq 1..head
    /\ retainFrom \in 0..head
    /\ pins \in SUBSET [snap : 1..head, kept : BOOLEAN]
    /\ leases \in SUBSET [by : Consumer, min : 1..head, expires : Nat, kept : BOOLEAN]
    /\ now \in 0..MaxTime
    /\ \A g \in Gc : gc[g].at \in {"idle", "commit"} /\ gc[g].target \in 0..head
    /\ excise.at \in {"idle", "rows", "markers", "snapshots"}

\* The floor only rises, whichever of several gc_apply calls commits last.
FloorRises == [][retainFrom' >= retainFrom]_vars

\* Neither a pin nor an unexpired lease that was placed in time is overrun, also
\* when it is placed while a gc_apply is between its scan and its commit.
HoldsHonoured ==
    /\ \A p \in pins : p.kept => retainFrom < p.snap
    /\ \A l \in leases : l.kept /\ Active(l, now) => retainFrom <= l.min

\* At every moment of an excision, finished, interrupted or partly failed, the
\* rows visible at a retained snapshot are all there.
RetainedRowsKept ==
    [][\A s \in 1..head :
           retainFrom <= s /\ head' = head => RowsAt(s)' = RowsAt(s)]_vars

\* A retained snapshot keeps its snapshot row.
RetainedSnapshotsKept == \A s \in 1..head : retainFrom <= s => s \in snapshots

\* The rows deleted by inlined delete markers stay deleted at every snapshot a
\* reader can still ask for.  Does not hold: see the README.
RetainedDeletesKept ==
    [][\A s \in 1..head :
           retainFrom <= s /\ head' = head => DeletedAt(s)' = DeletedAt(s)]_vars
=============================================================================
