----------------------------- MODULE ToolsProofs -----------------------------
(***************************************************************************)
(* Proofs about the tools that work beside the server: FileCleanup, for    *)
(* any paths, grace period and clock, and Transfer, for any number of      *)
(* snapshots, files, tools and commits.                                    *)
(*                                                                         *)
(* The orphan sweep reads the catalog, the clock and the bucket at three   *)
(* different times.  The argument: a registered file that its scans did    *)
(* not find was registered after the first of them (ScanInv); an object it *)
(* listed was then as old as the grace period (ListInv); so that the time  *)
(* from upload to registration and the time of the scans add up to it.     *)
(*                                                                         *)
(* An export scans kind after kind while its source is written to.  The    *)
(* argument: a commit shows earlier snapshots as they were (OwnCommit), so *)
(* that what is visible at the snapshot of the export is the same whenever *)
(* its kind is scanned (ExportInv).  A catalog being filled from one       *)
(* source and the lines yet to come are together what readers of the       *)
(* source saw (Restored); the plan of a repair has an action for every     *)
(* counter that is behind (Repairs), after which no id is at or above its  *)
(* counter (Ahead), which commits keep so.                                 *)
(***************************************************************************)
EXTENDS FileCleanup, Transfer, WellFoundedInduction, TLAPS

-----------------------------------------------------------------------------
\* The orphan sweep and the cleanup of files

CleanupType ==
    /\ now \in Nat /\ now >= Epoch /\ floor \in {0, 1}
    /\ objects \subseteq Paths
    /\ row \in [Paths -> {"none", "live", "retired", "excised"}]
    /\ uploaded \in [Paths -> Nat] /\ lag \in [Paths -> Nat]
    /\ sweep \in [step : {"none", "deletes", "list", "delete"}, refs : SUBSET Paths,
                  since : Nat, age : Nat, todo : SUBSET Paths]

\* Files are uploaded before they are registered, and not in the future.
UploadInv ==
    \A p \in Paths :
        /\ uploaded[p] <= now
        /\ row[p] # "none" \/ p \in objects => uploaded[p] # 0

\* Entries of the schedule are of this century.
ScheduleInv == \A p \in DOMAIN scheduled : scheduled[p] \in Nat /\ scheduled[p] >= Epoch

\* Objects that are gone were old when a sweep listed them, or their rows came late.
GoneInv ==
    \A p \in Paths : uploaded[p] # 0 /\ p \notin objects =>
        /\ row[p] = "none" => uploaded[p] + Grace <= now
        /\ InCatalog(p) /\ p \notin Foreign => lag[p] >= Grace

\* The kinds of files a running sweep has scanned.
Looked(p) == p \notin DeleteFiles \/ sweep.step \in {"list", "delete"}

\* A registered file that a scan did not find was registered after it began.
ScanInv ==
    sweep.step # "none" =>
        /\ sweep.since <= now
        /\ \A p \in Paths \ Foreign :
               Looked(p) /\ InCatalog(p) /\ p \notin sweep.refs =>
                   uploaded[p] + lag[p] >= sweep.since

\* What is to be deleted was not found, and old enough when it was listed.
ListInv ==
    /\ sweep.todo # {} => sweep.step = "delete"
    /\ sweep.todo \cap sweep.refs = {}
    /\ sweep.step = "delete" => sweep.since + sweep.age <= now
    /\ \A p \in sweep.todo : uploaded[p] # 0 /\ uploaded[p] + Grace <= sweep.since + sweep.age

IInv == CleanupType /\ UploadInv /\ ScheduleInv /\ GoneInv /\ ScanInv /\ ListInv

-----------------------------------------------------------------------------
\* A floor is a snapshot id, and nothing was scheduled at such a time.
LEMMA NothingDue ==
    ASSUME CleanupType, ScheduleInv
    PROVE  \A p \in DOMAIN scheduled : ~Due(p)
BY CleanupAssumption DEF CleanupType, ScheduleInv, Due

LEMMA InitInv == Init => IInv
BY CleanupAssumption DEF Init, NoSweep, IInv, CleanupType, UploadInv, ScheduleInv, GoneInv, ScanInv,
                         ListInv, InCatalog

\* Clients: the sweep's obligations are kept while files come, go and age.
LEMMA ClientStep ==
    ASSUME IInv, Tick \/ Upload \/ Register \/ Retire \/ Schedule \/ Excise
    PROVE  IInv'
<1> USE CleanupAssumption DEF IInv
<1>1. CASE Tick
  BY <1>1 DEF Tick, CleanupType, UploadInv, ScheduleInv, GoneInv, ScanInv, ListInv, InCatalog, Looked
<1>2. CASE Upload
  <2>1. PICK p \in Paths : /\ uploaded[p] = 0 /\ objects' = objects \cup {p}
                           /\ uploaded' = [uploaded EXCEPT ![p] = now]
    BY <1>2 DEF Upload
  <2>2. UNCHANGED <<now, row, floor, scheduled, sweep, lag>>
    BY <1>2 DEF Upload
  <2>3. row[p] = "none" /\ p \notin sweep.todo
    BY <2>1 DEF UploadInv, ListInv
  <2>4. CleanupType' /\ UploadInv' /\ ScheduleInv'
    BY <2>1, <2>2, <2>3 DEF CleanupType, UploadInv, ScheduleInv
  <2>5. GoneInv' /\ ScanInv' /\ ListInv'
    BY <2>1, <2>2, <2>3 DEF CleanupType, GoneInv, ScanInv, ListInv, InCatalog, Looked
  <2> QED BY <2>4, <2>5
<1>3. CASE Register
  <2>1. PICK p \in Paths : /\ uploaded[p] # 0 /\ row[p] = "none"
                           /\ row' = [row EXCEPT ![p] = "live"]
                           /\ lag' = [lag EXCEPT ![p] = @ + now - uploaded[p]]
    BY <1>3 DEF Register
  <2>2. UNCHANGED <<now, objects, floor, scheduled, sweep, uploaded>>
    BY <1>3 DEF Register
  <2>3. lag'[p] \in Nat /\ lag'[p] + uploaded[p] >= now
    BY <2>1 DEF CleanupType, UploadInv
  <2>4. CleanupType' /\ UploadInv' /\ ScheduleInv'
    BY <2>1, <2>2, <2>3 DEF CleanupType, UploadInv, ScheduleInv
  <2>5. \A q \in Paths : q # p => row'[q] = row[q] /\ lag'[q] = lag[q]
    BY <2>1 DEF CleanupType
  <2>6. GoneInv'
    <3> SUFFICES ASSUME NEW q \in Paths, uploaded[q] # 0, q \notin objects
                 PROVE  /\ row'[q] = "none" => uploaded[q] + Grace <= now
                        /\ InCatalog(q)' /\ q \notin Foreign => lag'[q] >= Grace
      BY <2>2 DEF GoneInv
    <3>1. CASE q = p
      BY <2>1, <2>2, <2>3, <3>1 DEF GoneInv, CleanupType
    <3>2. CASE q # p
      BY <2>2, <2>5, <3>2 DEF GoneInv, InCatalog
    <3> QED BY <3>1, <3>2
  <2>7. ScanInv'
    <3> SUFFICES ASSUME sweep.step # "none"
                 PROVE  /\ sweep.since <= now
                        /\ \A q \in Paths \ Foreign :
                               Looked(q) /\ InCatalog(q)' /\ q \notin sweep.refs =>
                                   uploaded[q] + lag'[q] >= sweep.since
      BY <2>2 DEF ScanInv, Looked
    <3>1. sweep.since <= now
      BY DEF ScanInv
    <3>2. uploaded[p] + lag'[p] >= sweep.since
      BY <2>3, <3>1 DEF CleanupType
    <3> QED BY <2>5, <3>1, <3>2 DEF ScanInv, InCatalog
  <2>8. ListInv'
    BY <2>2 DEF ListInv
  <2> QED BY <2>4, <2>6, <2>7, <2>8
<1>4. CASE Retire \/ Excise
  <2>1. PICK p \in Paths, to \in {"retired", "excised"} :
            /\ row[p] # "none" /\ (to = "retired" => row[p] = "live") /\ row' = [row EXCEPT ![p] = to]
    BY <1>4 DEF Retire, Excise
  <2>2. floor' \in {0, 1} /\ UNCHANGED <<now, objects, scheduled, sweep, uploaded, lag>>
    BY <1>4 DEF Retire, Excise, CleanupType
  <2>3. \A q \in Paths : /\ row'[q] = "none" <=> row[q] = "none"
                         /\ InCatalog(q)' => InCatalog(q)
    BY <2>1 DEF CleanupType, InCatalog
  <2>4. CleanupType'
    BY <2>1, <2>2 DEF CleanupType
  <2> QED BY <2>2, <2>3, <2>4 DEF UploadInv, ScheduleInv, GoneInv, ScanInv, ListInv, Looked
<1>5. CASE Schedule
  <2>1. ScheduleInv'
    BY <1>5 DEF Schedule, ScheduleInv, CleanupType
  <2> QED BY <1>5, <2>1 DEF Schedule, CleanupType, UploadInv, GoneInv, ScanInv, ListInv, InCatalog, Looked
<1> QED BY <1>1, <1>2, <1>3, <1>4, <1>5

\* The sweep, and the scheduled deletions.
LEMMA SweepStep ==
    ASSUME IInv,
           \/ SweepDataFiles \/ SweepDeleteFiles \/ SweepList \/ SweepDelete \/ SweepSpares
           \/ SweepEnds \/ ProcessScheduled \/ UNCHANGED vars
    PROVE  IInv'
<1> USE CleanupAssumption DEF IInv
<1>0. UNCHANGED <<now, row, floor, uploaded>> /\ UploadInv'
  BY DEF UploadInv, SweepDataFiles, SweepDeleteFiles, SweepList, SweepDelete, SweepSpares,
         SweepEnds, ProcessScheduled, vars
<1>1. CASE SweepDataFiles
  <2>1. /\ sweep'.step = "deletes" /\ sweep'.since = now /\ sweep'.todo = {}
        /\ sweep'.refs = Referenced(Paths \ DeleteFiles)
        /\ sweep' \in [step : {"none", "deletes", "list", "delete"}, refs : SUBSET Paths,
                       since : Nat, age : Nat, todo : SUBSET Paths]
    BY <1>1 DEF SweepDataFiles, NoSweep, Referenced, CleanupType
  <2>2. UNCHANGED <<objects, scheduled, lag>>
    BY <1>1 DEF SweepDataFiles
  <2>3. CleanupType' /\ ScheduleInv' /\ GoneInv' /\ ListInv'
    BY <1>0, <2>1, <2>2 DEF CleanupType, ScheduleInv, GoneInv, ListInv, InCatalog
  <2>4. ScanInv'
    BY <1>0, <2>1, <2>2 DEF CleanupType, ScanInv, Looked, Referenced, InCatalog
  <2> QED BY <1>0, <2>3, <2>4
<1>2. CASE SweepDeleteFiles
  <2>1. /\ sweep.step = "deletes" /\ sweep'.step = "list" /\ sweep'.since = sweep.since
        /\ sweep'.refs = sweep.refs \cup Referenced(DeleteFiles) /\ sweep'.todo = sweep.todo
        /\ sweep' \in [step : {"none", "deletes", "list", "delete"}, refs : SUBSET Paths,
                       since : Nat, age : Nat, todo : SUBSET Paths]
    BY <1>2 DEF SweepDeleteFiles, Referenced, CleanupType
  <2>2. UNCHANGED <<objects, scheduled, lag>>
    BY <1>2 DEF SweepDeleteFiles
  <2>3. sweep.todo = {}
    BY <2>1 DEF ListInv
  <2>4. CleanupType' /\ ScheduleInv' /\ GoneInv' /\ ListInv'
    BY <1>0, <2>1, <2>2, <2>3 DEF CleanupType, ScheduleInv, GoneInv, ListInv, InCatalog
  <2>5. ScanInv'
    BY <1>0, <2>1, <2>2 DEF CleanupType, ScanInv, Looked, Referenced, InCatalog
  <2> QED BY <1>0, <2>4, <2>5
<1>3. CASE SweepList
  <2>1. sweep.step = "list" /\ sweep.since <= now /\ sweep.since \in Nat
    BY <1>3 DEF SweepList, ScanInv, CleanupType
  <2>2. /\ sweep'.step = "delete" /\ sweep'.since = sweep.since /\ sweep'.refs = sweep.refs
        /\ sweep'.age = now - sweep.since
        /\ sweep'.todo = {p \in objects \ sweep.refs : OldEnough(p)}
        /\ sweep' \in [step : {"none", "deletes", "list", "delete"}, refs : SUBSET Paths,
                       since : Nat, age : Nat, todo : SUBSET Paths]
    <3>1. now - sweep.since \in Nat /\ {p \in objects \ sweep.refs : OldEnough(p)} \in SUBSET Paths
      BY <2>1 DEF CleanupType
    <3>2. sweep' = [sweep EXCEPT !.step = "delete", !.age = now - sweep.since,
                                 !.todo = {p \in objects \ sweep.refs : OldEnough(p)}]
      BY <1>3 DEF SweepList
    <3> QED BY <3>1, <3>2 DEF CleanupType
  <2>3. UNCHANGED <<objects, scheduled, lag>>
    BY <1>3 DEF SweepList
  <2>4. \A p \in sweep'.todo : p \in objects /\ uploaded[p] + Grace <= now
    BY <2>2 DEF OldEnough, CleanupType, UploadInv
  <2>5. CleanupType' /\ ScheduleInv' /\ GoneInv'
    BY <1>0, <2>2, <2>3 DEF CleanupType, ScheduleInv, GoneInv, InCatalog
  <2>6. ScanInv'
    BY <1>0, <2>1, <2>2, <2>3 DEF ScanInv, Looked, InCatalog
  <2>7. sweep'.since + sweep'.age = now
    BY <2>1, <2>2 DEF CleanupType
  <2>8. \A p \in sweep'.todo : uploaded[p] # 0
    BY <2>4 DEF UploadInv, CleanupType
  <2>9. ListInv'
    BY <1>0, <2>2, <2>4, <2>7, <2>8 DEF ListInv, CleanupType
  <2> QED BY <1>0, <2>5, <2>6, <2>9
<1>4. CASE SweepDelete
  <2>1. PICK p \in sweep.todo : /\ objects' = objects \ {p}
                                /\ lag' = [lag EXCEPT ![p] = @ + sweep.age]
                                /\ sweep' = [sweep EXCEPT !.todo = @ \ {p}]
    BY <1>4 DEF SweepDelete
  <2>2. sweep.step = "delete" /\ UNCHANGED scheduled
    BY <1>4 DEF SweepDelete
  <2>3. /\ p \in Paths /\ p \notin sweep.refs /\ uploaded[p] # 0
        /\ uploaded[p] + Grace <= sweep.since + sweep.age /\ sweep.since + sweep.age <= now
    BY <2>1, <2>2 DEF ListInv, CleanupType
  <2>4. /\ sweep'.step = sweep.step /\ sweep'.since = sweep.since /\ sweep'.refs = sweep.refs
        /\ sweep'.age = sweep.age /\ sweep'.todo = sweep.todo \ {p}
        /\ sweep' \in [step : {"none", "deletes", "list", "delete"}, refs : SUBSET Paths,
                       since : Nat, age : Nat, todo : SUBSET Paths]
    BY <2>1 DEF CleanupType
  <2>5. \A q \in Paths : lag'[q] \in Nat /\ lag'[q] >= lag[q]
    BY <2>1, <2>3 DEF CleanupType
  <2>6. CleanupType' /\ ScheduleInv' /\ ListInv'
    BY <1>0, <2>1, <2>2, <2>4, <2>5 DEF CleanupType, ScheduleInv, ListInv
  <2>7. ScanInv'
    BY <1>0, <2>4, <2>5 DEF CleanupType, ScanInv, Looked, InCatalog
  <2>8. GoneInv'
    <3>1. uploaded[p] + Grace <= now
      BY <2>3 DEF CleanupType
    <3>2. CASE InCatalog(p) /\ p \notin Foreign
      <4>1. uploaded[p] + lag[p] >= sweep.since
        BY <2>2, <2>3, <3>2 DEF ScanInv, Looked
      <4>2. lag'[p] = lag[p] + sweep.age
        BY <2>1, <2>3 DEF CleanupType
      <4>3. lag'[p] >= Grace
        BY <2>3, <4>1, <4>2 DEF CleanupType
      <4> QED BY <1>0, <2>1, <2>3, <2>5, <3>1, <4>3 DEF CleanupType, GoneInv, InCatalog
    <3>3. CASE ~InCatalog(p) \/ p \in Foreign
      BY <1>0, <2>1, <2>3, <2>5, <3>1, <3>3 DEF CleanupType, GoneInv, InCatalog
    <3> QED BY <3>2, <3>3
  <2> QED BY <1>0, <2>6, <2>7, <2>8
<1>5. CASE SweepSpares
  <2>1. PICK p \in sweep.todo : sweep' = [sweep EXCEPT !.todo = @ \ {p}]
    BY <1>5 DEF SweepSpares
  <2>2. UNCHANGED <<objects, scheduled, lag>>
    BY <1>5 DEF SweepSpares
  <2>3. /\ sweep'.step = sweep.step /\ sweep'.since = sweep.since /\ sweep'.refs = sweep.refs
        /\ sweep'.age = sweep.age /\ sweep'.todo = sweep.todo \ {p}
        /\ sweep' \in [step : {"none", "deletes", "list", "delete"}, refs : SUBSET Paths,
                       since : Nat, age : Nat, todo : SUBSET Paths]
    BY <2>1 DEF CleanupType
  <2> QED BY <1>0, <2>2, <2>3 DEF CleanupType, ScheduleInv, GoneInv, ScanInv, ListInv, Looked, InCatalog
<1>6. CASE SweepEnds
  <2>1. /\ sweep'.step = "none" /\ sweep'.todo = {}
        /\ sweep' \in [step : {"none", "deletes", "list", "delete"}, refs : SUBSET Paths,
                       since : Nat, age : Nat, todo : SUBSET Paths]
    BY <1>6 DEF SweepEnds, NoSweep
  <2> QED BY <1>0, <1>6, <2>1 DEF SweepEnds, CleanupType, ScheduleInv, GoneInv, ScanInv, ListInv, InCatalog
<1>7. CASE ProcessScheduled
  <2>1. objects' = objects /\ UNCHANGED <<sweep, lag>> /\ ScheduleInv'
    BY <1>7, NothingDue DEF ProcessScheduled, ScheduleInv
  <2> QED BY <1>0, <2>1 DEF CleanupType, GoneInv, ScanInv, ListInv, Looked, InCatalog
<1>8. CASE UNCHANGED vars
  BY <1>0, <1>8 DEF vars, CleanupType, ScheduleInv, GoneInv, ScanInv, ListInv, Looked, InCatalog
<1> QED BY <1>1, <1>2, <1>3, <1>4, <1>5, <1>6, <1>7, <1>8

-----------------------------------------------------------------------------
\* The inductive invariant holds of every reachable state.
THEOREM Invariance == Spec => []IInv
<1>1. IInv /\ [Next]_vars => IInv'
  BY ClientStep, SweepStep DEF Next
<1> QED BY <1>1, InitInv, PTL DEF Spec

\* sweep_orphans never takes a file that a snapshot names before its client, the
\* scans and the listing have together used up the grace period.
THEOREM GraceProtectsHolds == Spec => []GraceProtects
<1>1. IInv => GraceProtects
  <2> SUFFICES ASSUME IInv, NEW p \in Missing \ Foreign PROVE lag[p] >= Grace
    BY DEF GraceProtects
  <2>1. p \in Paths /\ InCatalog(p) /\ p \notin objects
    BY DEF Missing
  <2>2. uploaded[p] # 0
    BY <2>1 DEF IInv, UploadInv, InCatalog
  <2> QED BY <2>1, <2>2 DEF IInv, GoneInv
<1> QED BY <1>1, Invariance, PTL

\* process_scheduled_deletions takes no object whose row is in the catalog: with a
\* floor that is a snapshot id it takes none at all.
THEOREM ScheduledSafeHolds == Spec => ScheduledSafe
<1> DEFINE Safe == \A p \in objects \ objects' : sweep' = sweep => ~InCatalog(p)
<1>1. IInv /\ [Next]_vars => [Safe]_vars
  <2> SUFFICES ASSUME IInv, Next PROVE Safe
    OBVIOUS
  <2>1. CASE SweepDelete
    <3>1. PICK p \in sweep.todo : sweep' = [sweep EXCEPT !.todo = @ \ {p}]
      BY <2>1 DEF SweepDelete
    <3>2. sweep'.todo = sweep.todo \ {p}
      BY <3>1 DEF IInv, CleanupType
    <3> QED BY <3>1, <3>2
  <2>2. CASE ProcessScheduled
    <3>1. objects' = objects
      BY <2>2, NothingDue DEF IInv, ProcessScheduled
    <3> QED BY <3>1
  <2>3. CASE ~SweepDelete /\ ~ProcessScheduled
    <3>1. objects \subseteq objects'
      BY <2>3 DEF Next, Tick, Upload, Register, Retire, Schedule, Excise, SweepDataFiles,
                  SweepDeleteFiles, SweepList, SweepSpares, SweepEnds
    <3> QED BY <3>1
  <2> QED BY <2>1, <2>2, <2>3
<1> QED BY <1>1, Invariance, PTL DEF Spec, ScheduledSafe

-----------------------------------------------------------------------------
\* The invariant of Transfer

CatKind == {"table", "view", "file", "delfile", "inline", "stat", "marker"}

CatRow == [kind : CatKind, parent : Nat, id : Nat, begin : Nat, end : Nat, whole : BOOLEAN]

CounterName == {"snap", "cat", "file"}

FileRows(R) == {r \in R : r.kind = "file"}

\* The facts that readers see at s when the index has just the data files.
FactsAt(R, s) == {Fact(r) : r \in {x \in R : x.kind \in Versioned /\ Visible(x, s)}}

UniqueKeys(R) == \A r, q \in R : Key(r) = Key(q) => r = q

UniqueEntries(I) == \A r, q \in I : IndexKey(r) = IndexKey(q) => r = q

UniqueIds(S) == \A x, y \in S : x.id = y.id => x = y

Proper(r) == r.end = NoEnd \/ r.begin < r.end

\* Every snapshot below one that is there is there too.
Dense(S) == \A x \in S : \A j \in 1..x.id : \E y \in S : y.id = j

\* A catalog, whatever its contents.
AnyDb(d) ==
    /\ d = [fv |-> d.fv, counter |-> d.counter, snaps |-> d.snaps, rows |-> d.rows, index |-> d.index]
    /\ d.fv \in {0, 1, 2} /\ d.counter \in [CounterName -> Nat]
    /\ d.rows \in SUBSET CatRow /\ d.index \in SUBSET CatRow
    /\ \A x \in d.snaps : x.id \in Nat

\* The number that an object's id is taken from.
IdCounter(d, kind) ==
    CASE kind \in {"table", "view"} -> d.counter["cat"]
      [] kind \in {"file", "delfile"} -> d.counter["file"]
      [] kind = "inline" -> d.counter["snap"]

\* A catalog that only its own servers have written to.
OwnDb(d) ==
    /\ AnyDb(d)
    /\ d.counter["snap"] >= 2
    /\ d.index = FileRows(d.rows)
    /\ UniqueKeys(d.rows)
    /\ \A r \in d.rows :
           /\ Proper(r) /\ r.begin <= Latest(d) /\ r.end <= Latest(d)
           /\ r.kind \in Versioned => r.id < IdCounter(d, r.kind)
    /\ {x.id : x \in d.snaps} = 1..Latest(d) /\ UniqueIds(d.snaps)

\* Inlined rows are those of a table that is there.
Rooted(F) == \A f \in F : f[1] = "inline" => \E g \in F : g[1] = "table" /\ g[3] = f[2]

SrcInv ==
    /\ OwnDb(db[Src])
    /\ DOMAIN seen = 1..Latest(db[Src])
    /\ \A s \in 1..Latest(db[Src]) : seen[s] = FactsAt(db[Src].rows, s) /\ Rooted(seen[s])

\* What an export has written, or has finished to write.
ExportInv(e) ==
    /\ e = [at |-> e.at, scan |-> e.scan, known |-> e.known, snaps |-> e.snaps, rows |-> e.rows]
    /\ e.at \in Nat /\ e.scan \in 0..8 /\ e.known \in BOOLEAN /\ e.rows \in SUBSET CatRow
    /\ \A x \in e.snaps : x.id \in Nat
    /\ Dense(e.snaps) /\ UniqueIds(e.snaps) /\ UniqueKeys(e.rows)
    /\ \A r \in e.rows : Proper(r) /\ \E i \in 1..(e.scan - 1) : r.kind = ExportOrder[i]
    /\ e.known =>
           /\ e.at \in 1..Latest(db[Src]) /\ e.scan \in 1..8
           /\ e.scan > 1 => {x.id : x \in e.snaps} = 1..e.at
           /\ \A r \in e.rows : r.kind # "stat" => Visible(r, e.at)
           /\ {Fact(r) : r \in {x \in e.rows : x.kind # "stat"}} =
                  {f \in seen[e.at] : \E i \in 1..(e.scan - 1) : f[1] = ExportOrder[i]}

FileInv == ExportInv(file) /\ (file.known => file.scan = 8)

\* A fill goes on where it was, and what it has yet to write is in order.
FeedInv ==
    /\ feed = [tool |-> feed.tool, snaps |-> feed.snaps, rows |-> feed.rows]
    /\ feed.tool = "none" => feed = NoFeed
    /\ feed.rows \in SUBSET CatRow /\ (\A r \in feed.rows : Proper(r))
    /\ UniqueKeys(feed.rows) /\ UniqueIds(feed.snaps)
    /\ \A x \in feed.snaps :
           x.id \in Nat /\ \A j \in 1..(x.id - 1) : \E y \in db[Dst].snaps \cup feed.snaps : y.id = j

\* Ids have a bound.
Bounded(S) == \E n \in Nat : \A x \in S : x.id \in 0..n

SrcBounded ==
    /\ Bounded(db[Src].rows) /\ Bounded(db[Src].snaps)
    /\ Bounded(export.rows) /\ Bounded(export.snaps)
    /\ Bounded(file.rows) /\ Bounded(file.snaps)

DstBounded ==
    /\ Bounded(db[Dst].rows) /\ Bounded(db[Dst].snaps)
    /\ Bounded(feed.rows) /\ Bounded(feed.snaps)

DbShape == db = [c \in {Src, Dst} |-> db[c]]

\* A catalog that tools fill and servers write to: data files are in the index,
\* and no snapshot below the counter is missing.
Indexed(d) == \A r \in d.rows : r.kind = "file" => \E x \in d.index : IndexKey(x) = IndexKey(r)

Reached(d) == d.counter["snap"] # Absent => \A j \in 1..Latest(d) : \E y \in d.snaps : y.id = j

SoundDb(d) ==
    /\ AnyDb(d) /\ Dense(d.snaps) /\ Indexed(d) /\ Reached(d)
    /\ UniqueKeys(d.rows) /\ UniqueEntries(d.index) /\ UniqueIds(d.snaps)

DstInv ==
    /\ DbShape /\ SoundDb(db[Dst]) /\ Src \in serving
    /\ left = [tools |-> left.tools, commits |-> left.commits] /\ left.commits \in 0..MaxCommits
    /\ left.commits = MaxCommits => \A r \in db[Dst].rows : Proper(r)
    /\ Dst \in serving => /\ feed = NoFeed /\ plan = {} /\ db[Dst].fv = Format
                          /\ \A c \in CounterName : db[Dst].counter[c] # Absent
    /\ feed = NoFeed \/ plan = {}

\* No id that repair counts is at or above its counter.
Below(d, c) == d.counter[c] # Absent => \A i \in InUse(d, c) : i < d.counter[c]

Ahead(d) == \A c \in CounterName : Below(d, c)

\* The repairs p of catalog d that are left.
Repairs(d, p) ==
    /\ \A a \in p :
           \/ a \in {<<"end", "ok", 0>>, <<"end", "failed", 0>>}
           \/ \E c \in CounterName : a = <<"counter", c, Correct(d, c)>> /\ d.counter[c] # Absent
           \/ /\ a = <<"remove", a[2], 0>> /\ a[2] \in CatRow /\ a[2].kind \in {"inline", "stat"}
              /\ a[2].parent \notin TableIds(d)
    /\ <<"end", "ok", 0>> \in p =>
           \A c \in CounterName : Below(d, c) \/ <<"counter", c, Correct(d, c)>> \in p

PlanInv ==
    /\ Repairs(db[Dst], plan)
    /\ repaired => Ahead(db[Dst]) /\ feed = NoFeed /\ plan = {}
    /\ repaired \/ plan # {} => db[Dst].fv # Absent

\* Of what readers of the source saw, the kinds that the tool carries over.
Want == IF origin.tool = "import" THEN seen[origin.at]
        ELSE {f \in seen[origin.at] : f[1] # "inline"}

\* What d has and what is yet to come of the rows F and the snapshots S are
\* together the facts W at snapshot s.
Restored(d, F, S, s, W) ==
    /\ UniqueKeys(d.rows \cup F)
    /\ d.index = FileRows(d.rows)
    /\ \A r \in d.rows \cup F : r.kind \in Versioned => Visible(r, s)
    /\ {Fact(r) : r \in {x \in d.rows \cup F : x.kind \in Versioned}} = W
    /\ {x.id : x \in d.snaps \cup S} = 1..s
    /\ d.counter["snap"] <= s + 1

\* Dst is filled, or being filled, from one source.
OriginInv ==
    /\ origin = [tool |-> origin.tool, at |-> origin.at, done |-> origin.done]
    /\ origin.done => feed = NoFeed
    /\ origin.at # 0 /\ (feed.tool # "none" \/ origin.done) =>
           /\ origin.at \in 1..Latest(db[Src])
           /\ Restored(db[Dst], feed.rows, feed.snaps, origin.at, Want)

DstSide == FeedInv /\ DstBounded /\ DstInv /\ PlanInv /\ OriginInv

IInvTransfer == SrcInv /\ ExportInv(export) /\ FileInv /\ SrcBounded /\ DstSide

-----------------------------------------------------------------------------
\* Numbers and rows

\* A set of numbers with a bound has a greatest one.
LEMMA MaxExists ==
    ASSUME NEW S \in SUBSET Nat, S # {}, NEW n \in Nat, \A x \in S : x <= n
    PROVE  Max(S) \in S /\ \A x \in S : x <= Max(S)
  <1> DEFINE Less == {ss \in Nat \X Nat : ss[1] < ss[2]}
             B == {m \in Nat : \A x \in S : x <= m}
  <1>1. IsWellFoundedOn(Less, Nat)
    BY NatLessThanWellFounded, Zenon DEF OpToRel
  <1>2. B \subseteq Nat /\ B # {}
    OBVIOUS
  <1>3. PICK m \in B : \A y \in B : ~ (<<y, m>> \in Less)
    <2> HIDE DEF Less, B
    <2> QED BY <1>1, <1>2, WFMin
  <1>4. \A y \in B : ~(y < m)
    <2> SUFFICES ASSUME NEW y \in B, y < m PROVE FALSE
      OBVIOUS
    <2>1. <<y, m>> \in Nat \X Nat /\ <<y, m>>[1] < <<y, m>>[2]
      OBVIOUS
    <2> QED BY <1>3, <2>1
  <1>5. m \in S
    <2> SUFFICES ASSUME m \notin S PROVE FALSE
      OBVIOUS
    <2>1. PICK x \in S : x \in Nat
      OBVIOUS
    <2>2. m \in Nat /\ \A y \in S : y <= m /\ y # m
      OBVIOUS
    <2>3. m - 1 \in Nat /\ \A y \in S : y <= m - 1
      BY <2>1, <2>2
    <2> QED BY <1>4, <2>2, <2>3
  <1>6. \E x \in S : \A y \in S : x >= y
    BY <1>5
  <1>7. Max(S) \in S /\ \A y \in S : Max(S) >= y
    BY <1>6 DEF Max
  <1> QED BY <1>7

\* The parts of a row's key, its index key and its fact.
LEMMA RowParts ==
    ASSUME NEW r \in CatRow
    PROVE  /\ Fact(r)[1] = r.kind /\ Fact(r)[2] = r.parent /\ Fact(r)[3] = r.id /\ Fact(r)[4] = r.begin
           /\ r.kind \in CatKind /\ r.parent \in Nat /\ r.id \in Nat /\ r.begin \in Nat /\ r.end \in Nat
  BY DEF Fact, CatRow

\* When two rows have one key, one index key, one fact.
LEMMA SameKey ==
    ASSUME NEW r \in CatRow, NEW x \in CatRow
    PROVE  /\ Key(r) = Key(x) <=> /\ r.kind = x.kind /\ r.parent = x.parent /\ r.id = x.id
                                  /\ r.kind \in {"table", "view"} => r.begin = x.begin
           /\ IndexKey(r) = IndexKey(x) <=> r.parent = x.parent /\ r.begin = x.begin /\ r.id = x.id
           /\ Fact(r) = Fact(x) <=> /\ r.kind = x.kind /\ r.parent = x.parent /\ r.id = x.id
                                    /\ r.begin = x.begin
  BY DEF Key, IndexKey, Fact, CatRow

\* A row that ends is the row with another end.
LEMMA EndedRow ==
    ASSUME NEW r \in CatRow, NEW s \in Nat
    PROVE  LET x == [r EXCEPT !.end = s]
           IN  /\ x \in CatRow /\ x.kind = r.kind /\ x.parent = r.parent /\ x.id = r.id
               /\ x.begin = r.begin /\ x.end = s
               /\ Key(x) = Key(r) /\ IndexKey(x) = IndexKey(r) /\ Fact(x) = Fact(r)
  BY DEF Key, IndexKey, Fact, CatRow

\* A row as it is exported is the row with fewer columns.
LEMMA JsonRow ==
    ASSUME NEW r \in CatRow
    PROVE  /\ ToJson(r) \in CatRow /\ ToJson(r).kind = r.kind /\ ToJson(r).parent = r.parent
           /\ ToJson(r).id = r.id /\ ToJson(r).begin = r.begin /\ ToJson(r).end = r.end
           /\ Key(ToJson(r)) = Key(r) /\ IndexKey(ToJson(r)) = IndexKey(r) /\ Fact(ToJson(r)) = Fact(r)
  BY DEF ToJson, Key, IndexKey, Fact, CatRow

\* The counter that repair derives is the least above all ids in use.
LEMMA CorrectFacts ==
    ASSUME NEW d, AnyDb(d), Bounded(d.rows), Bounded(d.snaps), NEW c \in CounterName
    PROVE  /\ Correct(d, c) \in Nat /\ Correct(d, c) >= 1
           /\ \A i \in InUse(d, c) : i \in Nat /\ i < Correct(d, c)
           /\ Correct(d, c) = 1 \/ Correct(d, c) - 1 \in InUse(d, c)
  <1>1. PICK n \in Nat : \A x \in d.rows : x.id \in 0..n
    BY DEF Bounded
  <1>2. PICK m \in Nat : \A x \in d.snaps : x.id \in 0..m
    BY DEF Bounded
  <1>3. InUse(d, c) \in SUBSET Nat /\ \A i \in InUse(d, c) : i <= n + m
    <2>1. \A x \in d.rows : x.id \in Nat
      BY DEF AnyDb, CatRow
    <2>2. CASE c = "snap"
      BY <1>1, <1>2, <2>2 DEF InUse, AnyDb
    <2>3. CASE c = "cat"
      BY <1>1, <1>2, <2>1, <2>3 DEF InUse, TableIds
    <2>4. CASE c = "file"
      BY <1>1, <1>2, <2>1, <2>4 DEF InUse
    <2> QED BY <2>2, <2>3, <2>4 DEF CounterName
  <1> DEFINE S == InUse(d, c) \cup {0}
  <1>4. S \in SUBSET Nat /\ S # {} /\ \A i \in S : i <= n + m
    BY <1>3
  <1>5. Max(S) \in S /\ \A i \in S : i <= Max(S)
    <2>1. n + m \in Nat
      OBVIOUS
    <2> HIDE DEF S
    <2> QED BY <1>4, <2>1, MaxExists
  <1>6. Correct(d, c) = Max(S) + 1
    BY DEF Correct
  <1> HIDE DEF S
  <1>7. Max(S) \in Nat
    BY <1>4, <1>5
  <1>8. \A i \in InUse(d, c) : i \in Nat /\ i < Correct(d, c)
    <2> SUFFICES ASSUME NEW i \in InUse(d, c) PROVE i \in Nat /\ i < Correct(d, c)
      OBVIOUS
    <2>1. i \in Nat
      BY <1>3
    <2>2. i <= Max(S)
      BY <1>5 DEF S
    <2> QED BY <1>6, <1>7, <2>1, <2>2
  <1>9. Correct(d, c) = 1 \/ Correct(d, c) - 1 \in InUse(d, c)
    <2>1. CASE Max(S) = 0
      BY <1>6, <2>1
    <2>2. CASE Max(S) # 0
      <3>1. Max(S) \in InUse(d, c)
        BY <1>5, <2>2 DEF S
      <3>2. Correct(d, c) - 1 = Max(S)
        BY <1>6, <1>7
      <3> QED BY <3>1, <3>2
    <2> QED BY <2>1, <2>2
  <1> QED BY <1>6, <1>7, <1>8, <1>9

-----------------------------------------------------------------------------
\* Commits

\* A new object of a commit that moves the counter c.
Begun(d, t, c) ==
    /\ t.kind \in Versioned /\ t.begin = d.counter["snap"] /\ t.end = NoEnd
    /\ t.id = IdCounter(d, t.kind)
    /\ t.kind \in {"table", "view"} => c = "cat"
    /\ t.kind \in {"file", "delfile"} => c = "file"
    /\ t.kind = "inline" => t.parent \in Ids(d, "table")

\* A row that no reader sees.
Apart(d, t) ==
    /\ t.kind \in {"stat", "marker"} /\ t.begin \in {0, d.counter["snap"]} /\ t.end = NoEnd
    /\ t.id = 0

\* The rows that a commit puts.
Adds(d, T, c) == UniqueKeys(T) /\ \A t \in T : Begun(d, t, c) \/ Apart(d, t)

Drops(d, T) == \E t \in Ids(d, "table") : T = Retired(d, Cascade(d, t))

\* The catalog e is d after a commit of the rows T with the index entries I.
Becomes(d, e, T, I, c) ==
    /\ AnyDb(e) /\ e.fv = d.fv /\ e.rows = Put(d.rows, T) /\ e.index = PutIndex(d.index, I)
    /\ \A k \in CounterName :
           e.counter[k] = IF k \in {"snap", c} THEN d.counter[k] + 1 ELSE d.counter[k]
    /\ {x.id : x \in e.snaps} = {x.id : x \in d.snaps} \cup {d.counter["snap"]}
    /\ \A x \in d.snaps : x.id # d.counter["snap"] => x \in e.snaps
    /\ UniqueIds(d.snaps) => UniqueIds(e.snaps)

\* What a commit makes of a catalog.
LEMMA CommittedParts ==
    ASSUME NEW d, AnyDb(d), NEW T \in SUBSET CatRow, NEW I \in SUBSET CatRow,
           NEW c \in CounterName, NEW ddl, NEW e, e = Committed(d, T, I, c, ddl)
    PROVE  Becomes(d, e, T, I, c)
  <1> DEFINE n == [id |-> d.counter["snap"], sv |-> SchemaVersion(d) + (IF ddl THEN 1 ELSE 0)]
             cs == [k \in DOMAIN d.counter |->
                       IF k \in {"snap", c} THEN d.counter[k] + 1 ELSE d.counter[k]]
             ss == {x \in d.snaps : x.id # d.counter["snap"]} \cup {n}
  <1>1. e = [d EXCEPT !.rows = Put(d.rows, T), !.index = PutIndex(d.index, I), !.snaps = ss,
                      !.counter = cs]
    BY DEF Committed
  <1> HIDE DEF n, cs, ss
  <1>2. /\ e = [fv |-> d.fv, counter |-> cs, snaps |-> ss, rows |-> Put(d.rows, T),
                index |-> PutIndex(d.index, I)]
    <2>1. d = [fv |-> d.fv, counter |-> d.counter, snaps |-> d.snaps, rows |-> d.rows, index |-> d.index]
      BY DEF AnyDb
    <2> QED BY <1>1, <2>1
  <1>3. /\ e.fv = d.fv /\ e.counter = cs /\ e.snaps = ss /\ e.rows = Put(d.rows, T)
        /\ e.index = PutIndex(d.index, I)
    BY <1>2
  <1>4. d.counter \in [CounterName -> Nat] /\ d.counter["snap"] \in Nat
    BY DEF AnyDb, CounterName
  <1>5. cs \in [CounterName -> Nat]
    BY <1>4 DEF cs
  <1>6. \A k \in CounterName :
            cs[k] = IF k \in {"snap", c} THEN d.counter[k] + 1 ELSE d.counter[k]
    BY <1>4 DEF cs
  <1>7. n.id = d.counter["snap"]
    BY DEF n
  <1>8. /\ \A x \in ss : x.id \in Nat
        /\ {x.id : x \in ss} = {x.id : x \in d.snaps} \cup {d.counter["snap"]}
        /\ \A x \in d.snaps : x.id # d.counter["snap"] => x \in ss
        /\ UniqueIds(d.snaps) => UniqueIds(ss)
    BY <1>4, <1>7 DEF ss, AnyDb, UniqueIds
  <1>9. Put(d.rows, T) \in SUBSET CatRow /\ PutIndex(d.index, I) \in SUBSET CatRow
    BY DEF Put, PutIndex, AnyDb
  <1>10. AnyDb(e)
    BY <1>2, <1>3, <1>5, <1>8, <1>9 DEF AnyDb
  <1> QED BY <1>3, <1>6, <1>8, <1>10 DEF Becomes

\* The row that a commit creates.
LEMMA NewRow ==
    ASSUME NEW d, AnyDb(d), NEW kind \in CatKind, NEW parent \in Nat, NEW id \in Nat,
           NEW t, t = New(d, kind, parent, id)
    PROVE  /\ t \in CatRow /\ t.kind = kind /\ t.parent = parent /\ t.id = id
           /\ t.begin = d.counter["snap"] /\ t.end = NoEnd
  <1>1. d.counter["snap"] \in Nat
    BY DEF AnyDb, CounterName
  <1> QED BY <1>1 DEF New, CatRow, NoEnd

\* Every commit adds or drops, and its index entries are those of its files.
LEMMA CommitShape ==
    ASSUME NEW d, AnyDb(d), NEW e \in Commits(d)
    PROVE  \E T \in SUBSET CatRow, c \in CounterName, ddl \in BOOLEAN :
               /\ e = Committed(d, T, FileRows(T), c, ddl)
               /\ Adds(d, T, c) \/ Drops(d, T)
  <1> DEFINE Goal == \E T \in SUBSET CatRow, c \in CounterName, ddl \in BOOLEAN :
                         /\ e = Committed(d, T, FileRows(T), c, ddl)
                         /\ Adds(d, T, c) \/ Drops(d, T)
  <1>1. /\ d.counter["snap"] \in Nat /\ d.counter["cat"] \in Nat /\ d.counter["file"] \in Nat
        /\ "snap" \in CounterName /\ "cat" \in CounterName /\ "file" \in CounterName
        /\ d.rows \in SUBSET CatRow
    BY DEF AnyDb, CounterName
  <1>2. \A kind : Ids(d, kind) \in SUBSET Nat
    BY <1>1 DEF Ids, CatRow
  <1>3. ASSUME NEW t \in CatRow, NEW c \in CounterName, Begun(d, t, c) \/ Apart(d, t), t.kind # "file",
               NEW ddl \in BOOLEAN, e = Committed(d, {t}, {}, c, ddl)
        PROVE  Goal
    <2>1. FileRows({t}) = {} /\ Adds(d, {t}, c)
      BY <1>3 DEF FileRows, Adds, UniqueKeys
    <2> QED BY <1>3, <2>1
  <1>4. ASSUME NEW k \in {"table", "view"},
               e = Committed(d, {New(d, k, 0, d.counter["cat"])}, {}, "cat", TRUE)
        PROVE  Goal
    <2>1. PICK t : t = New(d, k, 0, d.counter["cat"])
      OBVIOUS
    <2>2. /\ t \in CatRow /\ t.kind = k /\ t.id = d.counter["cat"]
          /\ t.begin = d.counter["snap"] /\ t.end = NoEnd
      BY <1>1, <2>1, NewRow DEF CatKind
    <2>3. Begun(d, t, "cat")
      BY <2>2 DEF Begun, IdCounter, Versioned
    <2> QED BY <1>1, <1>3, <1>4, <2>1, <2>2, <2>3
  <1>5. ASSUME NEW t \in Ids(d, "table"), NEW f, f = New(d, "file", t, d.counter["file"]),
               NEW stat, stat = [New(d, "stat", t, 0) EXCEPT !.begin = 0],
               e = Committed(d, {f, stat}, {f}, "file", FALSE)
        PROVE  Goal
    <2>1. /\ f \in CatRow /\ f.kind = "file" /\ f.id = d.counter["file"]
          /\ f.begin = d.counter["snap"] /\ f.end = NoEnd
      BY <1>1, <1>2, <1>5, NewRow DEF CatKind
    <2>2. /\ stat \in CatRow /\ stat.kind = "stat" /\ stat.id = 0 /\ stat.begin = 0 /\ stat.end = NoEnd
      BY <1>2, <1>5 DEF New, CatRow, CatKind, NoEnd
    <2>3. Begun(d, f, "file") /\ Apart(d, stat)
      BY <2>1, <2>2 DEF Begun, Apart, IdCounter, Versioned
    <2>4. UniqueKeys({f, stat})
      BY <2>1, <2>2, SameKey DEF UniqueKeys
    <2>5. FileRows({f, stat}) = {f} /\ Adds(d, {f, stat}, "file")
      BY <2>1, <2>2, <2>3, <2>4 DEF FileRows, Adds
    <2>6. {f, stat} \in SUBSET CatRow
      BY <2>1, <2>2
    <2> QED BY <1>1, <1>5, <2>5, <2>6
  <1>6. ASSUME NEW f \in Ids(d, "file"),
               e = Committed(d, {New(d, "delfile", f, d.counter["file"])}, {}, "file", FALSE)
        PROVE  Goal
    <2>0. "delfile" \in CatKind /\ f \in Nat /\ d.counter["file"] \in Nat
      BY <1>1, <1>2 DEF CatKind
    <2>1. PICK t : t = New(d, "delfile", f, d.counter["file"])
      OBVIOUS
    <2>2. /\ t \in CatRow /\ t.kind = "delfile" /\ t.id = d.counter["file"]
          /\ t.begin = d.counter["snap"] /\ t.end = NoEnd
      BY ONLY AnyDb(d), <2>0, <2>1, NewRow
    <2>3. Begun(d, t, "file")
      BY <2>2 DEF Begun, IdCounter, Versioned
    <2> QED BY <1>1, <1>3, <1>6, <2>1, <2>2, <2>3
  <1>7. ASSUME NEW f \in Ids(d, "file"),
               e = Committed(d, {New(d, "marker", f, 0)}, {}, "snap", FALSE)
        PROVE  Goal
    <2>1. PICK t : t = New(d, "marker", f, 0)
      OBVIOUS
    <2>2. /\ t \in CatRow /\ t.kind = "marker" /\ t.id = 0
          /\ t.begin = d.counter["snap"] /\ t.end = NoEnd
      BY <1>1, <1>2, <2>1, NewRow DEF CatKind
    <2>3. Apart(d, t)
      BY <2>2 DEF Apart
    <2> QED BY <1>1, <1>3, <1>7, <2>1, <2>2, <2>3
  <1>8. ASSUME NEW p \in Ids(d, "table"),
               e = Committed(d, {New(d, "inline", p, d.counter["snap"])}, {}, "snap", FALSE)
        PROVE  Goal
    <2>0. "inline" \in CatKind /\ p \in Nat /\ d.counter["snap"] \in Nat
      BY <1>1, <1>2 DEF CatKind
    <2>1. PICK t : t = New(d, "inline", p, d.counter["snap"])
      OBVIOUS
    <2>2. /\ t \in CatRow /\ t.kind = "inline" /\ t.id = d.counter["snap"] /\ t.parent = p
          /\ t.begin = d.counter["snap"] /\ t.end = NoEnd
      BY ONLY AnyDb(d), <2>0, <2>1, NewRow
    <2>3. Begun(d, t, "snap")
      BY <2>2 DEF Begun, IdCounter, Versioned
    <2> QED BY <1>1, <1>3, <1>8, <2>1, <2>2, <2>3
  <1>9. ASSUME NEW t \in Ids(d, "table"), NEW gone, gone = Retired(d, Cascade(d, t)),
               e = Committed(d, gone, {r \in gone : r.kind = "file"}, "snap", TRUE)
        PROVE  Goal
    <2>1. Cascade(d, t) \in SUBSET CatRow
      BY <1>1 DEF Cascade
    <2>2. gone \in SUBSET CatRow
      BY <1>1, <1>9, <2>1, EndedRow DEF Retired
    <2>3. Drops(d, gone)
      BY <1>9 DEF Drops
    <2>4. FileRows(gone) = {r \in gone : r.kind = "file"}
      BY DEF FileRows
    <2> QED BY <1>1, <1>9, <2>2, <2>3, <2>4
  <1>10. \/ \E k \in {"table", "view"} :
                e = Committed(d, {New(d, k, 0, d.counter["cat"])}, {}, "cat", TRUE)
         \/ \E t \in Ids(d, "table") :
                e = LET f == New(d, "file", t, d.counter["file"])
                        stat == [New(d, "stat", t, 0) EXCEPT !.begin = 0]
                    IN  Committed(d, {f, stat}, {f}, "file", FALSE)
         \/ \E f \in Ids(d, "file") :
                e = Committed(d, {New(d, "delfile", f, d.counter["file"])}, {}, "file", FALSE)
         \/ \E f \in Ids(d, "file") : e = Committed(d, {New(d, "marker", f, 0)}, {}, "snap", FALSE)
         \/ \E t \in Ids(d, "table") :
                e = Committed(d, {New(d, "inline", t, d.counter["snap"])}, {}, "snap", FALSE)
         \/ \E t \in Ids(d, "table") :
                e = LET gone == Retired(d, Cascade(d, t))
                    IN  Committed(d, gone, {r \in gone : r.kind = "file"}, "snap", TRUE)
    BY Zenon DEF Commits
  <1> HIDE DEF Goal
  <1>11. Goal
    BY <1>4, <1>5, <1>6, <1>7, <1>8, <1>9, <1>10
  <1> QED BY <1>11 DEF Goal

\* A commit, as the catalog that it leaves behind.
LEMMA CommitBecomes ==
    ASSUME NEW d, AnyDb(d), NEW e \in Commits(d)
    PROVE  \E T \in SUBSET CatRow, c \in CounterName :
               Becomes(d, e, T, FileRows(T), c) /\ (Adds(d, T, c) \/ Drops(d, T))
  <1>1. PICK T \in SUBSET CatRow, c \in CounterName, ddl \in BOOLEAN :
            /\ e = Committed(d, T, FileRows(T), c, ddl)
            /\ Adds(d, T, c) \/ Drops(d, T)
    BY CommitShape
  <1>2. FileRows(T) \in SUBSET CatRow
    BY DEF FileRows
  <1>3. Becomes(d, e, T, FileRows(T), c)
    BY <1>1, <1>2, CommittedParts
  <1> QED BY <1>1, <1>3

\* Readers find the data files through the index, which has just those.
LEMMA AtFacts ==
    ASSUME NEW d, d.index = FileRows(d.rows), NEW s
    PROVE  At(d, s) = FactsAt(d.rows, s)
  <1>1. {x \in d.index : Visible(x, s)} \cup {x \in d.rows : x.kind \in Versioned \ {"file"} /\ Visible(x, s)}
            = {x \in d.rows : x.kind \in Versioned /\ Visible(x, s)}
    BY DEF FileRows, Versioned
  <1> QED BY <1>1 DEF At, FactsAt

\* The rows of such a catalog.
LEMMA OwnRows ==
    ASSUME NEW d, OwnDb(d)
    PROVE  /\ d.counter["snap"] \in Nat /\ d.counter["cat"] \in Nat /\ d.counter["file"] \in Nat
           /\ d.counter["snap"] >= 2 /\ Latest(d) \in Nat /\ Latest(d) = d.counter["snap"] - 1
           /\ d.rows \in SUBSET CatRow
           /\ \A r \in d.rows : Live(r) <=> Visible(r, Latest(d))
           /\ \A r \in d.rows : Visible(r, Latest(d)) <=> Visible(r, Latest(d) + 1)
  <1>1. /\ d.counter["snap"] \in Nat /\ d.counter["cat"] \in Nat /\ d.counter["file"] \in Nat
        /\ d.counter["snap"] >= 2 /\ d.rows \in SUBSET CatRow
    BY DEF OwnDb, AnyDb, CounterName
  <1>2. Latest(d) = d.counter["snap"] - 1 /\ Latest(d) \in Nat
    BY <1>1 DEF Latest
  <1>3. \A r \in d.rows : r.begin \in Nat /\ r.end \in Nat /\ r.begin <= Latest(d) /\ r.end <= Latest(d)
    BY <1>1 DEF OwnDb, CatRow
  <1>4. \A r \in d.rows : /\ Live(r) <=> Visible(r, Latest(d))
                          /\ Visible(r, Latest(d)) <=> Visible(r, Latest(d) + 1)
    BY <1>2, <1>3 DEF Live, Visible, NoEnd
  <1> QED BY <1>1, <1>2, <1>4

\* The live inlined rows have a live table.
LEMMA LiveRooted ==
    ASSUME NEW d, OwnDb(d), Rooted(FactsAt(d.rows, Latest(d))),
           NEW x \in d.rows, x.kind = "inline", Live(x)
    PROVE  \E y \in d.rows : y.kind = "table" /\ Live(y) /\ y.id = x.parent
  <1>1. x \in CatRow /\ Visible(x, Latest(d)) /\ d.rows \in SUBSET CatRow
    BY OwnRows
  <1>2. Fact(x) \in FactsAt(d.rows, Latest(d)) /\ Fact(x)[1] = "inline" /\ Fact(x)[2] = x.parent
    BY <1>1, RowParts DEF FactsAt, Versioned
  <1>3. PICK g \in FactsAt(d.rows, Latest(d)) : g[1] = "table" /\ g[3] = x.parent
    BY <1>2 DEF Rooted
  <1>4. PICK y \in d.rows : Visible(y, Latest(d)) /\ Fact(y) = g
    BY <1>3 DEF FactsAt
  <1>5. Live(y) /\ y.kind = "table" /\ y.id = x.parent
    BY <1>1, <1>3, <1>4, OwnRows, RowParts
  <1> QED BY <1>5

\* A table that can be named is live.
LEMMA NamedTable ==
    ASSUME NEW d, OwnDb(d), NEW t \in Ids(d, "table")
    PROVE  \E y \in d.rows : y.kind = "table" /\ Live(y) /\ y.id = t
  <1>1. PICK y \in d.rows : y.kind = "table" /\ Visible(y, Latest(d)) /\ y.id = t
    BY DEF Ids
  <1> QED BY <1>1, OwnRows

\* What is to be shown of the next catalog e.
NextOwn(d, e) ==
    /\ e.index = FileRows(e.rows)
    /\ UniqueKeys(e.rows)
    /\ \A r \in e.rows :
           /\ Proper(r) /\ r.begin <= Latest(d) + 1 /\ r.end <= Latest(d) + 1
           /\ r.kind \in Versioned => r.id < IdCounter(e, r.kind)
    /\ \A s \in 1..Latest(d) : FactsAt(e.rows, s) = FactsAt(d.rows, s)
    /\ Rooted(FactsAt(d.rows, Latest(d))) => Rooted(FactsAt(e.rows, Latest(d) + 1))

\* A commit that adds rows shows earlier snapshots as they were.
LEMMA AddsOwn ==
    ASSUME NEW d, OwnDb(d), NEW T \in SUBSET CatRow, NEW c \in CounterName, Adds(d, T, c),
           NEW e, e.rows = Put(d.rows, T), e.index = PutIndex(d.index, FileRows(T)),
           \A k \in CounterName :
               e.counter[k] = IF k \in {"snap", c} THEN d.counter[k] + 1 ELSE d.counter[k]
    PROVE  NextOwn(d, e)
  <1> DEFINE L == Latest(d)
             Stay == {x \in d.rows : \A t \in T : Key(x) # Key(t)}
  <1>1. /\ d.counter["snap"] \in Nat /\ d.counter["cat"] \in Nat /\ d.counter["file"] \in Nat
        /\ L \in Nat /\ d.counter["snap"] = L + 1 /\ d.rows \in SUBSET CatRow
    BY OwnRows
  <1>2. e.rows = Stay \cup T /\ Stay \in SUBSET d.rows
    BY DEF Put
  <1>3. ASSUME NEW x \in d.rows, NEW t \in T, x.kind \in Versioned, x.kind = t.kind
        PROVE  x.id < t.id
    <2>1. Begun(d, t, c)
      BY <1>3 DEF Adds, Apart, Versioned
    <2> QED BY <1>3, <2>1 DEF Begun, OwnDb
  <1>4. \A x \in d.rows : x.kind \in Versioned => x \in Stay
    <2> SUFFICES ASSUME NEW x \in d.rows, x.kind \in Versioned, NEW t \in T, Key(x) = Key(t)
                 PROVE  FALSE
      OBVIOUS
    <2>1. x \in CatRow /\ t \in CatRow
      BY <1>1
    <2>2. x.kind = t.kind /\ x.id = t.id
      BY <2>1, SameKey
    <2>3. x.id \in Nat
      BY <2>1, RowParts
    <2> QED BY <1>3, <2>2, <2>3
  <1>5. e.index = FileRows(e.rows)
    <2>1. ASSUME NEW x \in FileRows(d.rows), NEW t \in FileRows(T)
          PROVE  IndexKey(x) # IndexKey(t)
      <3>1. x \in CatRow /\ t \in CatRow /\ x \in d.rows /\ t \in T /\ x.kind = "file" /\ t.kind = "file"
        BY <1>1 DEF FileRows
      <3>2. x.id < t.id /\ x.id \in Nat /\ t.id \in Nat
        BY <1>3, <3>1, RowParts DEF Versioned
      <3> QED BY <3>1, <3>2, SameKey
    <2>2. e.index = FileRows(d.rows) \cup FileRows(T)
      BY <2>1 DEF PutIndex, OwnDb
    <2>3. FileRows(d.rows) = FileRows(Stay)
      BY <1>2, <1>4 DEF FileRows, Versioned
    <2> QED BY <1>2, <2>2, <2>3 DEF FileRows
  <1>6. UniqueKeys(e.rows)
    BY <1>2 DEF UniqueKeys, Adds, OwnDb
  <1>7. ASSUME NEW r \in e.rows
        PROVE  /\ Proper(r) /\ r.begin <= L + 1 /\ r.end <= L + 1
               /\ r.kind \in Versioned => r.id < IdCounter(e, r.kind)
    <2>1. r \in CatRow /\ r.id \in Nat /\ r.begin \in Nat /\ r.end \in Nat
      BY <1>1, <1>2, RowParts
    <2>2. /\ e.counter["snap"] = d.counter["snap"] + 1
          /\ e.counter["cat"] = d.counter["cat"] + (IF c = "cat" THEN 1 ELSE 0)
          /\ e.counter["file"] = d.counter["file"] + (IF c = "file" THEN 1 ELSE 0)
      BY <1>1 DEF CounterName
    <2>3. CASE r \in Stay
      <3>1. /\ Proper(r) /\ r.begin <= L /\ r.end <= L
            /\ r.kind \in Versioned => r.id < IdCounter(d, r.kind)
        BY <2>3 DEF OwnDb
      <3>2. r.kind \in Versioned => r.id < IdCounter(e, r.kind)
        BY <1>1, <2>1, <2>2, <3>1 DEF IdCounter, Versioned
      <3> QED BY <1>1, <2>1, <3>1, <3>2
    <2>4. CASE r \in T
      <3>1. CASE Begun(d, r, c)
        BY <1>1, <2>2, <3>1 DEF Begun, IdCounter, Versioned, Proper, NoEnd
      <3>2. CASE Apart(d, r)
        BY <1>1, <3>2 DEF Apart, Versioned, Proper, NoEnd
      <3> QED BY <2>4, <3>1, <3>2 DEF Adds
    <2> QED BY <1>2, <2>3, <2>4
  <1>8. ASSUME NEW s \in 1..L
        PROVE  FactsAt(e.rows, s) = FactsAt(d.rows, s)
    <2>1. ASSUME NEW t \in T, t.kind \in Versioned
          PROVE  ~Visible(t, s)
      BY <1>1, <2>1 DEF Adds, Begun, Apart, Visible, Versioned
    <2>2. {x \in e.rows : x.kind \in Versioned /\ Visible(x, s)} =
              {x \in d.rows : x.kind \in Versioned /\ Visible(x, s)}
      BY <1>2, <1>4, <2>1
    <2> QED BY <2>2 DEF FactsAt
  <1>9. ASSUME Rooted(FactsAt(d.rows, L))
        PROVE  Rooted(FactsAt(e.rows, L + 1))
    <2>1. SUFFICES ASSUME NEW f \in FactsAt(e.rows, L + 1), f[1] = "inline"
                   PROVE  \E g \in FactsAt(e.rows, L + 1) : g[1] = "table" /\ g[3] = f[2]
      BY DEF Rooted
    <2>2. PICK x \in e.rows : x.kind \in Versioned /\ Visible(x, L + 1) /\ Fact(x) = f
      BY DEF FactsAt
    <2>3. x \in CatRow /\ x.kind = "inline" /\ x.parent = f[2]
      BY <1>1, <1>2, <2>1, <2>2, RowParts
    <2>4. \E y \in d.rows : y.kind = "table" /\ Live(y) /\ y.id = x.parent
      <3>1. CASE x \in T
        <4>1. x.parent \in Ids(d, "table")
          BY <2>3, <3>1 DEF Adds, Begun, Apart
        <4> QED BY <4>1, NamedTable
      <3>2. CASE x \in d.rows
        <4>1. Live(x)
          BY <2>2, <3>2, OwnRows
        <4> QED BY <1>9, <2>3, <3>2, <4>1, LiveRooted
      <3> QED BY <1>2, <3>1, <3>2
    <2>5. PICK y \in d.rows : y.kind = "table" /\ Live(y) /\ y.id = x.parent
      BY <2>4
    <2>6. y \in e.rows /\ Visible(y, L + 1) /\ y \in CatRow
      BY <1>1, <1>2, <1>4, <2>5, OwnRows DEF Versioned
    <2>7. Fact(y) \in FactsAt(e.rows, L + 1) /\ Fact(y)[1] = "table" /\ Fact(y)[3] = f[2]
      BY <2>3, <2>5, <2>6, RowParts DEF FactsAt, Versioned
    <2> QED BY <2>7
  <1> QED BY <1>5, <1>6, <1>7, <1>8, <1>9 DEF NextOwn

\* The rows that end are live and versioned, and end in their place.
LEMMA CascadeEnds ==
    ASSUME NEW d, AnyDb(d), NEW t
    PROVE  /\ Cascade(d, t) \in SUBSET d.rows
           /\ \A r \in Cascade(d, t) : Live(r) /\ r.kind \in Versioned /\ (r.kind = "table" => r.id = t)
           /\ \A r \in d.rows : r.kind = "inline" /\ r.parent = t /\ Live(r) => r \in Cascade(d, t)
           /\ Retired(d, Cascade(d, t)) \in SUBSET CatRow
           /\ \A x \in Retired(d, Cascade(d, t)) : \E r \in Cascade(d, t) :
                  /\ x = [r EXCEPT !.end = d.counter["snap"]]
                  /\ x.kind = r.kind /\ x.parent = r.parent /\ x.id = r.id
                  /\ x.begin = r.begin /\ x.end = d.counter["snap"] /\ Key(x) = Key(r)
                  /\ IndexKey(x) = IndexKey(r) /\ Fact(x) = Fact(r)
           /\ \A r \in Cascade(d, t) : \E x \in Retired(d, Cascade(d, t)) :
                  /\ x.kind = r.kind /\ x.begin = r.begin /\ x.end = d.counter["snap"]
                  /\ Key(x) = Key(r) /\ IndexKey(x) = IndexKey(r) /\ Fact(x) = Fact(r)
  <1>1. d.counter["snap"] \in Nat /\ d.rows \in SUBSET CatRow
    BY DEF AnyDb, CounterName
  <1>2. /\ Cascade(d, t) \in SUBSET d.rows
        /\ \A r \in Cascade(d, t) : Live(r) /\ r.kind \in Versioned /\ (r.kind = "table" => r.id = t)
        /\ \A r \in d.rows : r.kind = "inline" /\ r.parent = t /\ Live(r) => r \in Cascade(d, t)
    BY DEF Cascade, Versioned
  <1> DEFINE C == Cascade(d, t)
             End(r) == [r EXCEPT !.end = d.counter["snap"]]
  <1>3. \A r \in C : r \in CatRow
    BY <1>1, <1>2
  <1>4. \A r \in C : /\ End(r) \in CatRow /\ End(r).kind = r.kind /\ End(r).parent = r.parent
                     /\ End(r).id = r.id /\ End(r).begin = r.begin /\ End(r).end = d.counter["snap"]
                     /\ Key(End(r)) = Key(r) /\ IndexKey(End(r)) = IndexKey(r) /\ Fact(End(r)) = Fact(r)
    BY <1>1, <1>3, EndedRow
  <1>5. Retired(d, C) = {End(r) : r \in C}
    BY DEF Retired
  <1> HIDE DEF C, End
  <1>6. /\ Retired(d, C) \in SUBSET CatRow
        /\ \A x \in Retired(d, C) : \E r \in C :
               /\ x = End(r) /\ x.kind = r.kind /\ x.parent = r.parent /\ x.id = r.id
               /\ x.begin = r.begin /\ x.end = d.counter["snap"] /\ Key(x) = Key(r)
               /\ IndexKey(x) = IndexKey(r) /\ Fact(x) = Fact(r)
        /\ \A r \in C : \E x \in Retired(d, C) :
               /\ x.kind = r.kind /\ x.begin = r.begin /\ x.end = d.counter["snap"]
               /\ Key(x) = Key(r) /\ IndexKey(x) = IndexKey(r) /\ Fact(x) = Fact(r)
    BY <1>4, <1>5
  <1> QED BY <1>2, <1>6 DEF C, End

\* A commit that drops a table ends its rows and shows earlier snapshots as they
\* were.
LEMMA DropsOwn ==
    ASSUME NEW d, OwnDb(d), NEW T, Drops(d, T), NEW c \in CounterName,
           NEW e, e.rows = Put(d.rows, T), e.index = PutIndex(d.index, FileRows(T)),
           \A k \in CounterName :
               e.counter[k] = IF k \in {"snap", c} THEN d.counter[k] + 1 ELSE d.counter[k]
    PROVE  NextOwn(d, e)
  <1>1. PICK t \in Ids(d, "table") : T = Retired(d, Cascade(d, t))
    BY DEF Drops
  <1> DEFINE L == Latest(d)
             C == Cascade(d, t)
  <1>2. /\ d.counter["snap"] \in Nat /\ d.counter["cat"] \in Nat /\ d.counter["file"] \in Nat
        /\ L \in Nat /\ d.counter["snap"] = L + 1 /\ d.rows \in SUBSET CatRow
    BY OwnRows
  <1>3. AnyDb(d) /\ UniqueKeys(d.rows) /\ d.index = FileRows(d.rows)
    BY DEF OwnDb
  <1>4. /\ C \in SUBSET d.rows /\ T \in SUBSET CatRow
        /\ \A r \in C : Live(r) /\ r.kind \in Versioned /\ (r.kind = "table" => r.id = t)
        /\ \A r \in d.rows : r.kind = "inline" /\ r.parent = t /\ Live(r) => r \in C
        /\ \A x \in T : \E r \in C :
               /\ x = [r EXCEPT !.end = d.counter["snap"]]
               /\ x.kind = r.kind /\ x.parent = r.parent /\ x.id = r.id
               /\ x.begin = r.begin /\ x.end = d.counter["snap"] /\ Key(x) = Key(r)
               /\ IndexKey(x) = IndexKey(r) /\ Fact(x) = Fact(r)
        /\ \A r \in C : \E x \in T :
               /\ x.kind = r.kind /\ x.begin = r.begin /\ x.end = d.counter["snap"]
               /\ Key(x) = Key(r) /\ IndexKey(x) = IndexKey(r) /\ Fact(x) = Fact(r)
    BY <1>1, <1>3, CascadeEnds
  <1> HIDE DEF C
  <1>5. e.rows = (d.rows \ C) \cup T
    <2>1. ASSUME NEW x \in d.rows
          PROVE  (\A y \in T : Key(x) # Key(y)) <=> x \notin C
      BY <1>3, <1>4 DEF UniqueKeys
    <2> QED BY <2>1 DEF Put
  <1>6. e.index = FileRows(e.rows)
    <2>1. ASSUME NEW x \in d.rows, x.kind = "file", NEW y \in T, y.kind = "file"
          PROVE  IndexKey(x) = IndexKey(y) <=> Key(x) = Key(y)
      <3>1. PICK r \in C : r.kind = "file" /\ IndexKey(r) = IndexKey(y) /\ Key(r) = Key(y)
        BY <1>4, <2>1
      <3>2. x \in CatRow /\ r \in CatRow /\ r \in d.rows
        BY <1>2, <1>4
      <3>3. IndexKey(x) = IndexKey(r) => Key(x) = Key(r)
        BY <2>1, <3>1, <3>2, SameKey
      <3>4. Key(x) = Key(r) => x = r
        BY <1>3, <3>2 DEF UniqueKeys
      <3> QED BY <3>1, <3>3, <3>4
    <2>2. ASSUME NEW x \in d.rows, x.kind = "file"
          PROVE  (\A y \in FileRows(T) : IndexKey(x) # IndexKey(y)) <=> x \notin C
      <3>1. (\A y \in FileRows(T) : IndexKey(x) # IndexKey(y)) <=>
                (\A y \in FileRows(T) : Key(x) # Key(y))
        BY <2>1, <2>2 DEF FileRows
      <3>2. (\A y \in FileRows(T) : Key(x) # Key(y)) <=> x \notin C
        BY <1>3, <1>4, <2>2 DEF UniqueKeys, FileRows
      <3> QED BY <3>1, <3>2
    <2>3. {x \in FileRows(d.rows) : \A y \in FileRows(T) : IndexKey(x) # IndexKey(y)} = FileRows(d.rows \ C)
      BY <2>2 DEF FileRows
    <2>4. e.index = FileRows(d.rows \ C) \cup FileRows(T)
      BY <1>3, <2>3 DEF PutIndex
    <2> QED BY <1>5, <2>4 DEF FileRows
  <1>7. UniqueKeys(e.rows)
    <2>1. \A x, y \in T : Key(x) = Key(y) => x = y
      BY <1>3, <1>4 DEF UniqueKeys
    <2>2. \A x \in d.rows \ C, y \in T : Key(x) # Key(y)
      BY <1>3, <1>4 DEF UniqueKeys
    <2> QED BY <1>3, <1>5, <2>1, <2>2 DEF UniqueKeys
  <1>8. ASSUME NEW r \in e.rows
        PROVE  /\ Proper(r) /\ r.begin <= L + 1 /\ r.end <= L + 1
               /\ r.kind \in Versioned => r.id < IdCounter(e, r.kind)
    <2>1. PICK x \in d.rows : /\ x.kind = r.kind /\ x.id = r.id /\ x.begin = r.begin
                              /\ r.end \in {x.end, L + 1}
      BY <1>2, <1>4, <1>5
    <2>2. /\ Proper(x) /\ x.begin <= L /\ x.end <= L
          /\ x.kind \in Versioned => x.id < IdCounter(d, x.kind)
      BY <2>1 DEF OwnDb
    <2>3. x \in CatRow /\ x.id \in Nat /\ x.begin \in Nat /\ x.end \in Nat
      BY <1>2, <2>1, RowParts
    <2>4. /\ e.counter["snap"] = d.counter["snap"] + 1
          /\ e.counter["cat"] >= d.counter["cat"] /\ e.counter["cat"] \in Nat
          /\ e.counter["file"] >= d.counter["file"] /\ e.counter["file"] \in Nat
      BY <1>2 DEF CounterName
    <2>5. x.kind \in Versioned => x.id < IdCounter(e, x.kind)
      BY <1>2, <2>2, <2>3, <2>4 DEF IdCounter, Versioned
    <2>6. Proper(r) /\ r.begin <= L + 1 /\ r.end <= L + 1
      BY <1>2, <2>1, <2>2, <2>3 DEF Proper
    <2> QED BY <2>1, <2>5, <2>6
  <1>9. ASSUME NEW s \in 1..L
        PROVE  FactsAt(e.rows, s) = FactsAt(d.rows, s)
    <2>1. ASSUME NEW r \in C, NEW x \in T, x.begin = r.begin, x.end = d.counter["snap"]
          PROVE  Visible(x, s) <=> Visible(r, s)
      <3>1. r \in CatRow /\ r.begin \in Nat /\ Live(r)
        BY <1>2, <1>4, RowParts
      <3> QED BY <1>2, <2>1, <3>1 DEF Visible, Live, NoEnd
    <2>2. \A x \in e.rows : x.kind \in Versioned /\ Visible(x, s) =>
              \E r \in d.rows : r.kind \in Versioned /\ Visible(r, s) /\ Fact(r) = Fact(x)
      <3> SUFFICES ASSUME NEW x \in e.rows, x.kind \in Versioned, Visible(x, s)
                   PROVE  \E r \in d.rows : r.kind \in Versioned /\ Visible(r, s) /\ Fact(r) = Fact(x)
        OBVIOUS
      <3>1. CASE x \in T
        <4>1. PICK r \in C : /\ x.kind = r.kind /\ x.begin = r.begin /\ x.end = d.counter["snap"]
                             /\ Fact(x) = Fact(r)
          BY <1>4, <3>1
        <4> QED BY <1>4, <2>1, <3>1, <4>1
      <3> QED BY <1>5, <3>1
    <2>3. \A r \in d.rows : r.kind \in Versioned /\ Visible(r, s) =>
              \E x \in e.rows : x.kind \in Versioned /\ Visible(x, s) /\ Fact(x) = Fact(r)
      <3> SUFFICES ASSUME NEW r \in d.rows, r.kind \in Versioned, Visible(r, s)
                   PROVE  \E x \in e.rows : x.kind \in Versioned /\ Visible(x, s) /\ Fact(x) = Fact(r)
        OBVIOUS
      <3>1. CASE r \in C
        <4>1. PICK x \in T : /\ x.kind = r.kind /\ x.begin = r.begin /\ x.end = d.counter["snap"]
                             /\ Fact(x) = Fact(r)
          BY <1>4, <3>1
        <4> QED BY <1>5, <2>1, <3>1, <4>1
      <3> QED BY <1>5, <3>1
    <2> QED BY <2>2, <2>3 DEF FactsAt
  <1>10. ASSUME Rooted(FactsAt(d.rows, L))
         PROVE  Rooted(FactsAt(e.rows, L + 1))
    <2>1. SUFFICES ASSUME NEW f \in FactsAt(e.rows, L + 1), f[1] = "inline"
                   PROVE  \E g \in FactsAt(e.rows, L + 1) : g[1] = "table" /\ g[3] = f[2]
      BY DEF Rooted
    <2>2. PICK x \in e.rows : x.kind \in Versioned /\ Visible(x, L + 1) /\ Fact(x) = f
      BY DEF FactsAt
    <2>3. x \notin T
      BY <1>2, <1>4, <2>2 DEF Visible, NoEnd
    <2>4. x \in d.rows /\ x \notin C /\ x \in CatRow
      BY <1>2, <1>5, <2>3
    <2>5. x.kind = "inline" /\ x.parent = f[2] /\ Live(x)
      BY <2>1, <2>2, <2>4, RowParts, OwnRows
    <2>6. PICK y \in d.rows : y.kind = "table" /\ Live(y) /\ y.id = x.parent
      BY <1>10, <2>4, <2>5, LiveRooted
    <2>7. y \notin C
      BY <1>4, <2>4, <2>5, <2>6
    <2>8. y \in e.rows /\ Visible(y, L + 1) /\ y \in CatRow
      BY <1>2, <1>5, <2>6, <2>7, OwnRows
    <2>9. Fact(y) \in FactsAt(e.rows, L + 1) /\ Fact(y)[1] = "table" /\ Fact(y)[3] = f[2]
      BY <2>5, <2>6, <2>8, RowParts DEF FactsAt, Versioned
    <2> QED BY <2>9
  <1> QED BY <1>6, <1>7, <1>8, <1>9, <1>10 DEF NextOwn

\* A commit makes a snapshot and changes none.
LEMMA OwnCommit ==
    ASSUME NEW d, OwnDb(d), NEW e \in Commits(d)
    PROVE  /\ OwnDb(e) /\ Latest(e) = Latest(d) + 1
           /\ \A s \in 1..Latest(d) : FactsAt(e.rows, s) = FactsAt(d.rows, s)
           /\ Rooted(FactsAt(d.rows, Latest(d))) => Rooted(FactsAt(e.rows, Latest(e)))
  <1>1. AnyDb(d) /\ {x.id : x \in d.snaps} = 1..Latest(d) /\ UniqueIds(d.snaps)
    BY DEF OwnDb
  <1>2. PICK T \in SUBSET CatRow, c \in CounterName :
            Becomes(d, e, T, FileRows(T), c) /\ (Adds(d, T, c) \/ Drops(d, T))
    BY <1>1, CommitBecomes
  <1>3. /\ AnyDb(e) /\ e.rows = Put(d.rows, T) /\ e.index = PutIndex(d.index, FileRows(T))
        /\ \A k \in CounterName :
               e.counter[k] = IF k \in {"snap", c} THEN d.counter[k] + 1 ELSE d.counter[k]
        /\ {x.id : x \in e.snaps} = {x.id : x \in d.snaps} \cup {d.counter["snap"]}
        /\ UniqueIds(e.snaps)
    BY <1>1, <1>2 DEF Becomes
  <1>4. NextOwn(d, e)
    BY <1>2, <1>3, AddsOwn, DropsOwn
  <1>5. d.counter["snap"] \in Nat /\ d.counter["snap"] >= 2 /\ Latest(d) = d.counter["snap"] - 1
    BY OwnRows
  <1>6. e.counter["snap"] = d.counter["snap"] + 1
    BY <1>3 DEF CounterName
  <1>7. Latest(e) = Latest(d) + 1 /\ d.counter["snap"] = Latest(d) + 1
    BY <1>5, <1>6 DEF Latest
  <1>8. {x.id : x \in e.snaps} = 1..Latest(e)
    <2>1. (1..Latest(d)) \cup {d.counter["snap"]} = 1..Latest(e)
      BY <1>5, <1>7
    <2> QED BY <1>1, <1>3, <2>1
  <1>9. OwnDb(e)
    BY <1>3, <1>4, <1>5, <1>6, <1>7, <1>8 DEF OwnDb, NextOwn
  <1> QED BY <1>4, <1>7, <1>9 DEF NextOwn

-----------------------------------------------------------------------------
\* The source and its export

\* Snapshots of the source stay as readers saw them.
SrcGrows ==
    /\ Latest(db[Src]) \in Nat /\ Latest(db'[Src]) \in Nat /\ Latest(db[Src]) <= Latest(db'[Src])
    /\ \A s \in 1..Latest(db[Src]) : seen'[s] = seen[s]

\* A commit on the source.
LEMMA CommitSrcStep ==
    ASSUME SrcInv, DbShape, CommitSrc
    PROVE  SrcInv' /\ SrcGrows
  <1>1. PICK d : d = db[Src]
    OBVIOUS
  <1>2. PICK e \in Commits(d) :
            /\ db' = [db EXCEPT ![Src] = e]
            /\ seen' = [s \in 1..Latest(e) |-> IF s < Latest(e) THEN seen[s] ELSE At(e, s)]
    BY <1>1 DEF CommitSrc
  <1>3. db'[Src] = e
    BY <1>2 DEF DbShape
  <1>4. /\ OwnDb(d)
        /\ \A s \in 1..Latest(d) : seen[s] = FactsAt(d.rows, s) /\ Rooted(seen[s])
    BY <1>1 DEF SrcInv
  <1>5. /\ OwnDb(e) /\ Latest(e) = Latest(d) + 1
        /\ \A s \in 1..Latest(d) : FactsAt(e.rows, s) = FactsAt(d.rows, s)
        /\ Rooted(FactsAt(d.rows, Latest(d))) => Rooted(FactsAt(e.rows, Latest(e)))
    BY <1>4, OwnCommit
  <1>6. Latest(d) \in Nat /\ Latest(d) >= 1
    BY <1>4, OwnRows
  <1>7. Rooted(FactsAt(e.rows, Latest(e)))
    BY <1>4, <1>5, <1>6
  <1>8. At(e, Latest(e)) = FactsAt(e.rows, Latest(e))
    BY <1>5, AtFacts DEF OwnDb
  <1>9. /\ \A s \in 1..Latest(d) : seen'[s] = seen[s] /\ s \in 1..Latest(e)
        /\ seen'[Latest(e)] = FactsAt(e.rows, Latest(e)) /\ DOMAIN seen' = 1..Latest(e)
    BY <1>2, <1>5, <1>6, <1>8
  <1>10. \A s \in 1..Latest(e) : s \in 1..Latest(d) \/ s = Latest(e)
    BY <1>5, <1>6
  <1>11. \A s \in 1..Latest(e) : seen'[s] = FactsAt(e.rows, s) /\ Rooted(seen'[s])
    BY <1>4, <1>5, <1>7, <1>9, <1>10
  <1>12. SrcInv'
    BY <1>3, <1>5, <1>9, <1>11 DEF SrcInv
  <1> QED BY <1>1, <1>3, <1>5, <1>6, <1>9, <1>12 DEF SrcGrows

\* No tool writes to the source.
LEMMA OtherSteps ==
    ASSUME DbShape, [NextTransfer]_transfer, ~CommitSrc
    PROVE  db'[Src] = db[Src] /\ seen' = seen
  <1>1. CASE ExportStart \/ ExportScan \/ ExportDone
    BY <1>1 DEF ExportStart, ExportScan, ExportDone
  <1>2. CASE ImportStart \/ MigrateFromSource
    BY <1>2 DEF ImportStart, MigrateFromSource, Fill, DbShape, Src, Dst
  <1>3. CASE ImportLine \/ MigrateTable
    BY <1>3 DEF ImportLine, MigrateTable, Write, DbShape, Src, Dst
  <1>4. CASE MigrateSkip \/ FillDone \/ FillStops
    BY <1>4 DEF MigrateSkip, FillDone, FillStops
  <1>5. CASE Rebuild
    BY <1>5 DEF Rebuild, DbShape, Src, Dst
  <1>6. CASE MigrateApply
    BY <1>6 DEF MigrateApply, DbShape, Src, Dst
  <1>7. CASE RepairStart \/ RepairActionFails \/ RepairDone \/ RepairStops
    BY <1>7 DEF RepairStart, RepairActionFails, RepairDone, RepairStops
  <1>8. CASE RepairAction
    BY <1>8 DEF RepairAction, DbShape, Src, Dst
  <1>9. CASE Open
    BY <1>9 DEF Open, DbShape, Src, Dst
  <1>10. CASE CommitDst
    BY <1>10 DEF CommitDst, DbShape, Src, Dst
  <1>11. CASE UNCHANGED transfer
    BY <1>11 DEF transfer
  <1> QED
    BY <1>1, <1>2, <1>3, <1>4, <1>5, <1>6, <1>7, <1>8, <1>9, <1>10, <1>11 DEF NextTransfer

\* The source grows, and its old snapshots stay.
LEMMA SrcStep ==
    ASSUME SrcInv, DbShape, [NextTransfer]_transfer
    PROVE  SrcInv' /\ SrcGrows
  <1>1. CASE CommitSrc
    BY <1>1, CommitSrcStep
  <1>2. CASE ~CommitSrc
    <2>1. db'[Src] = db[Src] /\ seen' = seen
      BY <1>2, OtherSteps
    <2>2. Latest(db[Src]) \in Nat
      BY OwnRows DEF SrcInv
    <2> QED BY <2>1, <2>2 DEF SrcInv, SrcGrows
  <1> QED BY <1>1, <1>2

\* An export is not touched by what its source does.
LEMMA ExportKept ==
    ASSUME NEW e, ExportInv(e), SrcGrows
    PROVE  ExportInv(e)'
  <1>1. e.known => e.at \in 1..Latest(db'[Src]) /\ seen'[e.at] = seen[e.at]
    BY DEF ExportInv, SrcGrows
  <1> QED BY <1>1 DEF ExportInv

\* The entries of ExportOrder.
LEMMA OrderFacts ==
    /\ Len(ExportOrder) = 7
    /\ ExportOrder[1] = "snapshot" /\ ExportOrder[2] = "table" /\ ExportOrder[3] = "file"
    /\ ExportOrder[4] = "delfile" /\ ExportOrder[5] = "inline" /\ ExportOrder[6] = "view"
    /\ ExportOrder[7] = "stat"
  BY DEF ExportOrder

\* The entries differ, and the versioned kinds are among them.
LEMMA OrderKinds ==
    /\ \A i, j \in 1..7 : ExportOrder[i] = ExportOrder[j] => i = j
    /\ \A i \in 1..7 : /\ ExportOrder[i] = "snapshot" <=> i = 1
                       /\ ExportOrder[i] \in CatKind /\ ExportOrder[i] # "stat" => ExportOrder[i] \in Versioned
    /\ \A kind \in Versioned : \E i \in 1..7 : ExportOrder[i] = kind
    /\ "stat" \notin Versioned /\ "snapshot" \notin CatKind
  <1>1. \A i \in 1..7 : i = 1 \/ i = 2 \/ i = 3 \/ i = 4 \/ i = 5 \/ i = 6 \/ i = 7
    OBVIOUS
  <1>2. \A i, j \in 1..7 : ExportOrder[i] = ExportOrder[j] => i = j
    BY <1>1, OrderFacts
  <1>3. \A i \in 1..7 : /\ ExportOrder[i] = "snapshot" <=> i = 1
                        /\ ExportOrder[i] \in CatKind /\ ExportOrder[i] # "stat" => ExportOrder[i] \in Versioned
    BY <1>1, OrderFacts DEF Versioned, CatKind
  <1>4. \A kind \in Versioned : \E i \in 1..7 : ExportOrder[i] = kind
    <2>1. 2 \in 1..7 /\ 3 \in 1..7 /\ 4 \in 1..7 /\ 5 \in 1..7 /\ 6 \in 1..7
      OBVIOUS
    <2> QED BY <2>1, OrderFacts DEF Versioned
  <1> QED BY <1>2, <1>3, <1>4 DEF Versioned, CatKind

\* What a scan of the source at snapshot s writes.
LEMMA ScannedRows ==
    ASSUME NEW d, OwnDb(d), NEW kind, NEW s
    PROVE  /\ Scanned(d, kind, s) \in SUBSET CatRow
           /\ \A n \in Scanned(d, kind, s) : n.kind = kind /\ Proper(n) /\ (kind # "stat" => Visible(n, s))
           /\ UniqueKeys(Scanned(d, kind, s))
           /\ kind \in Versioned =>
                  {Fact(n) : n \in Scanned(d, kind, s)} = {f \in FactsAt(d.rows, s) : f[1] = kind}
  <1> DEFINE R == {x \in d.rows : x.kind = kind /\ (kind = "stat" \/ Visible(x, s))}
  <1>1. R \in SUBSET CatRow /\ UniqueKeys(R) /\ \A r \in R : Proper(r)
    BY DEF OwnDb, AnyDb, UniqueKeys
  <1>2. Scanned(d, kind, s) = {ToJson(r) : r \in R}
    BY DEF Scanned
  <1>3. \A r \in R : /\ ToJson(r) \in CatRow /\ ToJson(r).kind = r.kind /\ ToJson(r).begin = r.begin
                     /\ ToJson(r).end = r.end /\ Key(ToJson(r)) = Key(r) /\ Fact(ToJson(r)) = Fact(r)
    BY <1>1, JsonRow
  <1>4. \A r \in R : r.kind = kind /\ (kind # "stat" => Visible(r, s))
    OBVIOUS
  <1>5. kind \in Versioned => {Fact(r) : r \in R} = {f \in FactsAt(d.rows, s) : f[1] = kind}
    <2> SUFFICES ASSUME kind \in Versioned
                 PROVE  {Fact(r) : r \in R} = {f \in FactsAt(d.rows, s) : f[1] = kind}
      OBVIOUS
    <2>1. \A r \in d.rows : Fact(r)[1] = r.kind
      BY RowParts DEF OwnDb, AnyDb
    <2>2. kind # "stat"
      BY OrderKinds
    <2> QED BY <2>1, <2>2 DEF FactsAt
  <1> HIDE DEF R
  <1>6. \A n \in Scanned(d, kind, s) : \E r \in R : n = ToJson(r)
    BY <1>2
  <1>7. \A n \in Scanned(d, kind, s) : n.kind = kind /\ Proper(n) /\ (kind # "stat" => Visible(n, s))
    BY <1>1, <1>3, <1>4, <1>6 DEF Proper, Visible
  <1>8. UniqueKeys(Scanned(d, kind, s))
    BY <1>1, <1>3, <1>6 DEF UniqueKeys
  <1>9. {Fact(n) : n \in Scanned(d, kind, s)} = {Fact(r) : r \in R}
    BY <1>2, <1>3
  <1>10. Scanned(d, kind, s) \in SUBSET CatRow
    BY <1>3, <1>6
  <1> QED BY <1>5, <1>7, <1>8, <1>9, <1>10

\* Snapshots up to one of them.
LEMMA SnapsUpTo ==
    ASSUME NEW d, OwnDb(d), NEW s \in Nat
    PROVE  LET S == {x \in d.snaps : x.id <= s}
           IN  /\ Dense(S) /\ UniqueIds(S) /\ (\A x \in S : x.id \in Nat)
               /\ s <= Latest(d) => {x.id : x \in S} = 1..s
  <1> DEFINE S == {x \in d.snaps : x.id <= s}
  <1>1. {x.id : x \in d.snaps} = 1..Latest(d) /\ Latest(d) \in Nat
    BY OwnRows DEF OwnDb
  <1>2. \A j \in 1..Latest(d) : \E y \in d.snaps : y.id = j
    BY <1>1
  <1>3. \A x \in d.snaps : x.id \in 1..Latest(d)
    BY <1>1
  <1>4. Dense(S)
    <2> SUFFICES ASSUME NEW x \in S, NEW j \in 1..x.id PROVE \E y \in S : y.id = j
      BY DEF Dense
    <2>1. x.id \in Nat /\ x.id <= s /\ x.id <= Latest(d) /\ x.id \in 1..Latest(d)
      BY <1>1, <1>3
    <2>2. j \in 1..Latest(d) /\ j <= s
      BY <1>1, <2>1
    <2> QED BY <1>2, <2>2
  <1>5. ASSUME s <= Latest(d) PROVE {x.id : x \in S} = 1..s
    <2>1. \A x \in S : x.id \in 1..s
      BY <1>3
    <2>2. ASSUME NEW j \in 1..s PROVE \E x \in S : x.id = j
      <3>1. j \in 1..Latest(d) /\ j <= s
        BY <1>1, <1>5
      <3> QED BY <1>2, <3>1
    <2> QED BY <2>1, <2>2
  <1>6. \A x \in S : x.id \in Nat
    BY <1>1, <1>3
  <1>7. UniqueIds(S)
    BY DEF OwnDb, UniqueIds
  <1> QED BY <1>4, <1>5, <1>6, <1>7

\* One scan adds the rows of its kind, as they are visible at the snapshot: a row
\* that ended meanwhile still was visible there.
LEMMA ExportScanStep ==
    ASSUME SrcInv, ExportInv(export), ExportScan
    PROVE  ExportInv(export)'
  <1>1. PICK d, k, e, x : d = db[Src] /\ k = export.scan /\ e = export /\ x = export'
    OBVIOUS
  <1>2. UNCHANGED <<db, seen>> /\ k \in 1..7
    BY <1>1, OrderFacts DEF ExportScan
  <1> DEFINE kind == ExportOrder[k]
             N == Scanned(d, kind, e.at)
             S == IF kind = "snapshot" THEN {y \in d.snaps : y.id <= e.at} ELSE e.snaps
  <1>3. /\ e = [at |-> e.at, scan |-> k, known |-> e.known, snaps |-> e.snaps, rows |-> e.rows]
        /\ e.at \in Nat /\ e.known \in BOOLEAN /\ e.rows \in SUBSET CatRow
        /\ (\A y \in e.snaps : y.id \in Nat) /\ Dense(e.snaps)
        /\ UniqueIds(e.snaps) /\ UniqueKeys(e.rows)
        /\ \A r \in e.rows : Proper(r) /\ \E i \in 1..(k - 1) : r.kind = ExportOrder[i]
        /\ e.known =>
               /\ e.at \in 1..Latest(d)
               /\ k > 1 => {y.id : y \in e.snaps} = 1..e.at
               /\ \A r \in e.rows : r.kind # "stat" => Visible(r, e.at)
               /\ {Fact(r) : r \in {y \in e.rows : y.kind # "stat"}} =
                      {f \in seen[e.at] : \E i \in 1..(k - 1) : f[1] = ExportOrder[i]}
    BY <1>1 DEF ExportInv
  <1>4. x = [e EXCEPT !.scan = k + 1, !.snaps = S, !.rows = e.rows \cup N]
    BY <1>1 DEF ExportScan
  <1> HIDE DEF kind, N, S
  <1>5. /\ x = [at |-> e.at, scan |-> k + 1, known |-> e.known, snaps |-> S, rows |-> e.rows \cup N]
        /\ x.at = e.at /\ x.scan = k + 1 /\ x.known = e.known /\ x.snaps = S /\ x.rows = e.rows \cup N
    <2>1. e = [at |-> e.at, scan |-> k, known |-> e.known, snaps |-> e.snaps, rows |-> e.rows]
      BY <1>3
    <2>2. x = [at |-> e.at, scan |-> k + 1, known |-> e.known, snaps |-> S, rows |-> e.rows \cup N]
      BY <1>4, <2>1
    <2> QED BY <2>2
  <1>6. OwnDb(d)
    BY <1>1 DEF SrcInv
  <1>7. /\ N \in SUBSET CatRow /\ UniqueKeys(N)
        /\ \A n \in N : n.kind = kind /\ Proper(n) /\ (kind # "stat" => Visible(n, e.at))
        /\ kind \in Versioned => {Fact(n) : n \in N} = {f \in FactsAt(d.rows, e.at) : f[1] = kind}
    BY <1>6, ScannedRows DEF N
  <1>8. /\ Dense(S) /\ UniqueIds(S) /\ (\A y \in S : y.id \in Nat)
        /\ e.known => {y.id : y \in S} = 1..e.at
    <2>1. CASE kind = "snapshot"
      <3>1. S = {y \in d.snaps : y.id <= e.at}
        BY <2>1 DEF S
      <3>2. e.known => e.at <= Latest(d)
        BY <1>3
      <3> QED BY <1>3, <1>6, <3>1, <3>2, SnapsUpTo
    <2>2. CASE kind # "snapshot"
      <3>1. k > 1
        BY <1>2, <2>2, OrderKinds DEF kind
      <3> QED BY <1>3, <2>2, <3>1 DEF S
    <2> QED BY <2>1, <2>2
  <1>9. \A r \in x.rows : Proper(r) /\ \E i \in 1..(x.scan - 1) : r.kind = ExportOrder[i]
    <2>1. k \in 1..(x.scan - 1) /\ \A i \in 1..(k - 1) : i \in 1..(x.scan - 1)
      BY <1>2, <1>5
    <2> QED BY <1>3, <1>5, <1>7, <2>1 DEF kind
  <1>10. UniqueKeys(x.rows)
    <2>1. ASSUME NEW r \in e.rows, NEW n \in N PROVE Key(r) # Key(n)
      <3>1. r \in CatRow /\ n \in CatRow /\ n.kind = ExportOrder[k]
        BY <1>3, <1>7 DEF kind
      <3>2. PICK i \in 1..(k - 1) : r.kind = ExportOrder[i]
        BY <1>3
      <3>3. i \in 1..7 /\ i # k
        BY <1>2
      <3>4. r.kind # n.kind
        BY <1>2, <3>1, <3>2, <3>3, OrderKinds
      <3> QED BY <3>1, <3>4, SameKey
    <2> QED BY <1>3, <1>5, <1>7, <2>1 DEF UniqueKeys
  <1>11. ASSUME e.known PROVE \A r \in x.rows : r.kind # "stat" => Visible(r, e.at)
    BY <1>3, <1>5, <1>7, <1>11
  <1>12. ASSUME e.known
         PROVE  {Fact(r) : r \in {y \in x.rows : y.kind # "stat"}} =
                    {f \in seen[e.at] : \E i \in 1..(x.scan - 1) : f[1] = ExportOrder[i]}
    <2>1. seen[e.at] = FactsAt(d.rows, e.at)
      BY <1>1, <1>3, <1>12 DEF SrcInv
    <2>2. \A f \in seen[e.at] : f[1] \in Versioned
      BY <1>6, <2>1, RowParts DEF FactsAt, OwnDb, AnyDb
    <2>3. \A i \in 1..(x.scan - 1) : i \in 1..(k - 1) \/ i = k
      BY <1>2, <1>5
    <2>4. k \in 1..(x.scan - 1) /\ \A i \in 1..(k - 1) : i \in 1..(x.scan - 1)
      BY <1>2, <1>5
    <2>5. CASE kind \in Versioned
      <3>1. {Fact(n) : n \in N} = {f \in seen[e.at] : f[1] = kind}
        BY <1>7, <2>1, <2>5
      <3>2. kind # "stat"
        BY <2>5, OrderKinds
      <3>3. {Fact(r) : r \in {y \in x.rows : y.kind # "stat"}} =
                {Fact(r) : r \in {y \in e.rows : y.kind # "stat"}} \cup {Fact(n) : n \in N}
        BY <1>5, <1>7, <3>2
      <3> QED BY <1>3, <1>12, <2>3, <2>4, <3>1, <3>3 DEF kind
    <2>6. CASE kind \notin Versioned
      <3>1. {y \in x.rows : y.kind # "stat"} = {y \in e.rows : y.kind # "stat"}
        <4>1. \A n \in N : n.kind = "stat"
          BY <1>2, <1>7, <2>6, OrderKinds, RowParts DEF kind
        <4> QED BY <1>5, <4>1
      <3>2. {f \in seen[e.at] : \E i \in 1..(x.scan - 1) : f[1] = ExportOrder[i]} =
                {f \in seen[e.at] : \E i \in 1..(k - 1) : f[1] = ExportOrder[i]}
        BY <2>2, <2>3, <2>4, <2>6 DEF kind
      <3> QED BY <1>3, <1>12, <3>1, <3>2
    <2> QED BY <2>5, <2>6
  <1>13. x.rows \in SUBSET CatRow /\ x.scan \in 0..8 /\ x.scan \in 1..8
    BY <1>2, <1>3, <1>5, <1>7
  <1>14. ExportInv(x)
    BY <1>1, <1>3, <1>5, <1>8, <1>9, <1>10, <1>11, <1>12, <1>13 DEF ExportInv
  <1> QED BY <1>1, <1>2, <1>14 DEF ExportInv

\* The other steps of an export, and the file.
LEMMA ExportStep ==
    ASSUME SrcInv, SrcGrows, ExportInv(export), FileInv, [NextTransfer]_transfer
    PROVE  ExportInv(export)' /\ FileInv'
  <1>1. PICK e, f : e = export /\ f = file
    OBVIOUS
  <1>2. ExportInv(e)' /\ ExportInv(f)' /\ (f.known => f.scan = 8)
    BY <1>1, ExportKept DEF FileInv
  <1>3. CASE UNCHANGED <<export, file>>
    BY <1>1, <1>2, <1>3 DEF FileInv, ExportInv
  <1>4. CASE ExportScan
    <2>1. file' = f
      BY <1>1, <1>4 DEF ExportScan
    <2> QED BY <1>2, <1>4, <2>1, ExportScanStep DEF FileInv, ExportInv
  <1>5. CASE ExportStart
    <2>1. PICK s \in 1..MaxSnap :
              export' = [NotExporting EXCEPT !.at = s, !.scan = 1, !.known = (s <= Latest(db[Src]))]
      BY <1>5 DEF ExportStart
    <2>2. file' = f /\ UNCHANGED <<db, seen>> /\ s \in Nat /\ s >= 1
      BY <1>1, <1>5, TransferAssumption DEF ExportStart
    <2>3. PICK x : x = export'
      OBVIOUS
    <2>4. x = [at |-> s, scan |-> 1, known |-> (s <= Latest(db[Src])), snaps |-> {}, rows |-> {}]
      BY <2>1, <2>3 DEF NotExporting
    <2>5. Latest(db[Src]) \in Nat
      BY DEF SrcGrows
    <2>6. x.known => x.at \in 1..Latest(db[Src])
      <3>1. x.at = s /\ x.known = (s <= Latest(db[Src]))
        BY <2>4
      <3>2. s <= Latest(db[Src]) => s \in 1..Latest(db[Src])
        BY <2>2, <2>5
      <3> QED BY <3>1, <3>2
    <2>7. ExportInv(x)
      BY <2>2, <2>4, <2>6 DEF ExportInv, UniqueKeys, UniqueIds, Dense
    <2>8. ExportInv(export)'
      BY <2>2, <2>3, <2>7 DEF ExportInv
    <2> QED BY <1>2, <2>2, <2>8 DEF FileInv, ExportInv
  <1>6. CASE ExportDone
    <2>1. file' = e /\ export' = NotExporting /\ e.scan = 8
      BY <1>1, <1>6, OrderFacts DEF ExportDone
    <2>2. PICK x : x = NotExporting
      OBVIOUS
    <2>3. x = [at |-> 0, scan |-> 0, known |-> FALSE, snaps |-> {}, rows |-> {}]
      BY <2>2 DEF NotExporting
    <2>4. ExportInv(x)'
      BY <2>3 DEF ExportInv, UniqueKeys, UniqueIds, Dense
    <2>5. ExportInv(export)'
      BY <2>1, <2>2, <2>4 DEF ExportInv
    <2> QED BY <1>2, <2>1, <2>5 DEF FileInv, ExportInv
  <1>7. \/ ExportStart \/ ExportScan \/ ExportDone \/ UNCHANGED <<export, file>>
    BY DEF NextTransfer, transfer, ImportStart, ImportLine, MigrateFromSource, Fill, Write, MigrateTable,
           MigrateSkip, FillDone, FillStops, Rebuild, MigrateApply, RepairStart, RepairAction,
           RepairActionFails, RepairDone, RepairStops, Open, CommitSrc, CommitDst
  <1> QED BY <1>3, <1>4, <1>5, <1>6, <1>7

-----------------------------------------------------------------------------
\* Writing to a catalog

\* Rows that are put keep the keys unique and the data files in the index.
LEMMA PutRows ==
    ASSUME NEW d, SoundDb(d), NEW T \in SUBSET CatRow, UniqueKeys(T),
           NEW e, e.rows = Put(d.rows, T), e.index = PutIndex(d.index, FileRows(T))
    PROVE  /\ e.rows \in SUBSET CatRow /\ e.index \in SUBSET CatRow
           /\ Indexed(e) /\ UniqueKeys(e.rows) /\ UniqueEntries(e.index)
  <1>1. /\ d.rows \in SUBSET CatRow /\ d.index \in SUBSET CatRow /\ Indexed(d)
        /\ UniqueKeys(d.rows) /\ UniqueEntries(d.index)
    BY DEF SoundDb, AnyDb
  <1>2. /\ \A r \in e.rows : r \in T \/ (r \in d.rows /\ \A t \in T : Key(r) # Key(t))
        /\ \A r \in e.index : r \in FileRows(T)
               \/ (r \in d.index /\ \A t \in FileRows(T) : IndexKey(r) # IndexKey(t))
        /\ \A t \in FileRows(T) : t \in e.index
        /\ \A r \in d.index : r \in e.index \/ \E t \in FileRows(T) : IndexKey(r) = IndexKey(t)
    BY DEF Put, PutIndex
  <1>3. \A t \in FileRows(T) : t \in T /\ t.kind = "file"
    BY DEF FileRows
  <1>4. Indexed(e)
    <2> SUFFICES ASSUME NEW r \in e.rows, r.kind = "file"
                 PROVE  \E x \in e.index : IndexKey(x) = IndexKey(r)
      BY DEF Indexed
    <2>1. CASE r \in T
      BY <1>2, <2>1 DEF FileRows
    <2>2. CASE r \in d.rows
      <3>1. PICK x \in d.index : IndexKey(x) = IndexKey(r)
        BY <1>1, <2>2 DEF Indexed
      <3> QED BY <1>2, <3>1
    <2> QED BY <1>2, <2>1, <2>2
  <1>5. UniqueKeys(e.rows)
    BY <1>1, <1>2 DEF UniqueKeys
  <1>6. UniqueEntries(FileRows(T))
    <2> SUFFICES ASSUME NEW r \in FileRows(T), NEW q \in FileRows(T), IndexKey(r) = IndexKey(q)
                 PROVE  r = q
      BY DEF UniqueEntries
    <2>1. r \in CatRow /\ q \in CatRow /\ r \in T /\ q \in T /\ r.kind = "file" /\ q.kind = "file"
      BY <1>3
    <2>2. Key(r) = Key(q)
      BY <2>1, SameKey
    <2> QED BY <2>1, <2>2 DEF UniqueKeys
  <1>7. UniqueEntries(e.index)
    BY <1>1, <1>2, <1>6 DEF UniqueEntries
  <1> QED BY <1>1, <1>2, <1>3, <1>4, <1>5, <1>7

\* Snapshots that are put leave no gap when there was none before them.
LEMMA PutSnaps ==
    ASSUME NEW A, NEW N, Dense(A), UniqueIds(A), UniqueIds(N),
           \A x \in A \cup N : x.id \in Nat,
           \A x \in N : \A j \in 1..(x.id - 1) : \E y \in A \cup N : y.id = j,
           NEW X, X = {x \in A : \A y \in N : x.id # y.id} \cup N
    PROVE  /\ Dense(X) /\ UniqueIds(X) /\ (\A x \in X : x.id \in Nat)
           /\ {x.id : x \in X} = {x.id : x \in A \cup N}
           /\ \A y \in A \cup N : \E x \in X : x.id = y.id
  <1>1. \A y \in A \cup N : \E x \in X : x.id = y.id
    OBVIOUS
  <1>2. \A x \in X : x \in A \cup N /\ x.id \in Nat
    OBVIOUS
  <1>3. Dense(X)
    <2> SUFFICES ASSUME NEW x \in X, NEW j \in 1..x.id PROVE \E y \in X : y.id = j
      BY DEF Dense
    <2>1. x.id \in Nat
      BY <1>2
    <2>2. j = x.id \/ j \in 1..(x.id - 1)
      BY <2>1
    <2>3. CASE x \in A
      <3>1. \E y \in A : y.id = j
        BY <2>3 DEF Dense
      <3> QED BY <1>1, <3>1
    <2>4. CASE x \in N
      BY <1>1, <2>2, <2>4
    <2> QED BY <1>2, <2>3, <2>4
  <1>4. UniqueIds(X)
    BY DEF UniqueIds
  <1>5. {x.id : x \in X} = {x.id : x \in A \cup N}
    BY <1>1, <1>2
  <1> QED BY <1>1, <1>2, <1>3, <1>4, <1>5

\* Lines of the source that are written are no longer to come.
LEMMA RestoredWrite ==
    ASSUME NEW d, NEW F \in SUBSET CatRow, NEW S, NEW s, NEW W, Restored(d, F, S, s, W),
           d.rows \in SUBSET CatRow, NEW T \in SUBSET F, NEW N \in SUBSET S,
           NEW e, e.rows = Put(d.rows, T), e.index = PutIndex(d.index, FileRows(T)),
           {x.id : x \in e.snaps} = {x.id : x \in d.snaps \cup N}, e.counter = d.counter
    PROVE  Restored(e, F \ T, S \ N, s, W)
  <1>1. /\ UniqueKeys(d.rows \cup F) /\ d.index = FileRows(d.rows)
    BY DEF Restored
  <1>2. e.rows = d.rows \cup T
    BY <1>1 DEF Put, UniqueKeys
  <1>3. e.rows \cup (F \ T) = d.rows \cup F
    BY <1>2
  <1>4. e.index = FileRows(e.rows)
    <2>1. ASSUME NEW x \in FileRows(d.rows), NEW t \in FileRows(T), IndexKey(x) = IndexKey(t)
          PROVE  x \in FileRows(T)
      <3>1. x \in CatRow /\ t \in CatRow /\ x \in d.rows /\ t \in F /\ x.kind = "file" /\ t.kind = "file"
        BY DEF FileRows
      <3>2. Key(x) = Key(t)
        BY <2>1, <3>1, SameKey
      <3>3. x = t
        BY <1>1, <3>1, <3>2 DEF UniqueKeys
      <3> QED BY <3>3
    <2>2. e.index = FileRows(d.rows) \cup FileRows(T)
      BY <1>1, <2>1 DEF PutIndex
    <2> QED BY <1>2, <2>2 DEF FileRows
  <1>5. {x.id : x \in e.snaps \cup (S \ N)} = {x.id : x \in d.snaps \cup S}
    <2>1. \A x \in e.snaps : \E y \in d.snaps \cup N : x.id = y.id
      <3>1. \A x \in e.snaps : x.id \in {y.id : y \in d.snaps \cup N}
        OBVIOUS
      <3> QED BY <3>1
    <2>2. \A y \in d.snaps \cup N : \E x \in e.snaps : x.id = y.id
      <3>1. \A y \in d.snaps \cup N : y.id \in {x.id : x \in e.snaps}
        OBVIOUS
      <3> QED BY <3>1
    <2> QED BY <2>1, <2>2
  <1> QED BY <1>3, <1>4, <1>5 DEF Restored

\* Bounds of sets of ids.
LEMMA BoundedParts ==
    ASSUME NEW A, Bounded(A), NEW B, Bounded(B), NEW C, \A x \in C : \E y \in A \cup B : x.id = y.id
    PROVE  Bounded(C)
  <1>1. PICK n \in Nat : \A x \in A : x.id \in 0..n
    BY DEF Bounded
  <1>2. PICK m \in Nat : \A x \in B : x.id \in 0..m
    BY DEF Bounded
  <1>3. n + m \in Nat /\ \A x \in C : x.id \in 0..(n + m)
    BY <1>1, <1>2
  <1> QED BY <1>3 DEF Bounded

\* Rows that are written again without the columns that export leaves out.
Reduced(d, T) == \A t \in T : \E r \in d.rows : t = ToJson(r)

\* Such rows have the keys, facts and ends of the rows they replace.
LEMMA ReducedRows ==
    ASSUME NEW d, AnyDb(d), UniqueKeys(d.rows), NEW T, Reduced(d, T)
    PROVE  /\ T \in SUBSET CatRow /\ UniqueKeys(T)
           /\ \A t \in T : \E r \in d.rows :
                  /\ t.kind = r.kind /\ t.parent = r.parent /\ t.id = r.id /\ t.begin = r.begin /\ t.end = r.end
                  /\ Key(t) = Key(r) /\ IndexKey(t) = IndexKey(r) /\ Fact(t) = Fact(r)
  <1>1. d.rows \in SUBSET CatRow
    BY DEF AnyDb
  <1>2. \A r \in d.rows :
            /\ ToJson(r) \in CatRow /\ ToJson(r).kind = r.kind /\ ToJson(r).parent = r.parent
            /\ ToJson(r).id = r.id /\ ToJson(r).begin = r.begin /\ ToJson(r).end = r.end
            /\ Key(ToJson(r)) = Key(r) /\ IndexKey(ToJson(r)) = IndexKey(r) /\ Fact(ToJson(r)) = Fact(r)
    BY <1>1, JsonRow
  <1>3. UniqueKeys(T)
    BY <1>2 DEF UniqueKeys, Reduced
  <1> QED BY <1>2, <1>3 DEF Reduced

\* migrate_apply changes no fact of a restored catalog.
LEMMA RestoredReduced ==
    ASSUME NEW d, AnyDb(d), NEW s, NEW W, Restored(d, {}, {}, s, W), NEW T, Reduced(d, T),
           NEW e, e.rows = Put(d.rows, T), e.index = PutIndex(d.index, FileRows(T)),
           e.snaps = d.snaps, e.counter = d.counter
    PROVE  Restored(e, {}, {}, s, W)
  <1>1. /\ UniqueKeys(d.rows) /\ d.index = FileRows(d.rows)
        /\ \A r \in d.rows : r.kind \in Versioned => Visible(r, s)
        /\ {Fact(r) : r \in {x \in d.rows : x.kind \in Versioned}} = W
        /\ d.rows \in SUBSET CatRow
    BY DEF Restored, AnyDb
  <1>2. /\ T \in SUBSET CatRow /\ UniqueKeys(T)
        /\ \A t \in T : \E r \in d.rows :
               /\ t.kind = r.kind /\ t.begin = r.begin /\ t.end = r.end
               /\ Key(t) = Key(r) /\ IndexKey(t) = IndexKey(r) /\ Fact(t) = Fact(r)
    BY <1>1, ReducedRows
  <1>3. \A x \in e.rows : x \in T \/ (x \in d.rows /\ \A t \in T : Key(x) # Key(t))
    BY DEF Put
  <1>4. \A x \in d.rows : x \in e.rows \/ \E t \in T : Key(x) = Key(t)
    BY DEF Put
  <1>5. \A t \in T : t \in e.rows
    BY DEF Put
  <1>6. UniqueKeys(e.rows)
    BY <1>1, <1>2, <1>3 DEF UniqueKeys
  <1>7. ASSUME NEW x \in e.rows
        PROVE  \E r \in d.rows : /\ x.kind = r.kind /\ x.begin = r.begin /\ x.end = r.end
                                 /\ Fact(x) = Fact(r)
    BY <1>2, <1>3
  <1>8. ASSUME NEW x \in d.rows
        PROVE  \E q \in e.rows : x.kind = q.kind /\ Fact(x) = Fact(q)
    <2>1. CASE \E t \in T : Key(x) = Key(t)
      <3>1. PICK t \in T : Key(x) = Key(t)
        BY <2>1
      <3>2. PICK r \in d.rows : t.kind = r.kind /\ Key(t) = Key(r) /\ Fact(t) = Fact(r)
        BY <1>2
      <3>3. r = x
        BY <1>1, <3>1, <3>2 DEF UniqueKeys
      <3> QED BY <1>5, <3>2, <3>3
    <2> QED BY <1>4, <2>1
  <1>9. \A r \in e.rows : r.kind \in Versioned => Visible(r, s)
    BY <1>1, <1>7 DEF Visible
  <1>10. {Fact(r) : r \in {x \in e.rows : x.kind \in Versioned}} =
             {Fact(r) : r \in {x \in d.rows : x.kind \in Versioned}}
    <2>1. \A r \in e.rows : r.kind \in Versioned =>
              Fact(r) \in {Fact(q) : q \in {x \in d.rows : x.kind \in Versioned}}
      BY <1>7
    <2>2. \A r \in d.rows : r.kind \in Versioned =>
              Fact(r) \in {Fact(q) : q \in {x \in e.rows : x.kind \in Versioned}}
      BY <1>8
    <2> QED BY <2>1, <2>2
  <1>11. e.index = FileRows(e.rows)
    <2>1. ASSUME NEW x \in FileRows(d.rows), NEW t \in FileRows(T)
          PROVE  IndexKey(x) = IndexKey(t) <=> Key(x) = Key(t)
      <3>1. x \in CatRow /\ t \in CatRow /\ x.kind = "file" /\ t.kind = "file" /\ x \in d.rows /\ t \in T
        BY <1>1, <1>2 DEF FileRows
      <3>2. ASSUME IndexKey(x) = IndexKey(t) PROVE Key(x) = Key(t)
        BY <3>1, <3>2, SameKey
      <3>3. ASSUME Key(x) = Key(t) PROVE IndexKey(x) = IndexKey(t)
        <4>1. PICK r \in d.rows : Key(t) = Key(r) /\ IndexKey(t) = IndexKey(r)
          BY <1>2, <3>1
        <4>2. r = x
          BY <1>1, <3>1, <3>3, <4>1 DEF UniqueKeys
        <4> QED BY <4>1, <4>2
      <3> QED BY <3>2, <3>3
    <2>2. ASSUME NEW x \in FileRows(d.rows), NEW t \in T, Key(x) = Key(t)
          PROVE  t \in FileRows(T)
      <3>1. x \in CatRow /\ t \in CatRow /\ x.kind = "file"
        BY <1>1, <1>2 DEF FileRows
      <3>2. t.kind = "file"
        BY <2>2, <3>1, SameKey
      <3> QED BY <3>2 DEF FileRows
    <2>3. \A x \in e.index : x \in FileRows(e.rows)
      <3> SUFFICES ASSUME NEW x \in e.index PROVE x \in FileRows(e.rows)
        OBVIOUS
      <3>1. CASE x \in FileRows(T)
        BY <1>5, <3>1 DEF FileRows
      <3>2. CASE x \in FileRows(d.rows) /\ \A t \in FileRows(T) : IndexKey(x) # IndexKey(t)
        <4>1. \A t \in T : Key(x) # Key(t)
          BY <2>1, <2>2, <3>2
        <4>2. x \in d.rows /\ x.kind = "file"
          BY <3>2 DEF FileRows
        <4> QED BY <4>1, <4>2 DEF Put, FileRows
      <3> QED BY <1>1, <3>1, <3>2 DEF PutIndex
    <2>4. \A x \in FileRows(e.rows) : x \in e.index
      <3> SUFFICES ASSUME NEW x \in e.rows, x.kind = "file" PROVE x \in e.index
        BY DEF FileRows
      <3>1. CASE x \in T
        BY <3>1 DEF PutIndex, FileRows
      <3>2. CASE x \in d.rows /\ \A t \in T : Key(x) # Key(t)
        <4>1. x \in FileRows(d.rows) /\ \A t \in FileRows(T) : t \in T
          BY <3>2 DEF FileRows
        <4>2. \A t \in FileRows(T) : IndexKey(x) # IndexKey(t)
          BY <2>1, <3>2, <4>1
        <4> QED BY <1>1, <4>1, <4>2 DEF PutIndex
      <3> QED BY <1>3, <3>1, <3>2
    <2> QED BY <2>3, <2>4
  <1>12. {x.id : x \in e.snaps \cup {}} = 1..s /\ e.counter["snap"] <= s + 1
    BY DEF Restored
  <1>13. e.rows \cup {} = e.rows
    OBVIOUS
  <1> QED BY <1>1, <1>6, <1>9, <1>10, <1>11, <1>12, <1>13 DEF Restored

\* A catalog that is opened.
LEMMA OpenedDb ==
    ASSUME NEW d, AnyDb(d), CanOpen(d), NEW e, e = Opened(d)
    PROVE  /\ AnyDb(e) /\ e.rows = d.rows /\ e.index = d.index /\ e.snaps = d.snaps
           /\ e.fv = Format /\ \A c \in CounterName : e.counter[c] # Absent
           /\ d.fv # Absent => e = d
           /\ e.counter["snap"] = d.counter["snap"] \/ e.counter["snap"] = 1
  <1>1. CASE d.fv = Absent
    <2> DEFINE cs == [c \in {"snap", "cat", "file"} |-> 1]
    <2>1. d = [fv |-> d.fv, counter |-> d.counter, snaps |-> d.snaps, rows |-> d.rows, index |-> d.index]
      BY DEF AnyDb
    <2>2. e = [d EXCEPT !.fv = Format, !.counter = cs]
      BY <1>1 DEF Opened, Initialized
    <2>3. cs \in [CounterName -> Nat] /\ \A c \in CounterName : cs[c] = 1
      BY DEF CounterName
    <2> HIDE DEF cs
    <2>4. e = [fv |-> Format, counter |-> cs, snaps |-> d.snaps, rows |-> d.rows, index |-> d.index]
      BY <2>1, <2>2
    <2>5. /\ e.fv = Format /\ e.counter = cs /\ e.snaps = d.snaps /\ e.rows = d.rows /\ e.index = d.index
      BY <2>4
    <2>6. AnyDb(e)
      BY <2>3, <2>4, <2>5 DEF AnyDb, Format
    <2> QED BY <1>1, <2>3, <2>5, <2>6 DEF CounterName, Absent
  <1>2. CASE d.fv # Absent
    <2>1. e = d /\ DOMAIN d.counter = CounterName
      BY <1>2 DEF Opened, AnyDb
    <2> QED BY <1>2, <2>1 DEF CanOpen
  <1> QED BY <1>1, <1>2

-----------------------------------------------------------------------------
\* Repair

\* Repair counts the snapshots and the rows of tables and files, nothing else.
LEMMA SameUse ==
    ASSUME NEW d, NEW e, e.snaps = d.snaps,
           {r \in e.rows : r.kind \in {"table", "file"}} = {r \in d.rows : r.kind \in {"table", "file"}}
    PROVE  /\ TableIds(e) = TableIds(d)
           /\ \A c \in CounterName : InUse(e, c) = InUse(d, c) /\ Correct(e, c) = Correct(d, c)
  <1>1. /\ {r \in e.rows : r.kind = "table"} = {r \in d.rows : r.kind = "table"}
        /\ {r \in e.rows : r.kind = "file"} = {r \in d.rows : r.kind = "file"}
    <2>1. \A r : r.kind \in {"table", "file"} => (r \in e.rows <=> r \in d.rows)
      <3> SUFFICES ASSUME NEW r, r.kind \in {"table", "file"} PROVE r \in e.rows <=> r \in d.rows
        OBVIOUS
      <3>1. r \in e.rows <=> r \in {q \in e.rows : q.kind \in {"table", "file"}}
        OBVIOUS
      <3>2. r \in d.rows <=> r \in {q \in d.rows : q.kind \in {"table", "file"}}
        OBVIOUS
      <3> QED BY <3>1, <3>2
    <2> QED BY <2>1
  <1>2. TableIds(e) = TableIds(d)
    BY <1>1 DEF TableIds
  <1>3. \A c \in CounterName : InUse(e, c) = InUse(d, c)
    BY <1>1, <1>2 DEF InUse, CounterName
  <1> QED BY <1>2, <1>3 DEF Correct

\* The catalog e is d after a repair, with the repairs p left to do.
AfterRepair(d, e, p) ==
    /\ SoundDb(e) /\ Repairs(e, p)
    /\ e.fv = d.fv /\ e.rows \in SUBSET d.rows /\ e.snaps = d.snaps
    /\ \A s \in Nat : \A W : Rooted(W) /\ Restored(d, {}, {}, s, W) => Restored(e, {}, {}, s, W)

\* What is left of the repairs fits the catalog after one of them.
LEMMA CounterRepair ==
    ASSUME NEW d, SoundDb(d), Bounded(d.rows), Bounded(d.snaps), NEW c \in CounterName, d.counter[c] # Absent,
           NEW p, Repairs(d, p), NEW a, a = <<"counter", c, Correct(d, c)>>,
           NEW e, e = [d EXCEPT !.counter[c] = Correct(d, c)]
    PROVE  AfterRepair(d, e, p \ {a})
  <1> DEFINE n == Correct(d, c)
  <1>1. /\ AnyDb(d) /\ d.counter \in [CounterName -> Nat]
        /\ d = [fv |-> d.fv, counter |-> d.counter, snaps |-> d.snaps, rows |-> d.rows, index |-> d.index]
    BY DEF SoundDb, AnyDb
  <1>2. /\ n \in Nat /\ n >= 1 /\ (\A i \in InUse(d, c) : i \in Nat /\ i < n)
        /\ n = 1 \/ n - 1 \in InUse(d, c)
    BY <1>1, CorrectFacts
  <1> HIDE DEF n
  <1>3. PICK cs : cs = [d.counter EXCEPT ![c] = n]
    OBVIOUS
  <1>4. cs \in [CounterName -> Nat] /\ cs[c] = n /\ \A k \in CounterName : k # c => cs[k] = d.counter[k]
    BY <1>1, <1>2, <1>3
  <1>5. e = [d EXCEPT !.counter = cs]
    BY <1>1, <1>3 DEF n
  <1>6. e = [fv |-> d.fv, counter |-> cs, snaps |-> d.snaps, rows |-> d.rows, index |-> d.index]
    BY <1>1, <1>5
  <1>7. e.fv = d.fv /\ e.counter = cs /\ e.rows = d.rows /\ e.index = d.index /\ e.snaps = d.snaps
    BY <1>6
  <1>8. AnyDb(e)
    BY <1>1, <1>4, <1>6, <1>7 DEF AnyDb
  <1>9. Reached(e)
    <2>1. CASE c = "snap"
      <3>1. Latest(e) = n - 1
        BY <1>4, <1>7, <2>1 DEF Latest
      <3>2. \A i \in InUse(d, c) : \E x \in d.snaps : x.id = i
        BY <2>1 DEF InUse
      <3>3. ASSUME NEW j \in 1..Latest(e) PROVE \E y \in e.snaps : y.id = j
        <4>1. n # 1
          BY <1>2, <3>1
        <4>2. PICK x \in d.snaps : x.id = n - 1
          BY <1>2, <3>2, <4>1
        <4>3. j \in 1..x.id
          BY <3>1, <4>2
        <4> QED BY <1>7, <4>2, <4>3 DEF SoundDb, Dense
      <3> QED BY <3>3 DEF Reached
    <2>2. CASE c # "snap"
      <3>1. e.counter["snap"] = d.counter["snap"]
        BY <1>4, <1>7, <2>2 DEF CounterName
      <3> QED BY <1>7, <3>1 DEF SoundDb, Reached, Latest
    <2> QED BY <2>1, <2>2
  <1>10. SoundDb(e)
    BY <1>7, <1>8, <1>9 DEF SoundDb, Indexed
  <1>11. /\ TableIds(e) = TableIds(d)
         /\ \A k \in CounterName : InUse(e, k) = InUse(d, k) /\ Correct(e, k) = Correct(d, k)
    BY <1>7, SameUse
  <1>12. Below(e, c) /\ \A k \in CounterName : Below(d, k) => Below(e, k)
    <2>1. Below(e, c)
      BY <1>2, <1>4, <1>7, <1>11 DEF Below
    <2>2. ASSUME NEW k \in CounterName, k # c, Below(d, k) PROVE Below(e, k)
      BY <1>4, <1>7, <1>11, <2>2 DEF Below
    <2> QED BY <2>1, <2>2
  <1>13. \A k \in CounterName : d.counter[k] # Absent => e.counter[k] # Absent
    BY <1>2, <1>4, <1>7 DEF Absent
  <1>14. Repairs(e, p \ {a})
    <2>1. ASSUME NEW b \in p
          PROVE  \/ b \in {<<"end", "ok", 0>>, <<"end", "failed", 0>>}
                 \/ \E k \in CounterName : b = <<"counter", k, Correct(e, k)>> /\ e.counter[k] # Absent
                 \/ /\ b = <<"remove", b[2], 0>> /\ b[2] \in CatRow /\ b[2].kind \in {"inline", "stat"}
                    /\ b[2].parent \notin TableIds(e)
      BY <1>11, <1>13 DEF Repairs
    <2>2. ASSUME <<"end", "ok", 0>> \in p, NEW k \in CounterName
          PROVE  Below(e, k) \/ <<"counter", k, Correct(e, k)>> \in p \ {a}
      <3>1. CASE k = c
        BY <1>12, <3>1
      <3>2. CASE k # c
        <4>1. <<"counter", k, Correct(e, k)>> # a
          BY <3>2
        <4>2. Below(d, k) \/ <<"counter", k, Correct(d, k)>> \in p
          BY <2>2 DEF Repairs
        <4> QED BY <1>11, <1>12, <4>1, <4>2
      <3> QED BY <3>1, <3>2
    <2> QED BY <2>1, <2>2 DEF Repairs
  <1>15. ASSUME NEW s \in Nat, NEW W, Restored(d, {}, {}, s, W)
         PROVE  Restored(e, {}, {}, s, W)
    <2>1. e.counter["snap"] <= s + 1
      <3>1. CASE c = "snap"
        <4>1. {x.id : x \in d.snaps \cup {}} = 1..s
          BY <1>15 DEF Restored
        <4>2. InUse(d, "snap") = 1..s
          BY <4>1 DEF InUse
        <4> QED BY <1>2, <1>4, <1>7, <3>1, <4>2
      <3>2. CASE c # "snap"
        BY <1>4, <1>7, <1>15, <3>2 DEF Restored, CounterName
      <3> QED BY <3>1, <3>2
    <2> QED BY <1>7, <1>15, <2>1 DEF Restored
  <1> QED BY <1>7, <1>10, <1>14, <1>15 DEF AfterRepair

\* A row that repair removes is no row that readers of the source saw.
LEMMA RemovalRepair ==
    ASSUME NEW d, SoundDb(d), NEW q \in CatRow, q.kind \in {"inline", "stat"}, q.parent \notin TableIds(d),
           NEW p, Repairs(d, p), NEW a, a[1] # "counter",
           NEW e, e = [d EXCEPT !.rows = d.rows \ {q}]
    PROVE  AfterRepair(d, e, p \ {a})
  <1>1. /\ AnyDb(d) /\ d.counter \in [CounterName -> Nat]
        /\ d = [fv |-> d.fv, counter |-> d.counter, snaps |-> d.snaps, rows |-> d.rows, index |-> d.index]
        /\ d.rows \in SUBSET CatRow
    BY DEF SoundDb, AnyDb
  <1>2. e = [fv |-> d.fv, counter |-> d.counter, snaps |-> d.snaps, rows |-> d.rows \ {q}, index |-> d.index]
    BY <1>1
  <1>3. /\ e.fv = d.fv /\ e.counter = d.counter /\ e.rows = d.rows \ {q} /\ e.index = d.index
        /\ e.snaps = d.snaps
    BY <1>2
  <1>4. AnyDb(e)
    BY <1>1, <1>2, <1>3 DEF AnyDb
  <1>5. SoundDb(e)
    BY <1>3, <1>4 DEF SoundDb, Indexed, Reached, Latest, UniqueKeys
  <1>6. /\ TableIds(e) = TableIds(d)
        /\ \A k \in CounterName : InUse(e, k) = InUse(d, k) /\ Correct(e, k) = Correct(d, k)
    <2>1. {r \in e.rows : r.kind \in {"table", "file"}} = {r \in d.rows : r.kind \in {"table", "file"}}
      BY <1>3
    <2>2. e.snaps = d.snaps
      BY <1>3
    <2> QED BY ONLY <2>1, <2>2, SameUse
  <1>7. \A k \in CounterName : Below(d, k) => Below(e, k)
    BY <1>3, <1>6 DEF Below
  <1>8. Repairs(e, p \ {a})
    <2>1. ASSUME NEW k \in CounterName PROVE <<"counter", k, Correct(e, k)>> # a
      OBVIOUS
    <2> QED BY <1>3, <1>6, <1>7, <2>1 DEF Repairs
  <1>9. ASSUME NEW s \in Nat, NEW W, Rooted(W), Restored(d, {}, {}, s, W)
        PROVE  Restored(e, {}, {}, s, W)
    <2>1. /\ UniqueKeys(d.rows) /\ d.index = FileRows(d.rows)
          /\ \A r \in d.rows : r.kind \in Versioned => Visible(r, s)
          /\ {Fact(r) : r \in {x \in d.rows : x.kind \in Versioned}} = W
      BY <1>9 DEF Restored
    <2>2. q \in d.rows => q.kind # "inline"
      <3> SUFFICES ASSUME q \in d.rows, q.kind = "inline" PROVE FALSE
        OBVIOUS
      <3>1. Fact(q) \in W /\ Fact(q)[1] = "inline" /\ Fact(q)[2] = q.parent
        BY <2>1, RowParts DEF Versioned
      <3>2. PICK g \in W : g[1] = "table" /\ g[3] = q.parent
        BY <1>9, <3>1 DEF Rooted
      <3>3. PICK r \in d.rows : Fact(r) = g
        BY <2>1
      <3>4. r.kind = "table" /\ r.id = q.parent
        BY <1>1, <3>2, <3>3, RowParts
      <3> QED BY <3>4 DEF TableIds
    <2>3. {x \in e.rows : x.kind \in Versioned} = {x \in d.rows : x.kind \in Versioned}
      BY <1>3, <2>2 DEF Versioned
    <2>4. e.index = FileRows(e.rows)
      BY <1>3, <2>1 DEF FileRows
    <2>5. UniqueKeys(e.rows \cup {}) /\ \A r \in e.rows \cup {} : r.kind \in Versioned => Visible(r, s)
      BY <1>3, <2>1 DEF UniqueKeys
    <2>6. {Fact(r) : r \in {x \in e.rows \cup {} : x.kind \in Versioned}} = W
      BY <2>1, <2>3
    <2>7. {x.id : x \in e.snaps \cup {}} = 1..s /\ e.counter["snap"] <= s + 1
      BY <1>3, <1>9 DEF Restored
    <2> QED BY <2>4, <2>5, <2>6, <2>7 DEF Restored
  <1> QED BY <1>3, <1>5, <1>8, <1>9 DEF AfterRepair

\* The plan of repair counts for every counter that is behind.
LEMMA PlanRepairs ==
    ASSUME NEW d, AnyDb(d), Bounded(d.rows), Bounded(d.snaps)
    PROVE  Repairs(d, Plan(d) \cup {<<"end", "ok", 0>>})
  <1> DEFINE p == Plan(d) \cup {<<"end", "ok", 0>>}
  <1>1. d.rows \in SUBSET CatRow /\ d.counter \in [CounterName -> Nat] /\ CountersRepaired = CounterName
    BY DEF AnyDb, CountersRepaired, CounterName
  <1>2. ASSUME NEW a \in p
        PROVE  \/ a \in {<<"end", "ok", 0>>, <<"end", "failed", 0>>}
               \/ \E c \in CounterName : a = <<"counter", c, Correct(d, c)>> /\ d.counter[c] # Absent
               \/ /\ a = <<"remove", a[2], 0>> /\ a[2] \in CatRow /\ a[2].kind \in {"inline", "stat"}
                  /\ a[2].parent \notin TableIds(d)
    <2>1. CASE a \in {<<"remove", r, 0>> : r \in Dangling(d)}
      <3>1. PICK r \in Dangling(d) : a = <<"remove", r, 0>>
        BY <2>1
      <3>2. a[2] = r /\ r \in CatRow /\ r.kind \in {"inline", "stat"} /\ r.parent \notin TableIds(d)
        BY <1>1, <3>1 DEF Dangling
      <3> QED BY <3>1, <3>2
    <2>2. CASE a \notin {<<"remove", r, 0>> : r \in Dangling(d)}
      BY <1>1, <2>2 DEF Plan
    <2> QED BY <2>1, <2>2
  <1>3. ASSUME NEW c \in CounterName
        PROVE  Below(d, c) \/ <<"counter", c, Correct(d, c)>> \in p
    <2>1. /\ Correct(d, c) \in Nat /\ d.counter[c] \in Nat
          /\ \A i \in InUse(d, c) : i \in Nat /\ i < Correct(d, c)
      BY <1>1, CorrectFacts
    <2>2. CASE d.counter[c] # Absent /\ d.counter[c] < Correct(d, c)
      BY <1>1, <2>2 DEF Plan
    <2>3. CASE d.counter[c] = Absent \/ d.counter[c] >= Correct(d, c)
      BY <2>1, <2>3 DEF Below
    <2> QED BY <2>1, <2>2, <2>3
  <1> QED BY <1>2, <1>3 DEF Repairs

-----------------------------------------------------------------------------
\* Commits on a catalog that tools have filled

\* What a commit may not take away.
Kept(d, e) ==
    /\ \A s \in d.snaps : s \in e.snaps
    /\ \A r \in d.rows : r.kind \in {"table", "file"} => \E q \in e.rows : Fact(q) = Fact(r)

\* The ids of the rows of a commit.
LEMMA CommitIds ==
    ASSUME NEW d, AnyDb(d), UniqueKeys(d.rows), NEW T \in SUBSET CatRow, NEW c \in CounterName,
           Adds(d, T, c) \/ Drops(d, T)
    PROVE  /\ UniqueKeys(T)
           /\ \A t \in T :
                  \/ \E r \in d.rows : t.kind = r.kind /\ t.id = r.id /\ Key(t) = Key(r) /\ Fact(t) = Fact(r)
                  \/ t.kind = "table" /\ t.id = d.counter["cat"] /\ c = "cat"
                  \/ t.kind = "file" /\ t.id = d.counter["file"] /\ c = "file"
                  \/ /\ t.kind \notin {"table", "file"}
                     /\ t.id \in {0, d.counter["snap"], d.counter["cat"], d.counter["file"]}
  <1>1. CASE Adds(d, T, c)
    <2>1. ASSUME NEW t \in T, Begun(d, t, c)
          PROVE  \/ t.kind = "table" /\ t.id = d.counter["cat"] /\ c = "cat"
                 \/ t.kind = "file" /\ t.id = d.counter["file"] /\ c = "file"
                 \/ /\ t.kind \notin {"table", "file"}
                    /\ t.id \in {0, d.counter["snap"], d.counter["cat"], d.counter["file"]}
      BY <2>1 DEF Begun, IdCounter, Versioned
    <2>2. ASSUME NEW t \in T, Apart(d, t) PROVE t.kind \notin {"table", "file"} /\ t.id = 0
      BY <2>2 DEF Apart
    <2> QED BY <1>1, <2>1, <2>2 DEF Adds
  <1>2. CASE Drops(d, T)
    <2>1. PICK o : T = Retired(d, Cascade(d, o))
      BY <1>2 DEF Drops
    <2>2. /\ Cascade(d, o) \in SUBSET d.rows
          /\ \A x \in T : \E r \in Cascade(d, o) :
                 /\ x = [r EXCEPT !.end = d.counter["snap"]]
                 /\ x.kind = r.kind /\ x.id = r.id /\ Key(x) = Key(r) /\ Fact(x) = Fact(r)
      BY <2>1, CascadeEnds
    <2>3. UniqueKeys(T)
      BY <2>2 DEF UniqueKeys
    <2> QED BY <2>2, <2>3
  <1> QED BY <1>1, <1>2

\* A commit keeps the ids bounded.
LEMMA CommitBounded ==
    ASSUME NEW d, AnyDb(d), UniqueKeys(d.rows), NEW e \in Commits(d)
    PROVE  /\ Bounded(d.rows) => Bounded(e.rows)
           /\ Bounded(d.snaps) => Bounded(e.snaps)
  <1>1. PICK T \in SUBSET CatRow, c \in CounterName :
            Becomes(d, e, T, FileRows(T), c) /\ (Adds(d, T, c) \/ Drops(d, T))
    BY CommitBecomes
  <1>2. /\ e.rows = Put(d.rows, T)
        /\ {x.id : x \in e.snaps} = {x.id : x \in d.snaps} \cup {d.counter["snap"]}
    BY <1>1 DEF Becomes
  <1>3. \A t \in T :
            \/ \E r \in d.rows : t.id = r.id
            \/ t.id \in {0, d.counter["snap"], d.counter["cat"], d.counter["file"]}
    BY <1>1, CommitIds
  <1>4. d.counter["snap"] \in Nat /\ d.counter["cat"] \in Nat /\ d.counter["file"] \in Nat
    BY DEF AnyDb, CounterName
  <1>5. \A x \in e.rows : x \in d.rows \/ x \in T
    BY <1>2 DEF Put
  <1>6. \A x \in e.snaps : x.id = d.counter["snap"] \/ \E y \in d.snaps : y.id = x.id
    <2>1. \A x \in e.snaps : x.id \in {y.id : y \in d.snaps} \cup {d.counter["snap"]}
      BY <1>2
    <2> QED BY <2>1
  <1>7. ASSUME Bounded(d.rows) PROVE Bounded(e.rows)
    <2>1. PICK n \in Nat : \A x \in d.rows : x.id \in 0..n
      BY <1>7 DEF Bounded
    <2>2. PICK m \in Nat : m = n + d.counter["snap"] + d.counter["cat"] + d.counter["file"]
      BY <1>4
    <2>3. \A x \in e.rows : x.id \in 0..m
      BY <1>3, <1>4, <1>5, <2>1, <2>2
    <2> QED BY <2>3 DEF Bounded
  <1>8. ASSUME Bounded(d.snaps) PROVE Bounded(e.snaps)
    <2>1. PICK n \in Nat : \A x \in d.snaps : x.id \in 0..n
      BY <1>8 DEF Bounded
    <2>2. PICK m \in Nat : m = n + d.counter["snap"]
      BY <1>4
    <2>3. \A x \in e.snaps : x.id \in 0..m
      BY <1>4, <1>6, <2>1, <2>2
    <2> QED BY <2>3 DEF Bounded
  <1> QED BY <1>7, <1>8

\* A commit keeps the catalog sound, and on counters ahead of all ids it takes
\* nothing away.
LEMMA CommitSound ==
    ASSUME NEW d, SoundDb(d), \A k \in CounterName : d.counter[k] # Absent, NEW e \in Commits(d)
    PROVE  /\ SoundDb(e) /\ e.fv = d.fv /\ \A k \in CounterName : e.counter[k] # Absent
           /\ Bounded(d.rows) => Bounded(e.rows)
           /\ Bounded(d.snaps) => Bounded(e.snaps)
           /\ Ahead(d) => Ahead(e) /\ Kept(d, e)
  <1>1. AnyDb(d) /\ d.rows \in SUBSET CatRow /\ UniqueKeys(d.rows) /\ UniqueIds(d.snaps) /\ Dense(d.snaps)
    BY DEF SoundDb, AnyDb
  <1>2. PICK T \in SUBSET CatRow, c \in CounterName :
            Becomes(d, e, T, FileRows(T), c) /\ (Adds(d, T, c) \/ Drops(d, T))
    BY <1>1, CommitBecomes
  <1>3. /\ AnyDb(e) /\ e.fv = d.fv /\ e.rows = Put(d.rows, T) /\ e.index = PutIndex(d.index, FileRows(T))
        /\ \A k \in CounterName :
               e.counter[k] = IF k \in {"snap", c} THEN d.counter[k] + 1 ELSE d.counter[k]
        /\ {x.id : x \in e.snaps} = {x.id : x \in d.snaps} \cup {d.counter["snap"]}
        /\ (\A x \in d.snaps : x.id # d.counter["snap"] => x \in e.snaps)
        /\ UniqueIds(e.snaps)
    BY <1>1, <1>2 DEF Becomes
  <1>4. /\ UniqueKeys(T)
        /\ \A t \in T :
               \/ \E r \in d.rows : t.kind = r.kind /\ t.id = r.id /\ Key(t) = Key(r) /\ Fact(t) = Fact(r)
               \/ t.kind = "table" /\ t.id = d.counter["cat"] /\ c = "cat"
               \/ t.kind = "file" /\ t.id = d.counter["file"] /\ c = "file"
               \/ /\ t.kind \notin {"table", "file"}
                  /\ t.id \in {0, d.counter["snap"], d.counter["cat"], d.counter["file"]}
    BY <1>1, <1>2, CommitIds
  <1>5. Indexed(e) /\ UniqueKeys(e.rows) /\ UniqueEntries(e.index)
    BY <1>3, <1>4, PutRows
  <1>6. /\ d.counter["snap"] \in Nat /\ d.counter["cat"] \in Nat /\ d.counter["file"] \in Nat
        /\ d.counter["snap"] >= 1 /\ Latest(d) = d.counter["snap"] - 1
        /\ e.counter["snap"] = d.counter["snap"] + 1 /\ Latest(e) = d.counter["snap"]
        /\ e.counter["cat"] = d.counter["cat"] + (IF c = "cat" THEN 1 ELSE 0)
        /\ e.counter["file"] = d.counter["file"] + (IF c = "file" THEN 1 ELSE 0)
    BY <1>1, <1>3 DEF AnyDb, CounterName, Absent, Latest
  <1>7. /\ \A x \in e.snaps : x.id = d.counter["snap"] \/ \E y \in d.snaps : y.id = x.id
        /\ \A y \in d.snaps : \E x \in e.snaps : x.id = y.id
        /\ \E x \in e.snaps : x.id = d.counter["snap"]
    <2>1. \A x \in e.snaps : x.id \in {y.id : y \in d.snaps} \cup {d.counter["snap"]}
      BY <1>3
    <2>2. \A y \in d.snaps : y.id \in {x.id : x \in e.snaps}
      BY <1>3
    <2>3. d.counter["snap"] \in {x.id : x \in e.snaps}
      BY <1>3
    <2> QED BY <2>1, <2>2, <2>3
  <1>8. \A j \in 1..d.counter["snap"] : \E x \in e.snaps : x.id = j
    <2> SUFFICES ASSUME NEW j \in 1..d.counter["snap"] PROVE \E x \in e.snaps : x.id = j
      OBVIOUS
    <2>1. CASE j = d.counter["snap"]
      BY <1>7, <2>1
    <2>2. CASE j # d.counter["snap"]
      <3>1. j \in 1..Latest(d)
        BY <1>6, <2>2
      <3>2. \E y \in d.snaps : y.id = j
        BY <3>1 DEF SoundDb, Reached, CounterName
      <3> QED BY <1>7, <3>2
    <2> QED BY <2>1, <2>2
  <1>9. Reached(e)
    BY <1>6, <1>8 DEF Reached
  <1>10. Dense(e.snaps)
    <2> SUFFICES ASSUME NEW x \in e.snaps, NEW j \in 1..x.id PROVE \E y \in e.snaps : y.id = j
      BY DEF Dense
    <2>1. CASE x.id = d.counter["snap"]
      BY <1>8, <2>1
    <2>2. CASE \E y \in d.snaps : y.id = x.id
      BY <1>1, <1>7, <2>2 DEF Dense
    <2> QED BY <1>7, <2>1, <2>2
  <1>11. SoundDb(e)
    BY <1>3, <1>5, <1>9, <1>10 DEF SoundDb
  <1>12. \A k \in CounterName : e.counter[k] # Absent
    BY <1>1, <1>3 DEF AnyDb, Absent
  <1>13. \A x \in e.rows : x \in d.rows \/ x \in T
    BY <1>3 DEF Put
  <1>14. (Bounded(d.rows) => Bounded(e.rows)) /\ (Bounded(d.snaps) => Bounded(e.snaps))
    BY <1>1, CommitBounded
  <1>16. ASSUME Ahead(d) PROVE Ahead(e) /\ Kept(d, e)
    <2>1. /\ \A x \in d.snaps : x.id \in Nat /\ x.id < d.counter["snap"]
          /\ \A r \in d.rows : r.kind = "table" => r.id \in Nat /\ r.id < d.counter["cat"]
          /\ \A r \in d.rows : r.kind = "file" => r.id \in Nat /\ r.id < d.counter["file"]
      <3>1. Below(d, "snap") /\ Below(d, "cat") /\ Below(d, "file")
        BY <1>16 DEF Ahead, CounterName
      <3>2. \A x \in d.snaps : x.id \in Nat
        BY <1>1 DEF AnyDb
      <3>3. \A r \in d.rows : r.id \in Nat
        BY <1>1 DEF CatRow
      <3>4. d.counter["snap"] # Absent /\ d.counter["cat"] # Absent /\ d.counter["file"] # Absent
        BY DEF CounterName
      <3> QED BY <3>1, <3>2, <3>3, <3>4 DEF Below, InUse, TableIds
    <2>2. Below(e, "snap")
      BY <1>6, <1>7, <2>1 DEF Below, InUse
    <2>3. \A x \in e.rows : x.kind = "table" => x.id < e.counter["cat"]
      BY <1>4, <1>6, <1>13, <2>1
    <2>4. \A x \in e.rows : x.kind = "file" => x.id < e.counter["file"]
      BY <1>4, <1>6, <1>13, <2>1
    <2>5. Below(e, "cat") /\ Below(e, "file")
      BY <2>3, <2>4 DEF Below, InUse, TableIds
    <2>6. \A x \in d.snaps : x \in e.snaps
      BY <1>3, <1>6, <2>1
    <2>7. ASSUME NEW r \in d.rows, r.kind \in {"table", "file"}
          PROVE  \E q \in e.rows : Fact(q) = Fact(r)
      <3>1. CASE r \in e.rows
        BY <3>1
      <3>2. CASE r \notin e.rows
        <4>1. PICK t \in T : Key(t) = Key(r) /\ t \in e.rows
          BY <1>3, <3>2 DEF Put
        <4>2. t.kind = r.kind /\ t.id = r.id
          BY <1>1, <4>1, SameKey
        <4>3. PICK o \in d.rows : Key(t) = Key(o) /\ Fact(t) = Fact(o)
          BY <1>4, <1>6, <2>1, <2>7, <4>2
        <4>4. o = r
          BY <1>1, <4>1, <4>3 DEF UniqueKeys
        <4> QED BY <4>1, <4>3, <4>4
      <3> QED BY <3>1, <3>2
    <2> QED BY <2>2, <2>5, <2>6, <2>7 DEF Ahead, Kept, CounterName
  <1> QED BY <1>3, <1>11, <1>12, <1>14, <1>16

-----------------------------------------------------------------------------
\* The steps of the tools

\* The ids of the source and of its export stay bounded.
LEMMA SrcBoundedStep ==
    ASSUME SrcInv, ExportInv(export), FileInv, SrcBounded, DbShape, [NextTransfer]_transfer
    PROVE  SrcBounded'
  <1>1. /\ Bounded(db[Src].rows) /\ Bounded(db[Src].snaps) /\ Bounded(export.rows) /\ Bounded(export.snaps)
        /\ Bounded(file.rows) /\ Bounded(file.snaps)
    BY DEF SrcBounded
  <1>2. CASE CommitSrc
    <2>1. PICK d, e : d = db[Src] /\ e \in Commits(d) /\ db' = [db EXCEPT ![Src] = e]
      BY <1>2 DEF CommitSrc
    <2>2. db'[Src] = e /\ UNCHANGED <<export, file>>
      BY <1>2, <2>1 DEF DbShape, CommitSrc
    <2>3. AnyDb(d) /\ UniqueKeys(d.rows)
      BY <2>1 DEF SrcInv, OwnDb
    <2>4. Bounded(e.rows) /\ Bounded(e.snaps)
      BY <1>1, <2>1, <2>3, CommitBounded
    <2> QED BY <1>1, <2>2, <2>4 DEF SrcBounded
  <1>3. CASE ExportScan
    <2>1. PICK d, o, x, kind : d = db[Src] /\ o = export /\ x = export' /\ kind = ExportOrder[export.scan]
      OBVIOUS
    <2>2. o = [at |-> o.at, scan |-> o.scan, known |-> o.known, snaps |-> o.snaps, rows |-> o.rows]
      BY <2>1 DEF ExportInv
    <2>3. x = [o EXCEPT !.scan = o.scan + 1,
                        !.snaps = IF kind = "snapshot" THEN {y \in d.snaps : y.id <= o.at} ELSE o.snaps,
                        !.rows = o.rows \cup Scanned(d, kind, o.at)]
      BY <1>3, <2>1 DEF ExportScan
    <2>4. /\ x.snaps = IF kind = "snapshot" THEN {y \in d.snaps : y.id <= o.at} ELSE o.snaps
          /\ x.rows = o.rows \cup Scanned(d, kind, o.at)
      BY <2>2, <2>3
    <2>5. d.rows \in SUBSET CatRow
      BY <2>1 DEF SrcInv, OwnDb, AnyDb
    <2>6. \A r \in Scanned(d, kind, o.at) : \E q \in d.rows : r.id = q.id
      BY <2>5, JsonRow DEF Scanned
    <2>7. Bounded(d.rows) /\ Bounded(d.snaps) /\ Bounded(o.rows) /\ Bounded(o.snaps)
      BY <1>1, <2>1
    <2>8. /\ \A r \in x.rows : \E q \in o.rows \cup d.rows : r.id = q.id
          /\ \A r \in x.snaps : \E q \in o.snaps \cup d.snaps : r.id = q.id
      BY <2>4, <2>6
    <2>9. Bounded(x.rows) /\ Bounded(x.snaps)
      BY ONLY <2>7, <2>8, BoundedParts
    <2> QED BY <1>1, <1>3, <2>1, <2>9 DEF ExportScan, SrcBounded
  <1>4. \A S : S = {} => Bounded(S)
    BY DEF Bounded
  <1>5. CASE ExportStart
    <2>1. /\ export'.rows = {} /\ export'.snaps = {} /\ UNCHANGED <<db, file>>
      BY <1>5 DEF ExportStart, NotExporting
    <2>2. Bounded(export'.rows) /\ Bounded(export'.snaps)
      BY <1>4, <2>1
    <2> QED BY <1>1, <2>1, <2>2 DEF SrcBounded
  <1>6. CASE ExportDone
    <2>1. /\ export'.rows = {} /\ export'.snaps = {} /\ file' = export /\ UNCHANGED db
      BY <1>6 DEF ExportDone, NotExporting
    <2>2. Bounded(export'.rows) /\ Bounded(export'.snaps)
      BY <1>4, <2>1
    <2> QED BY <1>1, <2>1, <2>2 DEF SrcBounded
  <1>7. CASE ~CommitSrc /\ UNCHANGED <<export, file>>
    <2>1. db'[Src] = db[Src]
      BY <1>7, OtherSteps
    <2> QED BY <1>1, <1>7, <2>1 DEF SrcBounded
  <1>8. \/ ExportStart \/ ExportScan \/ ExportDone \/ UNCHANGED <<export, file>>
    BY DEF NextTransfer, transfer, ImportStart, ImportLine, MigrateFromSource, Fill, Write, MigrateTable,
           MigrateSkip, FillDone, FillStops, Rebuild, MigrateApply, RepairStart, RepairAction,
           RepairActionFails, RepairDone, RepairStops, Open, CommitSrc, CommitDst
  <1> QED BY <1>2, <1>3, <1>5, <1>6, <1>7, <1>8

\* What Dst is being filled with does not change with what the source does.
LEMMA WantKept ==
    ASSUME SrcGrows, origin.at \in 1..Latest(db[Src]), origin'.at = origin.at, origin'.tool = origin.tool
    PROVE  Want' = Want /\ origin'.at \in 1..Latest(db'[Src])
  <1>1. seen'[origin.at] = seen[origin.at]
    BY DEF SrcGrows
  <1>2. origin'.at \in 1..Latest(db'[Src])
    BY DEF SrcGrows
  <1> QED BY <1>1, <1>2 DEF Want

\* Steps that leave Dst alone.
LEMMA KeptStep ==
    ASSUME DstSide, SrcGrows, DbShape', db'[Dst] = db[Dst],
           UNCHANGED <<serving, feed, plan, origin, repaired, left>>
    PROVE  DstSide'
  <1>1. FeedInv' /\ DstBounded'
    BY DEF DstSide, FeedInv, DstBounded
  <1>2. DstInv'
    BY DEF DstSide, DstInv
  <1>3. PlanInv'
    BY DEF DstSide, PlanInv
  <1>4. OriginInv'
    <2>1. OriginInv /\ feed' = feed /\ origin' = origin
      BY DEF DstSide
    <2>2. ASSUME origin.at # 0, feed.tool # "none" \/ origin.done
          PROVE  origin'.at \in 1..Latest(db'[Src]) /\ Restored(db'[Dst], feed'.rows, feed'.snaps, origin'.at, Want')
      <3>1. origin.at \in 1..Latest(db[Src]) /\ Restored(db[Dst], feed.rows, feed.snaps, origin.at, Want)
        BY <2>1, <2>2 DEF OriginInv
      <3>2. Want' = Want /\ origin'.at \in 1..Latest(db'[Src])
        BY <2>1, <3>1, WantKept
      <3> QED BY <2>1, <3>1, <3>2
    <2> QED BY <2>1, <2>2 DEF OriginInv
  <1> QED BY <1>1, <1>2, <1>3, <1>4 DEF DstSide

\* The tools count as such.
LEMMA ToolUsed ==
    ASSUME DstInv, UseTool
    PROVE  left'.commits = left.commits /\ left' = [tools |-> left'.tools, commits |-> left'.commits]
  <1>1. left = [tools |-> left.tools, commits |-> left.commits] /\ left' = [left EXCEPT !.tools = left.tools - 1]
    BY DEF DstInv, UseTool
  <1>2. left' = [tools |-> left.tools - 1, commits |-> left.commits]
    BY <1>1
  <1> QED BY <1>2

\* A path without a catalog, and one where a catalog has just been opened.
LEMMA EmptyParts ==
    ASSUME NEW b \in {EmptyDb, Initialized(EmptyDb)}
    PROVE  /\ b.rows = {} /\ b.index = {} /\ b.snaps = {} /\ b.counter["snap"] \in {0, 1}
  <1> DEFINE zero == [c \in {"snap", "cat", "file"} |-> Absent]
             one == [c \in {"snap", "cat", "file"} |-> 1]
  <1>1. zero["snap"] = 0 /\ one["snap"] = 1
    BY DEF Absent
  <1>2. EmptyDb = [fv |-> Absent, counter |-> zero, snaps |-> {}, rows |-> {}, index |-> {}]
    BY DEF EmptyDb
  <1> HIDE DEF zero
  <1>3. Initialized(EmptyDb) = [[fv |-> Absent, counter |-> zero, snaps |-> {}, rows |-> {}, index |-> {}]
                                    EXCEPT !.fv = Format, !.counter = one]
    BY <1>2 DEF Initialized
  <1> HIDE DEF one
  <1>4. Initialized(EmptyDb) = [fv |-> Format, counter |-> one, snaps |-> {}, rows |-> {}, index |-> {}]
    BY <1>3
  <1>5. CASE b = EmptyDb
    BY <1>1, <1>2, <1>5
  <1>6. CASE b = Initialized(EmptyDb)
    BY <1>1, <1>4, <1>6
  <1> QED BY <1>5, <1>6

\* Beginning to fill Dst.
LEMMA FillStep ==
    ASSUME DstSide, SrcGrows, UNCHANGED seen, db'[Src] = db[Src],
           feed = NoFeed, plan = {},
           NEW tool \in {"import", "migrate"}, NEW S, NEW R, NEW s \in Nat, NEW d,
           Fill(tool, S, R, s, d),
           AnyDb(d), d.rows = db[Dst].rows, d.index = db[Dst].index, d.snaps = db[Dst].snaps,
           d.counter["snap"] = db[Dst].counter["snap"] \/ d.counter["snap"] = 1,
           R \in SUBSET CatRow, \A r \in R : Proper(r), UniqueKeys(R), UniqueIds(S), Dense(S),
           \A x \in S : x.id \in Nat, Bounded(R), Bounded(S),
           s # 0 => /\ s \in 1..Latest(db[Src])
                    /\ \A r \in R : r.kind \in Versioned => Visible(r, s)
                    /\ {Fact(r) : r \in {x \in R : x.kind \in Versioned}} =
                           (IF tool = "import" THEN seen[s] ELSE {f \in seen[s] : f[1] # "inline"})
                    /\ {x.id : x \in S} = 1..s
    PROVE  DstSide'
  <1>1. PICK b : b = db[Dst]
    OBVIOUS
  <1>2. /\ SoundDb(b) /\ DbShape /\ Src \in serving /\ left.commits \in 0..MaxCommits
        /\ left.commits = MaxCommits => \A r \in b.rows : Proper(r)
        /\ Bounded(b.rows) /\ Bounded(b.snaps)
    BY <1>1 DEF DstSide, DstInv, DstBounded
  <1>3. /\ feed' = [tool |-> tool, snaps |-> S, rows |-> R]
        /\ db' = [db EXCEPT ![Dst] = d]
        /\ origin' = IF b \in {EmptyDb, Initialized(EmptyDb)}
                     THEN [tool |-> tool, at |-> s, done |-> FALSE] ELSE Mixed
        /\ serving' = serving \ {Dst} /\ repaired' = FALSE /\ plan' = {}
        /\ left' = [left EXCEPT !.tools = left.tools - 1]
    BY <1>1 DEF Fill, UseTool
  <1>4. db'[Dst] = d /\ DbShape'
    BY <1>2, <1>3 DEF DbShape
  <1>5. feed'.tool = tool /\ feed'.snaps = S /\ feed'.rows = R /\ tool # "none"
    BY <1>3
  <1>6. left'.commits = left.commits /\ left' = [tools |-> left'.tools, commits |-> left'.commits]
    BY ToolUsed DEF Fill, DstSide
  <1>7. SoundDb(d)
    <2>1. Dense(d.snaps) /\ UniqueKeys(d.rows) /\ UniqueEntries(d.index) /\ UniqueIds(d.snaps) /\ Indexed(d)
      BY <1>1, <1>2 DEF SoundDb, Indexed
    <2>2. Reached(d)
      <3>1. CASE d.counter["snap"] = b.counter["snap"]
        BY <1>1, <1>2, <3>1 DEF SoundDb, Reached, Latest
      <3>2. CASE d.counter["snap"] = 1
        BY <3>2 DEF Reached, Latest
      <3> QED BY <1>1, <3>1, <3>2
    <2> QED BY <2>1, <2>2 DEF SoundDb
  <1>8. FeedInv'
    <2>1. \A x \in S : \A j \in 1..(x.id - 1) : \E y \in d.snaps \cup S : y.id = j
      <3> SUFFICES ASSUME NEW x \in S, NEW j \in 1..(x.id - 1) PROVE \E y \in S : y.id = j
        OBVIOUS
      <3>1. x.id \in Nat
        OBVIOUS
      <3>2. j \in 1..x.id
        BY <3>1
      <3> QED BY <3>2 DEF Dense
    <2> QED BY <1>3, <1>4, <1>5, <2>1 DEF FeedInv
  <1>9. DstBounded'
    BY <1>1, <1>2, <1>4, <1>5 DEF DstBounded
  <1>10. DstInv'
    <2>1. left'.commits = MaxCommits => \A r \in d.rows : Proper(r)
      BY <1>1, <1>2, <1>6
    <2>2. Dst \notin serving' /\ Src \in serving'
      BY <1>2, <1>3 DEF Src, Dst
    <2> QED BY <1>2, <1>3, <1>4, <1>6, <1>7, <2>1, <2>2 DEF DstInv
  <1>11. PlanInv'
    <2>1. Repairs(db'[Dst], plan')
      BY <1>3 DEF Repairs
    <2> QED BY <1>3, <2>1 DEF PlanInv
  <1>12. OriginInv'
    <2>1. CASE b \in {EmptyDb, Initialized(EmptyDb)} /\ s # 0
      <3>1. /\ origin' = [tool |-> tool, at |-> s, done |-> FALSE]
            /\ origin'.tool = tool /\ origin'.at = s /\ origin'.done = FALSE
        BY <1>3, <2>1
      <3>2. /\ d.rows = {} /\ d.index = {} /\ d.snaps = {}
        BY <1>1, <2>1, EmptyParts
      <3>3. d.counter["snap"] \in {0, 1}
        BY <1>1, <2>1, EmptyParts
      <3>4. Want' = (IF tool = "import" THEN seen[s] ELSE {f \in seen[s] : f[1] # "inline"})
        BY <3>1 DEF Want
      <3>5. /\ UniqueKeys(d.rows \cup R) /\ d.index = FileRows(d.rows)
            /\ \A r \in d.rows \cup R : r.kind \in Versioned => Visible(r, s)
        BY <2>1, <3>2 DEF FileRows
      <3>6. {Fact(r) : r \in {x \in d.rows \cup R : x.kind \in Versioned}} = Want'
        <4>1. d.rows \cup R = R
          BY <3>2
        <4> QED BY <2>1, <3>4, <4>1
      <3>7. {x.id : x \in d.snaps \cup S} = 1..s
        <4>1. d.snaps \cup S = S
          BY <3>2
        <4> QED BY <2>1, <4>1
      <3>8. d.counter["snap"] <= s + 1
        BY <3>3
      <3>9. Restored(d, R, S, s, Want')
        BY <3>5, <3>6, <3>7, <3>8 DEF Restored
      <3>10. s \in 1..Latest(db'[Src])
        BY <2>1
      <3> QED BY <1>4, <1>5, <3>1, <3>9, <3>10 DEF OriginInv
    <2>2. CASE b \in {EmptyDb, Initialized(EmptyDb)} /\ s = 0
      <3>1. /\ origin' = [tool |-> tool, at |-> s, done |-> FALSE]
            /\ origin'.tool = tool /\ origin'.at = 0 /\ origin'.done = FALSE
        BY <1>3, <2>2
      <3> QED BY <2>2, <3>1 DEF OriginInv
    <2>3. CASE b \notin {EmptyDb, Initialized(EmptyDb)}
      <3>1. /\ origin' = [tool |-> "mixed", at |-> 0, done |-> FALSE]
            /\ origin'.tool = "mixed" /\ origin'.at = 0 /\ origin'.done = FALSE
        BY <1>3, <2>3 DEF Mixed
      <3> QED BY <3>1 DEF OriginInv
    <2> QED BY <2>1, <2>2, <2>3
  <1> QED BY <1>8, <1>9, <1>10, <1>11, <1>12 DEF DstSide

\* Import begins with the lines of the file.
LEMMA ImportStartStep ==
    ASSUME SrcInv, FileInv, SrcBounded, DstSide, SrcGrows, UNCHANGED seen, db'[Src] = db[Src], ImportStart
    PROVE  DstSide'
  <1>1. PICK f, S, R, s, d : /\ f = file /\ S = file.snaps /\ R = file.rows /\ d = db[Dst]
                             /\ s = IF file.known THEN file.at ELSE 0
    OBVIOUS
  <1>2. Fill("import", S, R, s, d) /\ feed = NoFeed /\ plan = {}
    BY <1>1 DEF ImportStart, Fill, Idle
  <1>3. ExportInv(f) /\ (f.known => f.scan = 8)
    BY <1>1 DEF FileInv
  <1>4. /\ f.at \in Nat /\ f.known \in BOOLEAN /\ R \in SUBSET CatRow /\ (\A x \in S : x.id \in Nat)
        /\ Dense(S) /\ UniqueIds(S) /\ UniqueKeys(R) /\ \A r \in R : Proper(r)
    BY <1>1, <1>3 DEF ExportInv
  <1>5. s \in Nat /\ (s # 0 => f.known /\ s = f.at)
    BY <1>1, <1>4
  <1>6. AnyDb(d)
    BY <1>1 DEF DstSide, DstInv, SoundDb
  <1>7. Bounded(R) /\ Bounded(S)
    BY <1>1 DEF SrcBounded
  <1>8. ASSUME s # 0
        PROVE  /\ s \in 1..Latest(db[Src])
               /\ \A r \in R : r.kind \in Versioned => Visible(r, s)
               /\ {Fact(r) : r \in {x \in R : x.kind \in Versioned}} =
                      (IF "import" = "import" THEN seen[s] ELSE {y \in seen[s] : y[1] # "inline"})
               /\ {x.id : x \in S} = 1..s
    <2>1. /\ s \in 1..Latest(db[Src]) /\ f.scan = 8
          /\ {x.id : x \in S} = 1..s
          /\ \A r \in R : r.kind # "stat" => Visible(r, s)
          /\ \A r \in R : \E i \in 1..7 : r.kind = ExportOrder[i]
          /\ {Fact(r) : r \in {x \in R : x.kind # "stat"}} =
                 {y \in seen[s] : \E i \in 1..7 : y[1] = ExportOrder[i]}
      BY <1>1, <1>3, <1>5, <1>8 DEF ExportInv
    <2>2. \A r \in R : r.kind \in Versioned <=> r.kind # "stat"
      BY <1>4, <2>1, OrderKinds, RowParts
    <2>3. {x \in R : x.kind \in Versioned} = {x \in R : x.kind # "stat"}
      BY <2>2
    <2>4. \A y \in seen[s] : y[1] \in Versioned
      <3>1. OwnDb(db[Src]) /\ seen[s] = FactsAt(db[Src].rows, s)
        BY <2>1 DEF SrcInv
      <3> QED BY <3>1, RowParts DEF FactsAt, OwnDb, AnyDb
    <2>5. {y \in seen[s] : \E i \in 1..7 : y[1] = ExportOrder[i]} = seen[s]
      BY <2>4, OrderKinds
    <2> QED BY <2>1, <2>2, <2>3, <2>5
  <1>9. d.rows = db[Dst].rows /\ d.index = db[Dst].index /\ d.snaps = db[Dst].snaps
        /\ d.counter["snap"] = db[Dst].counter["snap"]
    BY <1>1
  <1> QED BY <1>2, <1>4, <1>5, <1>6, <1>7, <1>8, <1>9, FillStep

\* Migration begins with what is visible in the source at its snapshot.
LEMMA MigrateStartStep ==
    ASSUME SrcInv, SrcBounded, DstSide, SrcGrows, UNCHANGED seen, db'[Src] = db[Src], MigrateFromSource
    PROVE  DstSide'
  <1>1. PICK o, b, d : o = db[Src] /\ b = db[Dst] /\ d = Opened(b)
    OBVIOUS
  <1>2. PICK s \in 1..Latest(o) : \E S, R :
            /\ S = {x \in o.snaps : x.id <= s}
            /\ R = {ToJson(r) : r \in {x \in o.rows :
                        x.kind \in {"table", "file", "delfile", "view"} /\ Visible(x, s)}}
            /\ Fill("migrate", S, R, s, d)
    BY <1>1 DEF MigrateFromSource, Fill
  <1>3. PICK S, R :
            /\ S = {x \in o.snaps : x.id <= s}
            /\ R = {ToJson(r) : r \in {x \in o.rows :
                        x.kind \in {"table", "file", "delfile", "view"} /\ Visible(x, s)}}
            /\ Fill("migrate", S, R, s, d)
    BY <1>2
  <1>4. feed = NoFeed /\ plan = {} /\ CanOpen(b)
    BY <1>1 DEF MigrateFromSource, Idle
  <1>5. OwnDb(o) /\ seen[s] = FactsAt(o.rows, s)
    BY <1>1 DEF SrcInv
  <1>6. s \in Nat /\ s <= Latest(o) /\ s # 0
    BY <1>5, OwnRows
  <1>7. AnyDb(b)
    BY <1>1 DEF DstSide, DstInv, SoundDb
  <1>8. /\ AnyDb(d) /\ d.rows = b.rows /\ d.index = b.index /\ d.snaps = b.snaps
        /\ d.counter["snap"] = b.counter["snap"] \/ d.counter["snap"] = 1
    BY <1>1, <1>4, <1>7, OpenedDb
  <1>9. Dense(S) /\ UniqueIds(S) /\ (\A x \in S : x.id \in Nat) /\ {x.id : x \in S} = 1..s
    BY <1>3, <1>5, <1>6, SnapsUpTo
  <1>10. AnyDb(o) /\ UniqueKeys(o.rows) /\ o.rows \in SUBSET CatRow /\ \A r \in o.rows : Proper(r)
    BY <1>5 DEF OwnDb, AnyDb
  <1> DEFINE Q == {x \in o.rows : x.kind \in {"table", "file", "delfile", "view"} /\ Visible(x, s)}
  <1>11. R = {ToJson(r) : r \in Q} /\ \A r \in Q : r \in o.rows /\ Visible(r, s) /\ r.kind \in Versioned
    BY <1>3 DEF Versioned
  <1>12. {Fact(r) : r \in Q} = {f \in seen[s] : f[1] # "inline"}
    <2>1. \A r \in o.rows : Fact(r)[1] = r.kind
      BY <1>10, RowParts
    <2> QED BY <1>5, <2>1 DEF FactsAt, Versioned
  <1> HIDE DEF Q
  <1>13. Reduced(o, R)
    BY <1>11 DEF Reduced
  <1>14. R \in SUBSET CatRow /\ UniqueKeys(R)
    BY <1>10, <1>13, ReducedRows
  <1>15. \A r \in Q : /\ ToJson(r).kind = r.kind /\ ToJson(r).id = r.id /\ ToJson(r).begin = r.begin
                      /\ ToJson(r).end = r.end /\ Fact(ToJson(r)) = Fact(r)
    BY <1>10, <1>11, JsonRow
  <1>16. \A r \in R : Proper(r) /\ Visible(r, s) /\ r.kind \in Versioned
    <2> SUFFICES ASSUME NEW r \in Q
                 PROVE  Proper(ToJson(r)) /\ Visible(ToJson(r), s) /\ ToJson(r).kind \in Versioned
      BY <1>11
    <2> QED BY <1>10, <1>11, <1>15 DEF Proper, Visible
  <1>17. {Fact(r) : r \in {x \in R : x.kind \in Versioned}} = {f \in seen[s] : f[1] # "inline"}
    <2>1. {x \in R : x.kind \in Versioned} = R
      BY <1>16
    <2>2. {Fact(r) : r \in R} = {Fact(r) : r \in Q}
      BY <1>11, <1>15
    <2> QED BY <1>12, <2>1, <2>2
  <1>18. Bounded(R) /\ Bounded(S)
    <2>1. Bounded(o.rows) /\ Bounded(o.snaps)
      BY <1>1 DEF SrcBounded
    <2>2. \A r \in R : \E q \in o.rows \cup o.rows : r.id = q.id
      BY <1>11, <1>15
    <2>3. \A r \in S : \E q \in o.snaps \cup o.snaps : r.id = q.id
      BY <1>3
    <2> QED BY ONLY <2>1, <2>2, <2>3, BoundedParts
  <1>19. s \in 1..Latest(db[Src]) /\ "migrate" # "import"
    BY <1>1
  <1>20. /\ d.rows = db[Dst].rows /\ d.index = db[Dst].index /\ d.snaps = db[Dst].snaps
         /\ d.counter["snap"] = db[Dst].counter["snap"] \/ d.counter["snap"] = 1
    BY <1>1, <1>8
  <1>21. \A r \in R : Proper(r)
    BY <1>16
  <1>22. \A r \in R : r.kind \in Versioned => Visible(r, s)
    BY <1>16
  <1>23. {Fact(r) : r \in {x \in R : x.kind \in Versioned}} =
             (IF "migrate" = "import" THEN seen[s] ELSE {f \in seen[s] : f[1] # "inline"})
    BY <1>17
  <1> QED BY <1>3, <1>4, <1>6, <1>8, <1>9, <1>14, <1>18, <1>19, <1>20, <1>21, <1>22, <1>23, FillStep

\* While Dst is filled nothing else is at work on it.
LEMMA Filling ==
    ASSUME DstSide, feed.tool # "none"
    PROVE  plan = {} /\ Dst \notin serving /\ ~repaired /\ ~origin.done
  <1>1. feed # NoFeed
    BY DEF NoFeed
  <1> QED BY <1>1 DEF DstSide, DstInv, PlanInv, OriginInv

\* Some of the lines are written to Dst.
LEMMA WriteStep ==
    ASSUME DstSide, SrcGrows, feed.tool # "none",
           NEW N \in SUBSET feed.snaps, NEW T \in SUBSET feed.rows, Write(N, T),
           \A x \in N : \A j \in 1..(x.id - 1) : \E y \in db[Dst].snaps \cup N : y.id = j
    PROVE  DstSide'
  <1>1. PICK d, e, F, S : d = db[Dst] /\ e = db'[Dst] /\ F = feed.rows /\ S = feed.snaps
    OBVIOUS
  <1>2. /\ SoundDb(d) /\ DbShape /\ Src \in serving /\ left.commits \in 0..MaxCommits
        /\ left.commits = MaxCommits => \A r \in d.rows : Proper(r)
        /\ Bounded(d.rows) /\ Bounded(d.snaps) /\ Bounded(F) /\ Bounded(S)
    BY <1>1 DEF DstSide, DstInv, DstBounded
  <1>3. plan = {} /\ Dst \notin serving /\ ~repaired /\ ~origin.done
    BY Filling
  <1>4. /\ feed = [tool |-> feed.tool, snaps |-> S, rows |-> F]
        /\ F \in SUBSET CatRow /\ (\A r \in F : Proper(r)) /\ UniqueKeys(F) /\ UniqueIds(S)
        /\ \A x \in S : x.id \in Nat /\ \A j \in 1..(x.id - 1) : \E y \in d.snaps \cup S : y.id = j
    BY <1>1 DEF DstSide, FeedInv
  <1>5. /\ db' = [db EXCEPT ![Dst].snaps = {x \in d.snaps : \A y \in N : x.id # y.id} \cup N,
                            ![Dst].rows = Put(d.rows, T),
                            ![Dst].index = PutIndex(d.index, FileRows(T))]
        /\ feed' = [feed EXCEPT !.snaps = S \ N, !.rows = F \ T]
        /\ UNCHANGED <<serving, plan, origin, repaired, left>>
    BY <1>1 DEF Write, IndexEntries, FileRows
  <1>6. feed'.tool = feed.tool /\ feed'.snaps = S \ N /\ feed'.rows = F \ T
        /\ feed' = [tool |-> feed'.tool, snaps |-> feed'.snaps, rows |-> feed'.rows]
    BY <1>4, <1>5
  <1> DEFINE X == {x \in d.snaps : \A y \in N : x.id # y.id} \cup N
  <1>7. /\ d = [fv |-> d.fv, counter |-> d.counter, snaps |-> d.snaps, rows |-> d.rows, index |-> d.index]
        /\ AnyDb(d)
    BY <1>2 DEF SoundDb, AnyDb
  <1>8. /\ e = [d EXCEPT !.snaps = X, !.rows = Put(d.rows, T), !.index = PutIndex(d.index, FileRows(T))]
        /\ DbShape'
    <2> HIDE DEF X
    <2>1. db' = [db EXCEPT ![Dst].snaps = X, ![Dst].rows = Put(d.rows, T),
                           ![Dst].index = PutIndex(d.index, FileRows(T))]
      BY <1>5 DEF X
    <2> QED BY <1>1, <1>2, <2>1 DEF DbShape
  <1> HIDE DEF X
  <1>9. e = [fv |-> d.fv, counter |-> d.counter, snaps |-> X, rows |-> Put(d.rows, T),
             index |-> PutIndex(d.index, FileRows(T))]
    BY <1>7, <1>8
  <1>10. /\ e.fv = d.fv /\ e.counter = d.counter /\ e.snaps = X /\ e.rows = Put(d.rows, T)
         /\ e.index = PutIndex(d.index, FileRows(T))
    BY <1>9
  <1>11. T \in SUBSET CatRow /\ UniqueKeys(T) /\ T \in SUBSET F
    BY <1>1, <1>4 DEF UniqueKeys
  <1>12. /\ e.rows \in SUBSET CatRow /\ e.index \in SUBSET CatRow
         /\ Indexed(e) /\ UniqueKeys(e.rows) /\ UniqueEntries(e.index)
    BY <1>2, <1>10, <1>11, PutRows
  <1>13. N \in SUBSET S /\ UniqueIds(N) /\ Dense(d.snaps) /\ UniqueIds(d.snaps)
         /\ (\A x \in d.snaps \cup N : x.id \in Nat)
         /\ \A x \in N : \A j \in 1..(x.id - 1) : \E y \in d.snaps \cup N : y.id = j
    BY <1>1, <1>2, <1>4, <1>7 DEF UniqueIds, SoundDb, AnyDb
  <1>14. /\ Dense(X) /\ UniqueIds(X) /\ (\A x \in X : x.id \in Nat)
         /\ {x.id : x \in X} = {x.id : x \in d.snaps \cup N}
         /\ \A y \in d.snaps \cup N : \E x \in X : x.id = y.id
    <2>1. X = {x \in d.snaps : \A y \in N : x.id # y.id} \cup N
      BY DEF X
    <2>2. /\ UniqueIds(N) /\ Dense(d.snaps) /\ UniqueIds(d.snaps)
          /\ \A x \in d.snaps \cup N : x.id \in Nat
          /\ \A x \in N : \A j \in 1..(x.id - 1) : \E y \in d.snaps \cup N : y.id = j
      BY <1>13
    <2> QED BY ONLY <2>1, <2>2, PutSnaps
  <1>15. AnyDb(e)
    BY <1>7, <1>9, <1>10, <1>12, <1>14 DEF AnyDb
  <1>16. Reached(e)
    BY <1>2, <1>10, <1>14 DEF SoundDb, Reached, Latest
  <1>17. SoundDb(e)
    BY <1>10, <1>12, <1>14, <1>15, <1>16 DEF SoundDb
  <1>18. \A x \in e.rows : x \in d.rows \/ x \in F
    BY <1>10, <1>11 DEF Put
  <1>19. FeedInv'
    <2>1. \A x \in S \ N : x.id \in Nat /\ \A j \in 1..(x.id - 1) : \E y \in e.snaps \cup (S \ N) : y.id = j
      <3>1. \A y \in d.snaps \cup S : \E x \in e.snaps \cup (S \ N) : x.id = y.id
        BY <1>10, <1>14
      <3> SUFFICES ASSUME NEW x \in S \ N, NEW j \in 1..(x.id - 1)
                   PROVE  \E y \in e.snaps \cup (S \ N) : y.id = j
        BY <1>4
      <3>2. PICK y \in d.snaps \cup S : y.id = j
        BY <1>4
      <3> QED BY <3>1, <3>2
    <2>2. UniqueKeys(F \ T) /\ UniqueIds(S \ N)
      BY <1>4 DEF UniqueKeys, UniqueIds
    <2>3. F \ T \in SUBSET CatRow /\ \A r \in F \ T : Proper(r)
      BY <1>4
    <2> QED BY <1>1, <1>6, <2>1, <2>2, <2>3 DEF FeedInv
  <1>20. DstBounded'
    <2>1. \A x \in e.rows : \E y \in d.rows \cup F : x.id = y.id
      BY <1>18
    <2>2. \A x \in e.snaps : \E y \in d.snaps \cup S : x.id = y.id
      BY <1>10, <1>13 DEF X
    <2>3. \A x \in F \ T : \E y \in d.rows \cup F : x.id = y.id
      OBVIOUS
    <2>4. \A x \in S \ N : \E y \in d.snaps \cup S : x.id = y.id
      OBVIOUS
    <2>5. Bounded(e.rows) /\ Bounded(e.snaps) /\ Bounded(F \ T) /\ Bounded(S \ N)
      BY ONLY <1>2, <2>1, <2>2, <2>3, <2>4, BoundedParts
    <2> QED BY <1>1, <1>6, <2>5 DEF DstBounded
  <1>21. DstInv'
    <2>1. left.commits = MaxCommits => \A r \in e.rows : Proper(r)
      BY <1>2, <1>4, <1>18
    <2> QED BY <1>1, <1>2, <1>3, <1>5, <1>8, <1>17, <2>1 DEF DstSide, DstInv
  <1>22. PlanInv'
    <2>1. Repairs(db'[Dst], plan')
      BY <1>3, <1>5 DEF Repairs
    <2> QED BY <1>3, <1>5, <2>1 DEF PlanInv
  <1>23. OriginInv'
    <2>1. OriginInv /\ origin' = origin
      BY <1>5 DEF DstSide
    <2>2. ASSUME origin.at # 0
          PROVE  /\ origin'.at \in 1..Latest(db'[Src])
                 /\ Restored(e, F \ T, S \ N, origin.at, Want')
      <3>1. origin.at \in 1..Latest(db[Src]) /\ Restored(d, F, S, origin.at, Want)
        BY <1>1, <2>1, <2>2 DEF OriginInv
      <3>2. Want' = Want /\ origin'.at \in 1..Latest(db'[Src])
        BY <2>1, <3>1, WantKept
      <3>3. PICK W, s : W = Want /\ s = origin.at
        OBVIOUS
      <3>4. Restored(d, F, S, s, W)
        BY <3>1, <3>3
      <3>5. {x.id : x \in e.snaps} = {x.id : x \in d.snaps \cup N} /\ d.rows \in SUBSET CatRow
        BY <1>7, <1>10, <1>14 DEF AnyDb
      <3>6. Restored(e, F \ T, S \ N, s, W)
        BY <1>4, <1>10, <1>11, <1>13, <3>4, <3>5, RestoredWrite
      <3> QED BY <3>2, <3>3, <3>6
    <2> QED BY <1>1, <1>3, <1>6, <2>1, <2>2 DEF OriginInv
  <1> QED BY <1>19, <1>20, <1>21, <1>22, <1>23 DEF DstSide

\* Import writes the lowest snapshot first, which leaves no gap.
LEMMA ImportLineStep ==
    ASSUME DstSide, SrcGrows, ImportLine
    PROVE  DstSide'
  <1>1. feed.tool # "none"
    BY DEF ImportLine
  <1>2. CASE feed.snaps # {}
    <2>1. PICK x \in feed.snaps : (\A y \in feed.snaps : x.id <= y.id) /\ Write({x}, {})
      BY <1>2 DEF ImportLine
    <2>2. ASSUME NEW j \in 1..(x.id - 1) PROVE \E y \in db[Dst].snaps \cup {x} : y.id = j
      <3>1. x.id \in Nat
        BY DEF DstSide, FeedInv
      <3>2. PICK y \in db[Dst].snaps \cup feed.snaps : y.id = j
        BY DEF DstSide, FeedInv
      <3>3. y \notin feed.snaps
        BY <2>1, <3>1, <3>2
      <3> QED BY <3>2, <3>3
    <2> QED BY <1>1, <2>1, <2>2, WriteStep
  <1>3. CASE feed.snaps = {}
    <2>1. PICK r \in FirstKind : Write({}, {r})
      BY <1>3 DEF ImportLine
    <2>2. {r} \in SUBSET feed.rows
      BY DEF FirstKind
    <2> QED BY <1>1, <2>1, <2>2, WriteStep
  <1> QED BY <1>2, <1>3

\* Migration writes all snapshots at once, which leaves no gap either.
LEMMA MigrateTableStep ==
    ASSUME DstSide, SrcGrows, MigrateTable
    PROVE  DstSide'
  <1>1. feed.tool # "none"
    BY DEF MigrateTable
  <1>2. CASE feed.snaps # {}
    <2>1. Write(feed.snaps, {})
      BY <1>2 DEF MigrateTable
    <2>2. \A x \in feed.snaps : \A j \in 1..(x.id - 1) : \E y \in db[Dst].snaps \cup feed.snaps : y.id = j
      BY DEF DstSide, FeedInv
    <2>3. PICK N, T : N = feed.snaps /\ T = {}
      OBVIOUS
    <2>4. Write(N, T)
      BY <2>1, <2>3 DEF Write
    <2>5. /\ N \in SUBSET feed.snaps /\ T \in SUBSET feed.rows
          /\ \A x \in N : \A j \in 1..(x.id - 1) : \E y \in db[Dst].snaps \cup N : y.id = j
      BY <2>2, <2>3
    <2> QED BY <1>1, <2>4, <2>5, WriteStep
  <1>3. CASE feed.snaps = {}
    <2>1. PICK N, T : N = {} /\ T = FirstKind
      OBVIOUS
    <2>2. Write(N, T)
      BY <1>3, <2>1 DEF MigrateTable, Write
    <2>3. N \in SUBSET feed.snaps /\ T \in SUBSET feed.rows /\ N = {}
      BY <2>1 DEF FirstKind
    <2> QED BY <1>1, <2>2, <2>3, WriteStep
  <1> QED BY <1>2, <1>3

\* The steps that end a fill, or leave a row out.
LEMMA FillEndStep ==
    ASSUME DstSide, SrcGrows, MigrateSkip \/ FillDone \/ FillStops
    PROVE  DstSide'
  <1>1. feed.tool # "none" /\ UNCHANGED <<db, serving, plan, repaired, left>>
    BY DEF MigrateSkip, FillDone, FillStops
  <1>2. plan = {} /\ Dst \notin serving /\ ~repaired /\ ~origin.done
    BY <1>1, Filling
  <1>3. DstInv' /\ PlanInv'
    <2>1. DstInv'
      BY <1>1, <1>2 DEF DstSide, DstInv, DbShape
    <2>2. PlanInv'
      BY <1>1, <1>2 DEF DstSide, PlanInv
    <2> QED BY <2>1, <2>2
  <1>4. Bounded({})
    BY DEF Bounded
  <1>5. FeedInv /\ DstBounded /\ OriginInv
    BY DEF DstSide
  <1>6. ASSUME feed' = NoFeed
        PROVE  /\ FeedInv' /\ DstBounded' /\ feed'.tool = "none" /\ feed'.rows = {} /\ feed'.snaps = {}
    <2>1. feed' = [tool |-> "none", snaps |-> {}, rows |-> {}]
      BY <1>6 DEF NoFeed
    <2>2. feed'.tool = "none" /\ feed'.snaps = {} /\ feed'.rows = {}
      BY <2>1
    <2>3. FeedInv'
      BY <1>6, <2>1, <2>2 DEF FeedInv, UniqueKeys, UniqueIds
    <2>4. DstBounded'
      BY <1>1, <1>4, <1>5, <2>2 DEF DstBounded
    <2> QED BY <2>2, <2>3, <2>4
  <1>7. CASE FillStops
    <2>1. feed' = NoFeed /\ origin' = origin
      BY <1>7 DEF FillStops
    <2>2. OriginInv'
      BY <1>2, <1>5, <1>6, <2>1 DEF OriginInv
    <2> QED BY <1>3, <1>6, <2>1, <2>2 DEF DstSide
  <1>8. CASE FillDone
    <2>1. feed' = NoFeed /\ origin' = [origin EXCEPT !.done = TRUE] /\ feed.snaps = {} /\ feed.rows = {}
      BY <1>8 DEF FillDone
    <2>2. origin = [tool |-> origin.tool, at |-> origin.at, done |-> origin.done]
      BY <1>5 DEF OriginInv
    <2>3. origin' = [tool |-> origin.tool, at |-> origin.at, done |-> TRUE]
      BY <2>1, <2>2
    <2>4. origin'.tool = origin.tool /\ origin'.at = origin.at /\ origin'.done = TRUE
      BY <2>3
    <2>5. origin' = [tool |-> origin'.tool, at |-> origin'.at, done |-> origin'.done]
      BY <2>3, <2>4
    <2>6. ASSUME origin.at # 0
          PROVE  /\ origin'.at \in 1..Latest(db'[Src])
                 /\ Restored(db'[Dst], feed'.rows, feed'.snaps, origin'.at, Want')
      <3>1. origin.at \in 1..Latest(db[Src]) /\ Restored(db[Dst], feed.rows, feed.snaps, origin.at, Want)
        BY <1>1, <1>5, <2>6 DEF OriginInv
      <3>2. Want' = Want /\ origin'.at \in 1..Latest(db'[Src])
        BY <2>4, <3>1, WantKept
      <3> QED BY <1>1, <1>6, <2>1, <2>4, <3>1, <3>2
    <2>7. OriginInv'
      BY <2>1, <2>4, <2>5, <2>6 DEF OriginInv
    <2> QED BY <1>3, <1>6, <2>1, <2>7 DEF DstSide
  <1>9. CASE MigrateSkip
    <2>1. PICK r \in FirstKind : feed' = [feed EXCEPT !.rows = feed.rows \ {r}]
      BY <1>9 DEF MigrateSkip
    <2>2. feed = [tool |-> feed.tool, snaps |-> feed.snaps, rows |-> feed.rows]
      BY <1>5 DEF FeedInv
    <2>3. feed' = [tool |-> feed.tool, snaps |-> feed.snaps, rows |-> feed.rows \ {r}]
      BY <2>1, <2>2
    <2>4. feed'.tool = feed.tool /\ feed'.snaps = feed.snaps /\ feed'.rows = feed.rows \ {r}
      BY <2>3
    <2>5. FeedInv'
      BY <1>1, <1>5, <2>3, <2>4 DEF FeedInv, UniqueKeys
    <2>6. DstBounded'
      BY <1>1, <1>5, <2>4 DEF DstBounded, Bounded
    <2>7. origin' = [tool |-> "mixed", at |-> 0, done |-> FALSE]
      BY <1>9 DEF MigrateSkip, Mixed
    <2>8. OriginInv'
      BY <2>7 DEF OriginInv
    <2> QED BY <1>3, <2>5, <2>6, <2>8 DEF DstSide
  <1> QED BY <1>7, <1>8, <1>9

\* A tool that replaces rows of Dst at once.
LEMMA ReplaceStep ==
    ASSUME DstSide, SrcGrows, feed = NoFeed, plan = {}, DbShape',
           UNCHANGED <<feed, plan>>, serving' = serving \ {Dst}, repaired' = FALSE, UseTool,
           NEW T, NEW e, e = db'[Dst], AnyDb(e), Dense(e.snaps), UniqueIds(e.snaps), Reached(e),
           T \in SUBSET CatRow, UniqueKeys(T), \A t \in T : Proper(t) \/ left.commits # MaxCommits,
           Bounded(T), Bounded(e.snaps),
           e.rows = Put(db[Dst].rows, T), e.index = PutIndex(db[Dst].index, FileRows(T)),
           OriginInv'
    PROVE  DstSide'
  <1>1. PICK d : d = db[Dst]
    OBVIOUS
  <1>2. /\ SoundDb(d) /\ Src \in serving /\ left.commits \in 0..MaxCommits
        /\ left.commits = MaxCommits => \A r \in d.rows : Proper(r)
        /\ Bounded(d.rows) /\ FeedInv /\ DstBounded
    BY <1>1 DEF DstSide, DstInv, DstBounded
  <1>3. Indexed(e) /\ UniqueKeys(e.rows) /\ UniqueEntries(e.index)
    BY <1>1, <1>2, PutRows
  <1>4. SoundDb(e)
    BY <1>3 DEF SoundDb
  <1>5. left'.commits = left.commits /\ left' = [tools |-> left'.tools, commits |-> left'.commits]
    BY ToolUsed DEF DstSide
  <1>6. \A x \in e.rows : x \in d.rows \/ x \in T
    BY <1>1 DEF Put
  <1>7. Dst \notin serving' /\ Src \in serving'
    BY <1>2 DEF Src, Dst
  <1>8. DstInv'
    <2>1. left'.commits = MaxCommits => \A r \in e.rows : Proper(r)
      BY <1>2, <1>5, <1>6
    <2> QED BY <1>2, <1>4, <1>5, <1>7, <2>1 DEF DstInv
  <1>9. PlanInv'
    <2>1. Repairs(db'[Dst], plan')
      BY DEF Repairs
    <2> QED BY <2>1 DEF PlanInv
  <1>10. FeedInv'
    <2>1. feed = [tool |-> "none", snaps |-> {}, rows |-> {}]
      BY DEF NoFeed
    <2>2. feed.tool = "none" /\ feed.snaps = {} /\ feed.rows = {}
      BY <2>1
    <2> QED BY <2>1, <2>2 DEF FeedInv, UniqueKeys, UniqueIds
  <1>11. DstBounded'
    <2>1. \A x \in e.rows : \E y \in d.rows \cup T : x.id = y.id
      BY <1>6
    <2>2. Bounded(T)
      OBVIOUS
    <2>3. Bounded(e.rows)
      BY ONLY <1>2, <2>1, <2>2, BoundedParts
    <2> QED BY <1>2, <2>3 DEF DstBounded
  <1> QED BY <1>8, <1>9, <1>10, <1>11 DEF DstSide

\* Rebuild puts its rows over whatever there is.
LEMMA RebuildStep ==
    ASSUME DstSide, SrcGrows, Rebuild
    PROVE  DstSide'
  <1>1. PICK d, e : d = db[Dst] /\ e = db'[Dst]
    OBVIOUS
  <1> DEFINE Made(k, p, i) == [kind |-> k, parent |-> p, id |-> i, begin |-> 1, end |-> NoEnd, whole |-> FALSE]
             Files(n) == {Made("file", 2, i) : i \in 1..n}
             Rows(n) == {Made("table", 0, 1), Made("table", 0, 2)} \cup Files(n)
             cs(n) == [snap |-> 2, cat |-> 3, file |-> n + 1]
             X == {x \in d.snaps : x.id # 1} \cup {[id |-> 1, sv |-> 1]}
  <1>2. PICK n \in 0..MaxFiles :
            db' = [db EXCEPT ![Dst] = [fv |-> Format, counter |-> cs(n), snaps |-> X,
                                       rows |-> Put(d.rows, Rows(n)), index |-> PutIndex(d.index, Files(n))]]
    BY <1>1 DEF Rebuild
  <1>3. n \in Nat
    BY TransferAssumption
  <1>4. /\ feed = NoFeed /\ plan = {} /\ origin' = Mixed /\ serving' = serving \ {Dst} /\ repaired' = FALSE
        /\ UseTool /\ UNCHANGED <<feed, plan>>
    BY DEF Rebuild, Idle
  <1>5. SoundDb(d) /\ DbShape /\ AnyDb(d) /\ Bounded(d.snaps)
    BY <1>1 DEF DstSide, DstInv, SoundDb, DstBounded
  <1>6. \A k \in CatKind, p \in Nat, i \in Nat :
            /\ Made(k, p, i) \in CatRow /\ Made(k, p, i).kind = k /\ Made(k, p, i).parent = p
            /\ Made(k, p, i).id = i /\ Proper(Made(k, p, i))
    BY DEF CatRow, Proper, NoEnd
  <1>7. /\ "file" \in CatKind /\ "table" \in CatKind /\ \A i \in 1..n : i \in Nat
    BY DEF CatKind
  <1> DEFINE T == Rows(n)
             c == cs(n)
  <1>8. \A t \in T : \/ t = Made("table", 0, 1) \/ t = Made("table", 0, 2)
                     \/ \E i \in 1..n : t = Made("file", 2, i)
    OBVIOUS
  <1>9. c \in [CounterName -> Nat] /\ c["snap"] = 2
    BY <1>3 DEF CounterName
  <1>10. FileRows(T) = Files(n)
    <2> HIDE DEF Made
    <2> QED BY <1>6, <1>7 DEF FileRows
  <1> HIDE DEF cs, X, c
  <1>11. /\ e = [fv |-> Format, counter |-> c, snaps |-> X, rows |-> Put(d.rows, T),
                 index |-> PutIndex(d.index, FileRows(T))]
         /\ DbShape'
    <2> HIDE DEF Rows, Files, T
    <2>1. db' = [db EXCEPT ![Dst] = [fv |-> Format, counter |-> c, snaps |-> X, rows |-> Put(d.rows, T),
                                     index |-> PutIndex(d.index, FileRows(T))]]
      BY <1>2, <1>10 DEF T, c
    <2> QED BY <1>1, <1>5, <2>1 DEF DbShape
  <1> HIDE DEF Made, Rows, Files, T
  <1>12. /\ e.fv = Format /\ e.counter = c /\ e.snaps = X /\ e.rows = Put(d.rows, T)
         /\ e.index = PutIndex(d.index, FileRows(T))
    BY <1>11
  <1>13. \A t \in T : /\ t \in CatRow /\ Proper(t) /\ t.id \in 0..(n + 2)
                      /\ t.kind = "table" => t = Made("table", 0, t.id)
                      /\ t.kind # "table" => t.kind = "file" /\ t = Made("file", 2, t.id)
    BY <1>3, <1>6, <1>7, <1>8
  <1>14. UniqueKeys(T)
    <2> SUFFICES ASSUME NEW t \in T, NEW q \in T, Key(t) = Key(q) PROVE t = q
      BY DEF UniqueKeys
    <2>1. t.kind = q.kind /\ t.id = q.id
      BY <1>13, SameKey
    <2> QED BY <1>13, <2>1
  <1>15. Bounded(T)
    <2>1. n + 2 \in Nat
      BY <1>3
    <2> QED BY <1>13, <2>1 DEF Bounded
  <1>16. /\ \A x \in X : x.id \in Nat /\ (x.id = 1 \/ x \in d.snaps)
         /\ \A y \in d.snaps : \E x \in X : x.id = y.id
         /\ (\E x \in X : x.id = 1) /\ UniqueIds(X)
    <2>1. PICK y : y = [id |-> 1, sv |-> 1]
      OBVIOUS
    <2>2. y.id = 1 /\ X = {x \in d.snaps : x.id # 1} \cup {y}
      BY <2>1 DEF X
    <2>3. (\A x \in d.snaps : x.id \in Nat) /\ UniqueIds(d.snaps)
      BY <1>5 DEF SoundDb, AnyDb
    <2> QED BY <2>2, <2>3 DEF UniqueIds
  <1>17. Dense(X)
    <2> SUFFICES ASSUME NEW x \in X, NEW j \in 1..x.id PROVE \E y \in X : y.id = j
      BY DEF Dense
    <2>1. CASE x.id = 1
      BY <1>16, <2>1
    <2>2. CASE x \in d.snaps
      BY <1>5, <1>16, <2>2 DEF SoundDb, Dense
    <2> QED BY <1>16, <2>1, <2>2
  <1>18. Bounded(X)
    <2>1. PICK m \in Nat : \A x \in d.snaps : x.id \in 0..m
      BY <1>5 DEF Bounded
    <2>2. m + 1 \in Nat /\ \A x \in X : x.id \in 0..(m + 1)
      BY <1>16, <2>1
    <2> QED BY <2>2 DEF Bounded
  <1>19. Put(d.rows, T) \in SUBSET CatRow /\ PutIndex(d.index, FileRows(T)) \in SUBSET CatRow
    BY <1>5, <1>13 DEF Put, PutIndex, FileRows, AnyDb
  <1>20. AnyDb(e)
    BY <1>9, <1>11, <1>12, <1>16, <1>19 DEF AnyDb, Format
  <1>21. Reached(e)
    <2>1. Latest(e) = 1
      BY <1>9, <1>12 DEF Latest
    <2> QED BY <1>12, <1>16, <2>1 DEF Reached
  <1>22. OriginInv'
    <2>1. origin' = [tool |-> "mixed", at |-> 0, done |-> FALSE]
      BY <1>4 DEF Mixed
    <2> QED BY <2>1 DEF OriginInv
  <1>23. T \in SUBSET CatRow /\ \A t \in T : Proper(t)
    BY <1>13
  <1>24. e.rows = Put(db[Dst].rows, T) /\ e.index = PutIndex(db[Dst].index, FileRows(T))
    BY <1>1, <1>12
  <1> QED BY <1>1, <1>4, <1>11, <1>12, <1>14, <1>15, <1>16, <1>17, <1>18, <1>20, <1>21, <1>22, <1>23,
             <1>24, ReplaceStep

\* migrate_apply puts rows over themselves.
LEMMA MigrateApplyStep ==
    ASSUME DstSide, SrcGrows, MigrateApply
    PROVE  DstSide'
  <1>1. PICK d, e : d = db[Dst] /\ e = db'[Dst]
    OBVIOUS
  <1> DEFINE s == IF db[Dst].counter["snap"] = Absent THEN 0 ELSE Latest(db[Dst])
             T == UNION {Scanned(db[Dst], ExportOrder[i], s) : i \in 2..Len(ExportOrder)}
  <1>2. PICK target \in {1, 2} : db' = [db EXCEPT ![Dst].rows = Put(d.rows, T),
                                                  ![Dst].index = PutIndex(d.index, FileRows(T)),
                                                  ![Dst].fv = target]
    <2>1. \E target \in {1, 2} : db' = [db EXCEPT ![Dst].rows = Put(db[Dst].rows, T),
                                                 ![Dst].index = PutIndex(db[Dst].index, IndexEntries(T)),
                                                 ![Dst].fv = target]
      BY Zenon DEF MigrateApply
    <2>2. IndexEntries(T) = FileRows(T)
      BY DEF IndexEntries, FileRows
    <2> QED BY <1>1, <2>1, <2>2
  <1>3. /\ feed = NoFeed /\ plan = {} /\ serving' = serving \ {Dst} /\ repaired' = FALSE
        /\ UseTool /\ UNCHANGED <<feed, plan, origin>>
    BY DEF MigrateApply, Idle
  <1>4. SoundDb(d) /\ DbShape /\ AnyDb(d) /\ Bounded(d.snaps) /\ Bounded(d.rows) /\ UniqueKeys(d.rows)
    BY <1>1 DEF DstSide, DstInv, SoundDb, DstBounded
  <1>5. Reduced(d, T)
    BY <1>1 DEF Reduced, Scanned
  <1> HIDE DEF T
  <1>6. /\ e = [d EXCEPT !.rows = Put(d.rows, T), !.index = PutIndex(d.index, FileRows(T)), !.fv = target]
        /\ DbShape'
    BY <1>1, <1>2, <1>4 DEF DbShape
  <1>7. e = [fv |-> target, counter |-> d.counter, snaps |-> d.snaps, rows |-> Put(d.rows, T),
             index |-> PutIndex(d.index, FileRows(T))]
    <2>1. d = [fv |-> d.fv, counter |-> d.counter, snaps |-> d.snaps, rows |-> d.rows, index |-> d.index]
      BY <1>4 DEF AnyDb
    <2> QED BY <1>6, <2>1
  <1>8. /\ e.fv = target /\ e.counter = d.counter /\ e.snaps = d.snaps /\ e.rows = Put(d.rows, T)
        /\ e.index = PutIndex(d.index, FileRows(T))
    BY <1>7
  <1>9. /\ T \in SUBSET CatRow /\ UniqueKeys(T)
        /\ \A t \in T : \E r \in d.rows : t.id = r.id /\ t.begin = r.begin /\ t.end = r.end
    BY <1>4, <1>5, ReducedRows
  <1>10. Put(d.rows, T) \in SUBSET CatRow /\ PutIndex(d.index, FileRows(T)) \in SUBSET CatRow
    BY <1>4, <1>9 DEF Put, PutIndex, FileRows, AnyDb
  <1>11. AnyDb(e)
    BY <1>4, <1>7, <1>8, <1>10 DEF AnyDb
  <1>12. Dense(e.snaps) /\ UniqueIds(e.snaps) /\ Reached(e)
    BY <1>4, <1>8 DEF SoundDb, Reached, Latest
  <1>13. Bounded(T)
    <2>1. \A t \in T : \E r \in d.rows \cup d.rows : t.id = r.id
      BY <1>9
    <2> QED BY ONLY <1>4, <2>1, BoundedParts
  <1>14. \A t \in T : Proper(t) \/ left.commits # MaxCommits
    BY <1>1, <1>9 DEF DstSide, DstInv, Proper
  <1>15. OriginInv'
    <2>1. OriginInv /\ origin' = origin /\ feed' = feed
      BY <1>3 DEF DstSide
    <2>2. feed.tool = "none" /\ feed.rows = {} /\ feed.snaps = {}
      BY <1>3 DEF NoFeed
    <2>3. ASSUME origin.at # 0, origin.done
          PROVE  origin'.at \in 1..Latest(db'[Src]) /\ Restored(e, feed.rows, feed.snaps, origin.at, Want')
      <3>1. origin.at \in 1..Latest(db[Src]) /\ Restored(d, {}, {}, origin.at, Want)
        BY <1>1, <2>1, <2>2, <2>3 DEF OriginInv
      <3>2. Want' = Want /\ origin'.at \in 1..Latest(db'[Src])
        BY <2>1, <3>1, WantKept
      <3>3. PICK W, a : W = Want /\ a = origin.at
        OBVIOUS
      <3>4. Restored(d, {}, {}, a, W)
        BY <3>1, <3>3
      <3>5. Restored(e, {}, {}, a, W)
        BY <1>4, <1>5, <1>8, <3>4, RestoredReduced
      <3> QED BY <2>2, <3>2, <3>3, <3>5
    <2> QED BY <1>1, <1>3, <2>1, <2>2, <2>3 DEF OriginInv
  <1>16. e.rows = Put(db[Dst].rows, T) /\ e.index = PutIndex(db[Dst].index, FileRows(T)) /\ Bounded(e.snaps)
    BY <1>1, <1>4, <1>8
  <1> QED BY <1>1, <1>3, <1>6, <1>9, <1>11, <1>12, <1>13, <1>14, <1>15, <1>16, ReplaceStep

\* What readers of the source saw has a table for every inlined row.
LEMMA WantRooted ==
    ASSUME SrcInv, origin.at \in 1..Latest(db[Src])
    PROVE  Rooted(Want)
  <1>1. Rooted(seen[origin.at])
    BY DEF SrcInv
  <1> QED BY <1>1 DEF Want, Rooted

\* Repair plans.
LEMMA RepairStartStep ==
    ASSUME DstSide, SrcGrows, RepairStart
    PROVE  DstSide'
  <1>1. PICK d : d = db[Dst]
    OBVIOUS
  <1>2. /\ feed = NoFeed /\ plan = {} /\ d.fv # Absent /\ ~repaired
        /\ plan' = Plan(d) \cup {<<"end", "ok", 0>>}
        /\ serving' = serving \ {Dst} /\ UseTool /\ UNCHANGED <<db, feed, origin, repaired>>
    BY <1>1 DEF RepairStart, Idle, Repairable
  <1>3. AnyDb(d) /\ Bounded(d.rows) /\ Bounded(d.snaps)
    BY <1>1 DEF DstSide, DstInv, SoundDb, DstBounded
  <1>4. Repairs(d, plan')
    BY <1>2, <1>3, PlanRepairs
  <1>5. PlanInv'
    BY <1>1, <1>2, <1>4 DEF PlanInv
  <1>6. FeedInv' /\ DstBounded'
    BY <1>2 DEF DstSide, FeedInv, DstBounded
  <1>7. left'.commits = left.commits /\ left' = [tools |-> left'.tools, commits |-> left'.commits]
    BY <1>2, ToolUsed DEF DstSide
  <1>8. DstInv'
    <2>1. Dst \notin serving' /\ (Src \in serving => Src \in serving')
      BY <1>2 DEF Src, Dst
    <2> QED BY <1>2, <1>7, <2>1 DEF DstSide, DstInv, DbShape
  <1>9. OriginInv'
    <2>1. OriginInv /\ origin' = origin /\ feed' = feed
      BY <1>2 DEF DstSide
    <2>2. ASSUME origin.at \in 1..Latest(db[Src])
          PROVE  Want' = Want /\ origin'.at \in 1..Latest(db'[Src])
      BY <2>1, <2>2, WantKept
    <2> QED BY <1>2, <2>1, <2>2 DEF OriginInv
  <1> QED BY <1>5, <1>6, <1>8, <1>9 DEF DstSide

\* A repair on Dst, with its other parts as they were.
LEMMA RepairedStep ==
    ASSUME SrcInv, DstSide, SrcGrows, plan # {}, DbShape', UNCHANGED <<serving, feed, origin, repaired, left>>,
           NEW d, d = db[Dst], NEW e, e = db'[Dst], AfterRepair(d, e, plan')
    PROVE  DstSide'
  <1>1. /\ SoundDb(e) /\ Repairs(e, plan')
        /\ e.fv = d.fv /\ e.rows \in SUBSET d.rows /\ e.snaps = d.snaps
        /\ \A s \in Nat : \A W : Rooted(W) /\ Restored(d, {}, {}, s, W) => Restored(e, {}, {}, s, W)
    BY DEF AfterRepair
  <1>2. feed = NoFeed /\ Dst \notin serving /\ ~repaired
    BY DEF DstSide, DstInv, PlanInv
  <1>3. feed.tool = "none" /\ feed.rows = {} /\ feed.snaps = {}
    BY <1>2 DEF NoFeed
  <1>4. FeedInv'
    <2>1. FeedInv
      BY DEF DstSide
    <2> QED BY <1>3, <2>1 DEF FeedInv
  <1>5. DstBounded'
    BY <1>1 DEF DstSide, DstBounded, Bounded
  <1>6. DstInv'
    BY <1>1, <1>2 DEF DstSide, DstInv
  <1>7. PlanInv'
    BY <1>1, <1>2 DEF DstSide, PlanInv
  <1>8. OriginInv'
    <2>1. OriginInv
      BY DEF DstSide
    <2>2. ASSUME origin.at # 0, origin.done
          PROVE  origin'.at \in 1..Latest(db'[Src]) /\ Restored(e, feed.rows, feed.snaps, origin.at, Want')
      <3>1. origin.at \in 1..Latest(db[Src]) /\ Restored(d, {}, {}, origin.at, Want)
        BY <1>1, <1>3, <2>1, <2>2 DEF OriginInv
      <3>2. Want' = Want /\ origin'.at \in 1..Latest(db'[Src]) /\ Rooted(Want)
        BY <3>1, WantKept, WantRooted
      <3>3. PICK W, a : W = Want /\ a = origin.at
        OBVIOUS
      <3>4. Restored(d, {}, {}, a, W) /\ Rooted(W) /\ a \in Nat
        BY <3>1, <3>2, <3>3
      <3>5. Restored(e, {}, {}, a, W)
        BY <1>1, <3>4
      <3> QED BY <1>3, <3>2, <3>3, <3>5
    <2> QED BY <1>3, <2>1, <2>2 DEF OriginInv
  <1> QED BY <1>4, <1>5, <1>6, <1>7, <1>8 DEF DstSide

\* An action of the plan is applied.
LEMMA RepairActionStep ==
    ASSUME SrcInv, DstSide, SrcGrows, RepairAction
    PROVE  DstSide'
  <1>1. PICK d, e, p : d = db[Dst] /\ e = db'[Dst] /\ p = plan
    OBVIOUS
  <1>2. PICK a \in p : /\ a[1] # "end" /\ plan' = p \ {a}
                       /\ db' = IF a[1] = "counter" THEN [db EXCEPT ![Dst].counter[a[2]] = a[3]]
                                ELSE [db EXCEPT ![Dst].rows = d.rows \ {a[2]}]
    BY <1>1 DEF RepairAction
  <1>3. plan # {} /\ UNCHANGED <<serving, feed, origin, repaired, left>>
    BY <1>1, <1>2 DEF RepairAction
  <1>4. SoundDb(d) /\ DbShape /\ Bounded(d.rows) /\ Bounded(d.snaps) /\ Repairs(d, p)
    BY <1>1 DEF DstSide, DstInv, DstBounded, PlanInv
  <1>5. ASSUME NEW c \in CounterName, a = <<"counter", c, Correct(d, c)>>, d.counter[c] # Absent
        PROVE  DstSide'
    <2>1. db' = [db EXCEPT ![Dst].counter[c] = Correct(d, c)]
      BY <1>2, <1>5
    <2>2. e = [d EXCEPT !.counter[c] = Correct(d, c)] /\ DbShape'
      BY <1>1, <1>4, <2>1 DEF DbShape
    <2>3. AfterRepair(d, e, plan')
      BY <1>2, <1>4, <1>5, <2>2, CounterRepair
    <2> QED BY <1>1, <1>3, <2>2, <2>3, RepairedStep
  <1>6. ASSUME a = <<"remove", a[2], 0>>, a[2] \in CatRow, a[2].kind \in {"inline", "stat"},
               a[2].parent \notin TableIds(d)
        PROVE  DstSide'
    <2>1. PICK q : q = a[2]
      OBVIOUS
    <2>2. a = <<"remove", q, 0>> /\ q \in CatRow /\ q.kind \in {"inline", "stat"} /\ q.parent \notin TableIds(d)
      BY <1>6, <2>1
    <2>3. db' = [db EXCEPT ![Dst].rows = d.rows \ {q}] /\ a[1] # "counter"
      BY <1>2, <2>1, <2>2
    <2>4. e = [d EXCEPT !.rows = d.rows \ {q}] /\ DbShape'
      BY <1>1, <1>4, <2>3 DEF DbShape
    <2>5. AfterRepair(d, e, p \ {a})
      BY <1>4, <2>2, <2>3, <2>4, RemovalRepair
    <2> QED BY <1>1, <1>2, <1>3, <2>4, <2>5, RepairedStep
  <1>7. \/ \E c \in CounterName : a = <<"counter", c, Correct(d, c)>> /\ d.counter[c] # Absent
        \/ /\ a = <<"remove", a[2], 0>> /\ a[2] \in CatRow /\ a[2].kind \in {"inline", "stat"}
           /\ a[2].parent \notin TableIds(d)
    <2>1. a \notin {<<"end", "ok", 0>>, <<"end", "failed", 0>>}
      BY <1>2
    <2> QED BY <1>2, <1>4, <2>1 DEF Repairs
  <1> QED BY <1>5, <1>6, <1>7

\* The end of a repair: completed, failed or stopped.
LEMMA RepairEndStep ==
    ASSUME SrcInv, DstSide, SrcGrows, RepairActionFails \/ RepairDone \/ RepairStops
    PROVE  DstSide'
  <1>1. PICK d, p : d = db[Dst] /\ p = plan
    OBVIOUS
  <1>2. p # {} /\ UNCHANGED <<db, serving, feed, origin, left>>
    BY <1>1 DEF RepairActionFails, RepairDone, RepairStops
  <1>3. feed = NoFeed /\ Dst \notin serving /\ ~repaired /\ Repairs(d, p) /\ d.fv # Absent
    BY <1>1, <1>2 DEF DstSide, DstInv, PlanInv
  <1>4. FeedInv' /\ DstBounded'
    BY <1>2 DEF DstSide, FeedInv, DstBounded
  <1>5. DstInv'
    BY <1>2, <1>3 DEF DstSide, DstInv, DbShape
  <1>6. OriginInv'
    <2>1. OriginInv /\ origin' = origin /\ feed' = feed
      BY <1>2 DEF DstSide
    <2>2. ASSUME origin.at \in 1..Latest(db[Src])
          PROVE  Want' = Want /\ origin'.at \in 1..Latest(db'[Src])
      BY <2>1, <2>2, WantKept
    <2> QED BY <1>2, <2>1, <2>2 DEF OriginInv
  <1>7. PlanInv'
    <2>1. CASE RepairStops
      <3>1. plan' = {} /\ repaired' = repaired
        BY <2>1 DEF RepairStops
      <3>2. Repairs(d, plan')
        BY <3>1 DEF Repairs
      <3> QED BY <1>1, <1>2, <1>3, <3>1, <3>2 DEF PlanInv
    <2>2. CASE RepairActionFails
      <3>1. PICK a \in p : plan' = (p \ {a, <<"end", "ok", 0>>}) \cup {<<"end", "failed", 0>>}
        BY <1>1, <2>2 DEF RepairActionFails
      <3>2. repaired' = repaired
        BY <2>2 DEF RepairActionFails
      <3>3. <<"end", "failed", 0>> # <<"end", "ok", 0>>
        OBVIOUS
      <3>4. Repairs(d, plan')
        BY <1>3, <3>1, <3>3 DEF Repairs
      <3> QED BY <1>1, <1>2, <1>3, <3>2, <3>4 DEF PlanInv
    <2>3. CASE RepairDone
      <3>1. PICK a \in p : p = {a} /\ a[1] = "end" /\ repaired' = (a[2] = "ok")
        BY <1>1, <2>3 DEF RepairDone
      <3>2. plan' = {}
        BY <2>3 DEF RepairDone
      <3>3. Repairs(d, plan')
        BY <3>2 DEF Repairs
      <3>4. a \in {<<"end", "ok", 0>>, <<"end", "failed", 0>>}
        BY <1>3, <3>1 DEF Repairs
      <3>5. ASSUME repaired' PROVE Ahead(d)
        <4>1. a = <<"end", "ok", 0>>
          <5>1. a[2] = "ok"
            BY <3>1, <3>5, Zenon
          <5>2. <<"end", "failed", 0>>[2] # "ok"
            OBVIOUS
          <5> QED BY <3>4, <5>1, <5>2
        <4>2. \A c \in CounterName : <<"counter", c, Correct(d, c)>> # <<"end", "ok", 0>>
          OBVIOUS
        <4> QED BY <1>3, <3>1, <4>1, <4>2 DEF Repairs, Ahead
      <3> QED BY <1>1, <1>2, <1>3, <3>2, <3>3, <3>5 DEF PlanInv
    <2> QED BY <2>1, <2>2, <2>3
  <1> QED BY <1>4, <1>5, <1>6, <1>7 DEF DstSide

\* A server opens Dst.
LEMMA OpenStep ==
    ASSUME DstSide, SrcGrows, Open
    PROVE  DstSide' /\ (repaired => db'[Dst] = db[Dst])
  <1>1. PICK d, e : d = db[Dst] /\ e = Opened(d)
    OBVIOUS
  <1>2. /\ feed = NoFeed /\ plan = {} /\ CanOpen(d) /\ db' = [db EXCEPT ![Dst] = e]
        /\ serving' = serving \cup {Dst} /\ UNCHANGED <<feed, plan, origin, repaired, left>>
    BY <1>1 DEF Open, Idle
  <1>3. SoundDb(d) /\ AnyDb(d) /\ DbShape
    BY <1>1 DEF DstSide, DstInv, SoundDb
  <1>4. db'[Dst] = e /\ DbShape'
    BY <1>2, <1>3 DEF DbShape
  <1>5. /\ AnyDb(e) /\ e.rows = d.rows /\ e.index = d.index /\ e.snaps = d.snaps
        /\ e.fv = Format /\ (\A c \in CounterName : e.counter[c] # Absent)
        /\ d.fv # Absent => e = d
        /\ e.counter["snap"] = d.counter["snap"] \/ e.counter["snap"] = 1
    BY <1>1, <1>2, <1>3, OpenedDb
  <1>6. SoundDb(e)
    <2>1. Dense(e.snaps) /\ UniqueKeys(e.rows) /\ UniqueEntries(e.index) /\ UniqueIds(e.snaps) /\ Indexed(e)
      BY <1>3, <1>5 DEF SoundDb, Indexed
    <2>2. Reached(e)
      <3>1. CASE e.counter["snap"] = d.counter["snap"]
        BY <1>3, <1>5, <3>1 DEF SoundDb, Reached, Latest
      <3>2. CASE e.counter["snap"] = 1
        BY <3>2 DEF Reached, Latest
      <3> QED BY <1>5, <3>1, <3>2
    <2> QED BY <1>5, <2>1, <2>2 DEF SoundDb
  <1>7. FeedInv' /\ DstBounded'
    <2>1. FeedInv'
      BY <1>1, <1>2, <1>4, <1>5 DEF DstSide, FeedInv
    <2>2. DstBounded'
      BY <1>1, <1>2, <1>4, <1>5 DEF DstSide, DstBounded
    <2> QED BY <2>1, <2>2
  <1>8. DstInv'
    BY <1>1, <1>2, <1>4, <1>5, <1>6 DEF DstSide, DstInv
  <1>9. repaired => e = d
    BY <1>1, <1>5 DEF DstSide, PlanInv
  <1>10. PlanInv'
    <2>1. Repairs(e, plan')
      BY <1>2 DEF Repairs
    <2>2. repaired => Ahead(e)
      BY <1>1, <1>9 DEF DstSide, PlanInv
    <2>3. e.fv # Absent
      BY <1>5 DEF Format, Absent
    <2> QED BY <1>2, <1>4, <2>1, <2>2, <2>3 DEF PlanInv
  <1>11. OriginInv'
    <2>1. OriginInv
      BY DEF DstSide
    <2>2. feed.tool = "none" /\ feed.rows = {} /\ feed.snaps = {}
      BY <1>2 DEF NoFeed
    <2>3. ASSUME origin.at # 0, origin.done
          PROVE  origin'.at \in 1..Latest(db'[Src]) /\ Restored(e, feed.rows, feed.snaps, origin.at, Want')
      <3>1. origin.at \in 1..Latest(db[Src]) /\ Restored(d, feed.rows, feed.snaps, origin.at, Want)
        BY <1>1, <2>1, <2>3 DEF OriginInv
      <3>2. Want' = Want /\ origin'.at \in 1..Latest(db'[Src])
        BY <1>2, <3>1, WantKept
      <3>3. e.counter["snap"] <= origin.at + 1
        BY <1>5, <3>1 DEF Restored
      <3>4. Restored(e, feed.rows, feed.snaps, origin.at, Want)
        BY <1>5, <3>1, <3>3 DEF Restored
      <3> QED BY <3>2, <3>4
    <2> QED BY <1>2, <1>4, <2>1, <2>2, <2>3 DEF OriginInv
  <1> QED BY <1>1, <1>4, <1>7, <1>8, <1>9, <1>10, <1>11 DEF DstSide

\* A server of Dst commits.
LEMMA CommitDstStep ==
    ASSUME DstSide, SrcGrows, CommitDst
    PROVE  DstSide' /\ (repaired => Kept(db[Dst], db'[Dst]))
  <1>1. PICK d : d = db[Dst]
    OBVIOUS
  <1>2. PICK e \in Commits(d) : db' = [db EXCEPT ![Dst] = e]
    BY <1>1 DEF CommitDst
  <1>3. /\ feed = NoFeed /\ plan = {} /\ Dst \in serving /\ origin' = Mixed
        /\ left.commits > 0 /\ left' = [left EXCEPT !.commits = left.commits - 1]
        /\ UNCHANGED <<serving, feed, plan, repaired>>
    BY DEF CommitDst, Idle
  <1>4. SoundDb(d) /\ DbShape /\ d.fv = Format /\ \A c \in CounterName : d.counter[c] # Absent
    BY <1>1, <1>3 DEF DstSide, DstInv
  <1>5. db'[Dst] = e /\ DbShape'
    BY <1>2, <1>4 DEF DbShape
  <1>6. /\ SoundDb(e) /\ e.fv = d.fv /\ (\A k \in CounterName : e.counter[k] # Absent)
        /\ Bounded(d.rows) => Bounded(e.rows)
        /\ Bounded(d.snaps) => Bounded(e.snaps)
        /\ Ahead(d) => Ahead(e) /\ Kept(d, e)
    BY <1>4, CommitSound
  <1>7. FeedInv'
    <2>1. feed = [tool |-> "none", snaps |-> {}, rows |-> {}]
      BY <1>3 DEF NoFeed
    <2>2. feed.tool = "none" /\ feed.snaps = {} /\ feed.rows = {}
      BY <2>1
    <2> QED BY <1>3, <2>1, <2>2 DEF FeedInv, UniqueKeys, UniqueIds
  <1>8. DstBounded'
    BY <1>1, <1>3, <1>5, <1>6 DEF DstSide, DstBounded
  <1>9. /\ left'.commits \in 0..MaxCommits /\ left'.commits # MaxCommits
        /\ left' = [tools |-> left'.tools, commits |-> left'.commits]
    <2>1. left.commits \in 0..MaxCommits /\ MaxCommits \in Nat
      BY TransferAssumption DEF DstSide, DstInv
    <2>2. left = [tools |-> left.tools, commits |-> left.commits]
      BY DEF DstSide, DstInv
    <2>3. left' = [tools |-> left.tools, commits |-> left.commits - 1]
      BY <1>3, <2>2
    <2>4. left'.commits = left.commits - 1 /\ left' = [tools |-> left'.tools, commits |-> left'.commits]
      BY <2>3
    <2> QED BY <1>3, <2>1, <2>4
  <1>10. DstInv'
    BY <1>3, <1>4, <1>5, <1>6, <1>9 DEF DstSide, DstInv
  <1>11. PlanInv'
    <2>1. Repairs(e, plan')
      BY <1>3 DEF Repairs
    <2>2. repaired => Ahead(d)
      BY <1>1 DEF DstSide, PlanInv
    <2>3. e.fv # Absent
      BY <1>4, <1>6 DEF Format, Absent
    <2> QED BY <1>3, <1>5, <1>6, <2>1, <2>2, <2>3 DEF PlanInv
  <1>12. OriginInv'
    <2>1. origin' = [tool |-> "mixed", at |-> 0, done |-> FALSE]
      BY <1>3 DEF Mixed
    <2> QED BY <2>1 DEF OriginInv
  <1>13. repaired => Kept(d, e)
    BY <1>1, <1>6 DEF DstSide, PlanInv
  <1> QED BY <1>1, <1>5, <1>7, <1>8, <1>10, <1>11, <1>12, <1>13 DEF DstSide

-----------------------------------------------------------------------------
\* The invariant holds

\* Empty databases.
LEMMA EmptySound ==
    SoundDb(EmptyDb) /\ AnyDb(Initialized(EmptyDb)) /\ Initialized(EmptyDb).counter["snap"] = 1
        /\ Initialized(EmptyDb).rows = {} /\ Initialized(EmptyDb).index = {}
        /\ Initialized(EmptyDb).snaps = {} /\ Initialized(EmptyDb).counter["cat"] = 1
  <1>1. PICK zero, one : /\ zero = [c \in {"snap", "cat", "file"} |-> Absent]
                         /\ one = [c \in {"snap", "cat", "file"} |-> 1]
    OBVIOUS
  <1>2. /\ zero \in [CounterName -> Nat] /\ one \in [CounterName -> Nat]
        /\ zero["snap"] = 0 /\ one["snap"] = 1 /\ one["cat"] = 1
    BY <1>1 DEF CounterName, Absent
  <1>3. PICK d, e : /\ d = [fv |-> Absent, counter |-> zero, snaps |-> {}, rows |-> {}, index |-> {}]
                    /\ e = [fv |-> Format, counter |-> one, snaps |-> {}, rows |-> {}, index |-> {}]
    OBVIOUS
  <1>4. EmptyDb = d
    BY <1>1, <1>3 DEF EmptyDb
  <1>5. Initialized(EmptyDb) = [d EXCEPT !.fv = Format, !.counter = one]
    BY <1>1, <1>4 DEF Initialized
  <1>6. Initialized(EmptyDb) = e
    BY <1>3, <1>5
  <1>7. d.fv = Absent /\ d.counter = zero /\ d.snaps = {} /\ d.rows = {} /\ d.index = {}
    BY <1>3
  <1>8. e.fv = Format /\ e.counter = one /\ e.snaps = {} /\ e.rows = {} /\ e.index = {}
    BY <1>3
  <1>9. AnyDb(d) /\ AnyDb(e)
    BY <1>2, <1>3, <1>7, <1>8 DEF AnyDb, Absent, Format
  <1>10. SoundDb(d)
    BY <1>2, <1>7, <1>9 DEF SoundDb, Dense, Indexed, Reached, Absent, UniqueKeys, UniqueEntries, UniqueIds
  <1> QED BY <1>2, <1>4, <1>6, <1>8, <1>9, <1>10

\* The source after the first ATTACH.
LEMMA SrcInit ==
    ASSUME InitTransfer
    PROVE  SrcInv /\ DbShape /\ Bounded(db[Src].rows) /\ Bounded(db[Src].snaps) /\ db[Dst] = EmptyDb
  <1>1. PICK d, t, e : /\ d = Initialized(EmptyDb) /\ t = New(d, "table", 0, 1)
                       /\ e = Committed(d, {t}, {}, "cat", TRUE)
    OBVIOUS
  <1>2. db[Src] = e /\ db[Dst] = EmptyDb /\ DbShape /\ seen = [s \in {1} |-> At(e, 1)]
    <2>1. db = [c \in {Src, Dst} |-> IF c = Dst THEN EmptyDb ELSE e]
      BY <1>1 DEF InitTransfer
    <2>2. db[Src] = e /\ db[Dst] = EmptyDb /\ DbShape
      BY <2>1 DEF Src, Dst, DbShape
    <2> QED BY <2>2 DEF InitTransfer
  <1>3. /\ AnyDb(d) /\ d.counter["snap"] = 1 /\ d.counter["cat"] = 1
        /\ d.rows = {} /\ d.index = {} /\ d.snaps = {}
    BY <1>1, EmptySound
  <1>4. t \in CatRow /\ t.kind = "table" /\ t.id = 1 /\ t.begin = 1 /\ t.end = 0
    BY <1>1, <1>3, NewRow DEF CatKind, NoEnd
  <1>5. Becomes(d, e, {t}, {}, "cat")
    BY <1>1, <1>3, <1>4, CommittedParts DEF CounterName
  <1>6. /\ AnyDb(e) /\ e.rows = {t} /\ e.index = {} /\ e.counter["snap"] = 2 /\ e.counter["cat"] = 2
        /\ {x.id : x \in e.snaps} = {1} /\ UniqueIds(e.snaps)
    <2>1. /\ AnyDb(e) /\ e.rows = Put(d.rows, {t}) /\ e.index = PutIndex(d.index, {})
          /\ \A k \in CounterName :
                 e.counter[k] = IF k \in {"snap", "cat"} THEN d.counter[k] + 1 ELSE d.counter[k]
          /\ {x.id : x \in e.snaps} = {x.id : x \in d.snaps} \cup {d.counter["snap"]}
          /\ UniqueIds(d.snaps) => UniqueIds(e.snaps)
      BY <1>5 DEF Becomes
    <2>2. e.rows = {t} /\ e.index = {}
      BY <1>3, <2>1 DEF Put, PutIndex
    <2>3. e.counter["snap"] = 2 /\ e.counter["cat"] = 2
      BY <1>3, <2>1 DEF CounterName
    <2>4. {x.id : x \in d.snaps} = {} /\ UniqueIds(d.snaps)
      BY <1>3 DEF UniqueIds
    <2> QED BY <1>3, <2>1, <2>2, <2>3, <2>4
  <1>7. Latest(e) = 1 /\ 1..1 = {1}
    BY <1>6 DEF Latest
  <1>8. e.index = FileRows(e.rows) /\ UniqueKeys(e.rows)
    BY <1>4, <1>6 DEF FileRows, UniqueKeys
  <1>9. OwnDb(e)
    <2>1. IdCounter(e, "table") = 2
      BY <1>6 DEF IdCounter
    <2> QED BY <1>4, <1>6, <1>7, <1>8, <2>1 DEF OwnDb, Proper, NoEnd
  <1>10. At(e, 1) = FactsAt(e.rows, 1)
    BY <1>8, AtFacts
  <1>11. Rooted(FactsAt(e.rows, 1))
    <2>1. \A f \in FactsAt(e.rows, 1) : f[1] = "table"
      BY <1>4, <1>6, RowParts DEF FactsAt
    <2> QED BY <2>1 DEF Rooted
  <1>12. SrcInv
    <2>1. DOMAIN seen = 1..Latest(e) /\ \A s \in 1..Latest(e) : s = 1 /\ seen[s] = At(e, 1)
      BY <1>2, <1>7
    <2> QED BY <1>2, <1>9, <1>10, <1>11, <2>1 DEF SrcInv
  <1>13. Bounded(e.rows)
    BY <1>4, <1>6 DEF Bounded
  <1>14. Bounded(e.snaps)
    <2>1. \A x \in e.snaps : x.id \in {1}
      BY <1>6
    <2>2. \A x \in e.snaps : x.id \in 0..1
      BY <2>1
    <2> QED BY <2>2 DEF Bounded
  <1> QED BY <1>2, <1>12, <1>13, <1>14

\* The invariant holds in the beginning.
LEMMA TransferInit ==
    ASSUME InitTransfer
    PROVE  IInvTransfer
  <1>1. SrcInv /\ DbShape /\ Bounded(db[Src].rows) /\ Bounded(db[Src].snaps) /\ db[Dst] = EmptyDb
    BY SrcInit
  <1>2. /\ export = NotExporting /\ file = NotExporting /\ feed = NoFeed /\ plan = {} /\ origin = Mixed
        /\ repaired = FALSE /\ serving = {Src} /\ left = [tools |-> MaxTools, commits |-> MaxCommits]
    BY DEF InitTransfer
  <1>3. PICK x : x = NotExporting
    OBVIOUS
  <1>4. x = [at |-> 0, scan |-> 0, known |-> FALSE, snaps |-> {}, rows |-> {}]
    BY <1>3 DEF NotExporting
  <1>5. ExportInv(x)
    BY <1>4 DEF ExportInv, UniqueKeys, UniqueIds, Dense
  <1>6. ExportInv(export) /\ FileInv
    BY <1>2, <1>3, <1>4, <1>5 DEF FileInv
  <1>7. Bounded({})
    BY DEF Bounded
  <1>8. SrcBounded
    <2>1. x.rows = {} /\ x.snaps = {}
      BY <1>4
    <2> QED BY <1>1, <1>2, <1>3, <1>7, <2>1 DEF SrcBounded
  <1>9. feed = [tool |-> "none", snaps |-> {}, rows |-> {}]
    BY <1>2 DEF NoFeed
  <1>10. feed.tool = "none" /\ feed.snaps = {} /\ feed.rows = {}
    BY <1>9
  <1>11. FeedInv
    BY <1>2, <1>9, <1>10 DEF FeedInv, UniqueKeys, UniqueIds
  <1>12. SoundDb(db[Dst]) /\ db[Dst].rows = {} /\ db[Dst].snaps = {}
    BY <1>1, EmptySound, EmptyParts
  <1>13. DstBounded
    BY <1>7, <1>10, <1>12 DEF DstBounded
  <1>14. DstInv
    <2>1. left.commits = MaxCommits /\ left.tools = MaxTools /\ MaxCommits \in Nat
      BY <1>2, TransferAssumption
    <2>2. Dst \notin serving /\ Src \in serving
      BY <1>2 DEF Src, Dst
    <2> QED BY <1>1, <1>2, <1>12, <2>1, <2>2 DEF DstInv
  <1>15. PlanInv
    BY <1>2 DEF PlanInv, Repairs
  <1>16. OriginInv
    <2>1. origin = [tool |-> "mixed", at |-> 0, done |-> FALSE]
      BY <1>2 DEF Mixed
    <2> QED BY <2>1 DEF OriginInv
  <1> QED BY <1>1, <1>6, <1>8, <1>11, <1>13, <1>14, <1>15, <1>16 DEF IInvTransfer, DstSide

\* Every step keeps what is known of Dst.
LEMMA DstSideStep ==
    ASSUME IInvTransfer, SrcGrows, [NextTransfer]_transfer
    PROVE  DstSide'
  <1>1. SrcInv /\ FileInv /\ SrcBounded /\ DstSide /\ DbShape
    BY DEF IInvTransfer, DstSide, DstInv
  <1>2. CASE CommitSrc
    <2>1. PICK e : db' = [db EXCEPT ![Src] = e]
      BY <1>2 DEF CommitSrc
    <2>2. DbShape' /\ db'[Dst] = db[Dst]
      BY <1>1, <2>1 DEF DbShape, Src, Dst
    <2>3. UNCHANGED <<serving, feed, plan, origin, repaired, left>>
      BY <1>2 DEF CommitSrc
    <2> QED BY <1>1, <2>2, <2>3, KeptStep
  <1>3. CASE ExportStart \/ ExportScan \/ ExportDone \/ UNCHANGED transfer
    <2>1. UNCHANGED <<db, serving, feed, plan, origin, repaired, left>>
      BY <1>3 DEF ExportStart, ExportScan, ExportDone, transfer
    <2>2. DbShape' /\ db'[Dst] = db[Dst]
      BY <1>1, <2>1 DEF DbShape
    <2> QED BY <1>1, <2>1, <2>2, KeptStep
  <1>4. CASE ~CommitSrc
    <2>1. db'[Src] = db[Src] /\ UNCHANGED seen
      BY <1>1, <1>4, OtherSteps
    <2>2. CASE ImportStart
      BY <1>1, <2>1, <2>2, ImportStartStep
    <2>3. CASE MigrateFromSource
      BY <1>1, <2>1, <2>3, MigrateStartStep
    <2>4. CASE ImportLine
      BY <1>1, <2>4, ImportLineStep
    <2>5. CASE MigrateTable
      BY <1>1, <2>5, MigrateTableStep
    <2>6. CASE MigrateSkip \/ FillDone \/ FillStops
      BY <1>1, <2>6, FillEndStep
    <2>7. CASE Rebuild
      BY <1>1, <2>7, RebuildStep
    <2>8. CASE MigrateApply
      BY <1>1, <2>8, MigrateApplyStep
    <2>9. CASE RepairStart
      BY <1>1, <2>9, RepairStartStep
    <2>10. CASE RepairAction
      BY <1>1, <2>10, RepairActionStep
    <2>11. CASE RepairActionFails \/ RepairDone \/ RepairStops
      BY <1>1, <2>11, RepairEndStep
    <2>12. CASE Open
      BY <1>1, <2>12, OpenStep
    <2>13. CASE CommitDst
      BY <1>1, <2>13, CommitDstStep
    <2> QED BY <1>3, <1>4, <2>2, <2>3, <2>4, <2>5, <2>6, <2>7, <2>8, <2>9, <2>10, <2>11, <2>12, <2>13
            DEF NextTransfer
  <1> QED BY <1>2, <1>4

\* Every step keeps the invariant.
LEMMA TransferStep ==
    ASSUME IInvTransfer, [NextTransfer]_transfer
    PROVE  IInvTransfer'
  <1>1. SrcInv /\ ExportInv(export) /\ FileInv /\ SrcBounded /\ DbShape
    BY DEF IInvTransfer, DstSide, DstInv
  <1>2. SrcInv' /\ SrcGrows
    BY <1>1, SrcStep
  <1>3. ExportInv(export)' /\ FileInv'
    BY <1>1, <1>2, ExportStep
  <1>4. SrcBounded'
    BY <1>1, SrcBoundedStep
  <1>5. DstSide'
    BY <1>2, DstSideStep
  <1> QED BY <1>2, <1>3, <1>4, <1>5 DEF IInvTransfer

\* The state that the properties of the tools rest on: every reachable catalog
\* is one that its servers and the tools of export.rs, migrate_from_ducklake.rs,
\* rebuild and repair.rs can leave behind, with what is yet to be written and
\* repaired.
THEOREM TransferInvariance == SpecTransfer => []IInvTransfer
  <1>1. InitTransfer => IInvTransfer
    BY TransferInit
  <1>2. IInvTransfer /\ [NextTransfer]_transfer => IInvTransfer'
    BY TransferStep
  <1> QED BY <1>1, <1>2, PTL DEF SpecTransfer

\* One row per key and one index entry per index key in both catalogs, whatever
\* the tools put over each other, and no tool at work on a catalog that serves.
THEOREM TransferTypes == SpecTransfer => []TransferTypeOK
  <1>1. ASSUME IInvTransfer PROVE TransferTypeOK
    <2>1. PICK d, e : d = db[Src] /\ e = db[Dst]
      OBVIOUS
    <2>2. OwnDb(d) /\ SoundDb(e) /\ DstInv
      BY <1>1, <2>1 DEF IInvTransfer, DstSide, SrcInv, DstInv
    <2>3. UniqueEntries(d.index)
      <3> SUFFICES ASSUME NEW r \in d.index, NEW q \in d.index, IndexKey(r) = IndexKey(q) PROVE r = q
        BY DEF UniqueEntries
      <3>1. r \in CatRow /\ q \in CatRow /\ r \in d.rows /\ q \in d.rows /\ r.kind = "file" /\ q.kind = "file"
        BY <2>2 DEF OwnDb, AnyDb, FileRows
      <3>2. Key(r) = Key(q)
        BY <3>1, SameKey
      <3> QED BY <2>2, <3>1, <3>2 DEF OwnDb, UniqueKeys
    <2>4. /\ d.fv \in {Absent, 1, 2} /\ UniqueKeys(d.rows) /\ UniqueIds(d.snaps)
          /\ e.fv \in {Absent, 1, 2} /\ UniqueKeys(e.rows) /\ UniqueIds(e.snaps) /\ UniqueEntries(e.index)
      BY <2>2 DEF OwnDb, SoundDb, AnyDb, Absent
    <2>5. \A c \in {Src, Dst} :
              /\ db[c].fv \in {Absent, 1, 2}
              /\ \A r, q \in db[c].rows : Key(r) = Key(q) => r = q
              /\ \A r, q \in db[c].index : IndexKey(r) = IndexKey(q) => r = q
              /\ \A x, y \in db[c].snaps : x.id = y.id => x = y
      BY <2>1, <2>3, <2>4 DEF UniqueKeys, UniqueEntries, UniqueIds
    <2> QED BY <2>2, <2>5 DEF TransferTypeOK, DstInv
  <1> QED BY <1>1, TransferInvariance, PTL

\* export_catalog takes no storage snapshot: its scans run while the server
\* commits and drops.  What it wrote of the versioned rows is nevertheless what
\* readers saw at the snapshot it was asked for.
THEOREM ExportsAreConsistent == SpecTransfer => []ExportConsistent
  <1>1. ASSUME IInvTransfer PROVE ExportConsistent
    <2> SUFFICES ASSUME file.known
                 PROVE  {Fact(r) : r \in {x \in file.rows : x.kind # "stat"}} = seen[file.at]
      BY DEF ExportConsistent
    <2>1. /\ file.scan = 8 /\ file.at \in 1..Latest(db[Src])
          /\ {Fact(r) : r \in {x \in file.rows : x.kind # "stat"}} =
                 {f \in seen[file.at] : \E i \in 1..7 : f[1] = ExportOrder[i]}
      BY <1>1 DEF IInvTransfer, FileInv, ExportInv
    <2>2. OwnDb(db[Src]) /\ seen[file.at] = FactsAt(db[Src].rows, file.at)
      BY <1>1, <2>1 DEF IInvTransfer, SrcInv
    <2>3. \A f \in seen[file.at] : f[1] \in Versioned
      BY <2>2, RowParts DEF FactsAt, OwnDb, AnyDb
    <2>4. {f \in seen[file.at] : \E i \in 1..7 : f[1] = ExportOrder[i]} = seen[file.at]
      BY <2>3, OrderKinds
    <2> QED BY <2>1, <2>4
  <1> QED BY <1>1, TransferInvariance, PTL

\* A catalog that import_catalog or migrate_from_source filled from one source
\* without interruption, then repaired and opened, shows at its latest snapshot
\* what readers of the source saw there.
THEOREM RestoresAreFaithful == SpecTransfer => []RestoredFaithfully
  <1>1. ASSUME IInvTransfer PROVE RestoredFaithfully
    <2> SUFFICES ASSUME repaired, Dst \in serving, origin.done, origin.at # 0
                 PROVE  /\ Latest(db[Dst]) = origin.at
                        /\ At(db[Dst], origin.at) = Want
      BY DEF RestoredFaithfully, Want
    <2>1. PICK d, s, W : d = db[Dst] /\ s = origin.at /\ W = Want
      OBVIOUS
    <2>2. feed.rows = {} /\ feed.snaps = {} /\ feed = NoFeed
      BY <1>1 DEF IInvTransfer, DstSide, OriginInv, NoFeed
    <2>3. Restored(d, {}, {}, s, W) /\ s \in 1..Latest(db[Src])
      BY <1>1, <2>1, <2>2 DEF IInvTransfer, DstSide, OriginInv
    <2>4. Ahead(d) /\ AnyDb(d) /\ d.counter["snap"] # Absent
      BY <1>1, <2>1 DEF IInvTransfer, DstSide, PlanInv, DstInv, SoundDb, CounterName
    <2>5. d.counter["snap"] \in Nat /\ s \in Nat /\ s >= 1 /\ d.counter["snap"] <= s + 1
      BY <2>3, <2>4 DEF AnyDb, CounterName, Restored
    <2>6. s < d.counter["snap"]
      <3>1. {x.id : x \in d.snaps \cup {}} = 1..s
        BY <2>3 DEF Restored
      <3>2. s \in InUse(d, "snap")
        BY <2>5, <3>1 DEF InUse
      <3> QED BY <2>4, <3>2 DEF Ahead, Below, CounterName
    <2>7. Latest(d) = s
      BY <2>5, <2>6 DEF Latest
    <2>8. At(d, s) = FactsAt(d.rows, s)
      BY <2>3, AtFacts DEF Restored
    <2>9. FactsAt(d.rows, s) = W
      <3>1. /\ \A r \in d.rows : r.kind \in Versioned => Visible(r, s)
            /\ {Fact(r) : r \in {x \in d.rows \cup {} : x.kind \in Versioned}} = W
        BY <2>3 DEF Restored
      <3>2. {x \in d.rows : x.kind \in Versioned /\ Visible(x, s)} = {x \in d.rows \cup {} : x.kind \in Versioned}
        BY <3>1
      <3> QED BY <3>1, <3>2 DEF FactsAt
    <2> QED BY <2>1, <2>7, <2>8, <2>9
  <1> QED BY <1>1, TransferInvariance, PTL

\* A catalog that opens passes diagnose_catalog however the tools filled it and
\* repair_apply left it, and verify_catalog as long as no server has committed to
\* it: the puts of export.rs, migrate_from_ducklake.rs and rebuild leave no data
\* file without index entry and no gap below the snapshot counter.
THEOREM OpenedCatalogsAreHealthy == SpecTransfer => []OpenedHealthy
  <1>1. ASSUME IInvTransfer PROVE OpenedHealthy
    <2> SUFFICES ASSUME Dst \in serving
                 PROVE  /\ Diagnosed(db[Dst])
                        /\ left.commits = MaxCommits => Verified(db[Dst])
      BY DEF OpenedHealthy
    <2>1. PICK d : d = db[Dst]
      OBVIOUS
    <2>2. /\ SoundDb(d) /\ AnyDb(d) /\ d.fv = Format /\ (\A c \in CounterName : d.counter[c] # Absent)
          /\ left.commits = MaxCommits => \A r \in d.rows : Proper(r)
      BY <1>1, <2>1 DEF IInvTransfer, DstSide, DstInv, SoundDb
    <2>3. \A j \in 1..Latest(d) : \E y \in d.snaps : y.id = j
      BY <2>2 DEF SoundDb, Reached, CounterName
    <2>4. Diagnosed(d)
      BY <2>2, <2>3 DEF Diagnosed, SoundDb, Indexed
    <2>5. left.commits = MaxCommits => Verified(d)
      BY <2>2 DEF Verified, Proper, AnyDb
    <2> QED BY <2>1, <2>4, <2>5
  <1> QED BY <1>1, TransferInvariance, PTL

\* After a completed repair no server of the catalog gives an id twice: commits
\* overwrite no snapshot, no table and no data file that the tools brought in.
THEOREM RepairedIdsAreFresh == SpecTransfer => RepairedIdsFresh
  <1> DEFINE Fresh == repaired /\ repaired' =>
                          /\ \A s \in db[Dst].snaps : s \in db'[Dst].snaps
                          /\ \A r \in db[Dst].rows : r.kind \in {"table", "file"} =>
                                 \E q \in db'[Dst].rows : Fact(q) = Fact(r)
  <1>1. ASSUME IInvTransfer, [NextTransfer]_transfer PROVE [Fresh]_transfer
    <2>1. SrcInv /\ DstSide /\ DbShape /\ PlanInv
      BY <1>1 DEF IInvTransfer, DstSide, DstInv
    <2>2. SrcGrows
      BY <1>1, <2>1, SrcStep
    <2>3. CASE db'[Dst] = db[Dst]
      BY <2>3
    <2>4. CASE ~repaired \/ ~repaired'
      BY <2>4
    <2>5. CASE Kept(db[Dst], db'[Dst])
      BY <2>5 DEF Kept
    <2>6. CASE CommitDst
      BY <2>1, <2>2, <2>4, <2>5, <2>6, CommitDstStep
    <2>7. CASE Open
      BY <2>1, <2>2, <2>3, <2>4, <2>7, OpenStep
    <2>8. CASE CommitSrc
      <3>1. db'[Dst] = db[Dst]
        BY <2>1, <2>8 DEF CommitSrc, DbShape, Src, Dst
      <3> QED BY <2>3, <3>1
    <2>9. CASE \/ ExportStart \/ ExportScan \/ ExportDone \/ MigrateSkip \/ FillDone \/ FillStops
               \/ RepairStart \/ RepairActionFails \/ RepairDone \/ RepairStops \/ UNCHANGED transfer
      <3>1. db' = db
        BY <2>9 DEF ExportStart, ExportScan, ExportDone, MigrateSkip, FillDone, FillStops, RepairStart,
                    RepairActionFails, RepairDone, RepairStops, transfer
      <3> QED BY <2>3, <3>1
    <2>10. CASE ImportStart \/ MigrateFromSource \/ Rebuild \/ MigrateApply
      <3>1. repaired' = FALSE
        BY <2>10 DEF ImportStart, MigrateFromSource, Fill, Rebuild, MigrateApply
      <3> QED BY <2>4, <3>1
    <2>11. CASE ImportLine \/ MigrateTable
      <3>1. feed.tool # "none"
        BY <2>11 DEF ImportLine, MigrateTable
      <3> QED BY <2>1, <2>4, <3>1, Filling
    <2>12. CASE RepairAction
      <3>1. plan # {}
        BY <2>12 DEF RepairAction
      <3> QED BY <2>1, <2>4, <3>1 DEF PlanInv
    <2> QED BY <1>1, <2>6, <2>7, <2>8, <2>9, <2>10, <2>11, <2>12 DEF NextTransfer
  <1>2. IInvTransfer /\ [NextTransfer]_transfer => [Fresh]_transfer
    BY <1>1
  <1>3. RepairedIdsFresh <=> [][Fresh]_transfer
    BY DEF RepairedIdsFresh
  <1> HIDE DEF Fresh
  <1> QED BY <1>2, <1>3, TransferInvariance, PTL DEF SpecTransfer
==============================================================================
