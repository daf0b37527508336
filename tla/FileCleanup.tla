----------------------------- MODULE FileCleanup -----------------------------
(***************************************************************************)
(* Data files in the object store against the catalog rows that name them: *)
(* the orphan sweep, the verification of data files and the scheduled      *)
(* deletions (rocklake-catalog/src/cleanup.rs, sweep.rs).                  *)
(*                                                                         *)
(* Clients upload a file first and register it in a later commit.  A sweep *)
(* collects the paths of the catalog, then takes the time, lists the       *)
(* bucket and deletes one object after the other.  It writes nothing to    *)
(* the catalog, so that a server that opens the catalog meanwhile does not *)
(* stop it: all of this interleaves.                                       *)
(***************************************************************************)
EXTENDS Naturals, FiniteSets

CONSTANTS
    Paths,          \* objects clients may upload
    DeleteFiles,    \* those of them that are delete files
    Foreign,        \* those whose catalog rows hold another string than the
                    \* object's key: a URL, or a path relative to the table
    Grace,          \* grace period
    Epoch,          \* the time in seconds when the behaviour begins
    MaxTime         \* bound: time that passes

ASSUME CleanupAssumption ==
    /\ DeleteFiles \subseteq Paths /\ Foreign \subseteq Paths
    /\ {Grace, Epoch, MaxTime} \subseteq Nat /\ Epoch > 0

VARIABLES
    now,        \* wall clock
    objects,    \* the objects of the bucket
    row,        \* the catalog row of each path
    floor,      \* retain_from, a snapshot id
    scheduled,  \* path -> schedule_start, of the files scheduled for deletion
    sweep,      \* the running sweep
    uploaded,   \* modification time of each object, 0 before its upload
    lag         \* history: the time from upload to registration, and for an
                \* object a sweep deleted from its first scan to its listing too

vars == <<now, objects, row, floor, scheduled, sweep, uploaded, lag>>

-----------------------------------------------------------------------------
NoSweep == [step |-> "none", refs |-> {}, since |-> 0, age |-> 0, todo |-> {}]

Init ==
    /\ now = Epoch
    /\ objects = {}
    /\ row = [p \in Paths |-> "none"]
    /\ floor = 0
    /\ scheduled = <<>>
    /\ sweep = NoSweep
    /\ uploaded = [p \in Paths |-> 0]
    /\ lag = [p \in Paths |-> 0]

Tick ==
    /\ now < Epoch + MaxTime
    /\ now' = now + 1
    /\ UNCHANGED <<objects, row, floor, scheduled, sweep, uploaded, lag>>

-----------------------------------------------------------------------------
\* Clients and the catalog

\* The client writes the file: outside the catalog, under a path of its own.
Upload ==
    /\ \E p \in Paths :
           /\ uploaded[p] = 0
           /\ objects' = objects \cup {p}
           /\ uploaded' = [uploaded EXCEPT ![p] = now]
    /\ UNCHANGED <<now, row, floor, scheduled, sweep, lag>>

\* register_data_file, register_delete_file: nobody looks whether it is there.
Register ==
    /\ \E p \in Paths :
           /\ uploaded[p] # 0 /\ row[p] = "none"
           /\ row' = [row EXCEPT ![p] = "live"]
           /\ lag' = [lag EXCEPT ![p] = @ + now - uploaded[p]]
    /\ UNCHANGED <<now, objects, floor, scheduled, sweep, uploaded>>

\* The file leaves the latest snapshot; older snapshots still read it.
Retire ==
    /\ \E p \in Paths : row[p] = "live" /\ row' = [row EXCEPT ![p] = "retired"]
    /\ UNCHANGED <<now, objects, floor, scheduled, sweep, uploaded, lag>>

\* schedule_file_deletion: at once, beside the commit that retires the file or
\* before it.
Schedule ==
    /\ \E p \in Paths \ DOMAIN scheduled :
           /\ row[p] # "none"
           /\ scheduled' = [q \in DOMAIN scheduled \cup {p} |->
                                IF q = p THEN now ELSE scheduled[q]]
    /\ UNCHANGED <<now, objects, row, floor, sweep, uploaded, lag>>

\* gc_apply and excision: the floor, a snapshot id, passes the retirement and the
\* row is deleted.  There are fewer snapshots than seconds since 1970.
Excise ==
    /\ \E p \in Paths : row[p] = "retired" /\ row' = [row EXCEPT ![p] = "excised"]
    /\ floor' = 1
    /\ UNCHANGED <<now, objects, scheduled, sweep, uploaded, lag>>

-----------------------------------------------------------------------------
\* The sweep

InCatalog(p) == row[p] \in {"live", "retired"}

InLatest(p) == row[p] = "live"

ReferencedByLatest(S) == {p \in S \ Foreign : InLatest(p)}

\* What a scan of the data file or of the delete file rows collects: the strings
\* the rows hold, of which only those that are object keys matter to the sweep.
Referenced(S) == {p \in S \ Foreign : InCatalog(p)}

\* collect_referenced_paths: data files first.
SweepDataFiles ==
    /\ sweep.step = "none"
    /\ sweep' = [NoSweep EXCEPT !.step = "deletes", !.since = now,
                                !.refs = Referenced(Paths \ DeleteFiles)]
    /\ UNCHANGED <<now, objects, row, floor, scheduled, uploaded, lag>>

SweepDeleteFiles ==
    /\ sweep.step = "deletes"
    /\ sweep' = [sweep EXCEPT !.step = "list", !.refs = @ \cup Referenced(DeleteFiles)]
    /\ UNCHANGED <<now, objects, row, floor, scheduled, uploaded, lag>>

\* An unreferenced object is an orphan when it is old enough (saturating_sub).
OldEnough(p) == (IF uploaded[p] > now THEN 0 ELSE now - uploaded[p]) >= Grace

\* The time, and the listing of the data files of the bucket.
SweepList ==
    /\ sweep.step = "list"
    /\ sweep' = [sweep EXCEPT !.step = "delete", !.age = now - sweep.since,
                     !.todo = {p \in objects \ sweep.refs : OldEnough(p)}]
    /\ UNCHANGED <<now, objects, row, floor, scheduled, uploaded, lag>>

\* With --apply: the next delete.
SweepDelete ==
    /\ sweep.step = "delete"
    /\ \E p \in sweep.todo :
           /\ objects' = objects \ {p}
           /\ lag' = [lag EXCEPT ![p] = @ + sweep.age]
           /\ sweep' = [sweep EXCEPT !.todo = @ \ {p}]
    /\ UNCHANGED <<now, row, floor, scheduled, uploaded>>

\* Without --apply, and where the object store refuses: a warning, and the next.
SweepSpares ==
    /\ sweep.step = "delete"
    /\ \E p \in sweep.todo : sweep' = [sweep EXCEPT !.todo = @ \ {p}]
    /\ UNCHANGED <<now, objects, row, floor, scheduled, uploaded, lag>>

\* The end, an error of a scan, a failed listing (a warning and an empty result),
\* or a crash.
SweepEnds ==
    /\ sweep.step # "none"
    /\ sweep' = NoSweep
    /\ UNCHANGED <<now, objects, row, floor, scheduled, uploaded, lag>>

-----------------------------------------------------------------------------
\* process_scheduled_deletions

NotRetained(p) == floor > 0 /\ scheduled[p] < Epoch + floor

\* The time a file was scheduled at against the snapshot the floor is at.
Due(p) == floor > 0 /\ scheduled[p] < floor

\* Objects whose deletion fails keep their entry; entries are removed afterwards,
\* and errors of that are ignored.
ProcessScheduled ==
    /\ \E gone \in SUBSET {p \in DOMAIN scheduled : Due(p)} :
           /\ objects' = objects \ gone
           /\ \E left \in SUBSET gone :
                  scheduled' = [p \in (DOMAIN scheduled \ gone) \cup left |-> scheduled[p]]
    /\ UNCHANGED <<now, row, floor, sweep, uploaded, lag>>

Next ==
    \/ Tick \/ Upload \/ Register \/ Retire \/ Schedule \/ Excise
    \/ SweepDataFiles \/ SweepDeleteFiles \/ SweepList
    \/ SweepDelete \/ SweepSpares \/ SweepEnds
    \/ ProcessScheduled

Spec == Init /\ [][Next]_vars

-----------------------------------------------------------------------------
\* verify_data_files: referenced paths that a HEAD request does not find.
Missing == {p \in Paths : InCatalog(p) /\ (p \notin objects \/ p \in Foreign)}

-----------------------------------------------------------------------------
\* Properties

\* A sweep deletes only what it has listed and not found referenced; what it has
\* listed was uploaded before; and only files that were registered are scheduled
\* for deletion.
TypeOK ==
    /\ now \in Epoch..(Epoch + MaxTime)
    /\ objects \subseteq {p \in Paths : uploaded[p] \in Epoch..now}
    /\ DOMAIN scheduled \subseteq {p \in Paths : row[p] # "none"}
    /\ sweep.todo \subseteq Paths \ sweep.refs
    /\ sweep.todo # {} => sweep.step = "delete"

\* The grace period protects writes in flight: a file that some snapshot still
\* names is missing only if its client took so long from upload to commit that,
\* together with the time the sweep took from its first scan to its listing, it
\* used up the grace period.  In particular a retired file that was registered
\* promptly is there as long as its row is.
GraceProtects == \A p \in Missing \ Foreign : lag[p] >= Grace

\* A scheduled deletion takes no file whose row is still in the catalog.
ScheduledSafe ==
    [][\A p \in objects \ objects' : sweep' = sweep => ~InCatalog(p)]_vars

\* sweep.rs: the sweep concerns files "not referenced by any live catalog snapshot".
\* Holds only while rows hold the keys of their files (Foreign is empty).
SweepSparesReferenced ==
    \A p \in Paths : InLatest(p) /\ lag[p] = 0 => p \in objects
=============================================================================
