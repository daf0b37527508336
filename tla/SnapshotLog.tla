----------------------------- MODULE SnapshotLog -----------------------------
(***************************************************************************)
(* What a RockLake catalog promises its clients, with no process, no       *)
(* storage engine and no failure in sight: a catalog is a log of           *)
(* transactions.  The i-th entry is DuckLake snapshot i; an entry, once in *)
(* the log, never changes; the objects it creates have identifiers that no *)
(* earlier entry used; and the schema version moves by exactly one when    *)
(* the transaction contains DDL and not at all otherwise.                  *)
(***************************************************************************)
EXTENDS Naturals, Sequences

VARIABLE log   \* Seq([objs : set of objects, sv : schema version])

\* The kind and identifier of an object: what a catalog row is looked up by.
Key(o) == <<o.kind, o.id>>

LastVersion(l) == IF l = <<>> THEN 0 ELSE l[Len(l)].sv

Used(l) == {Key(o) : o \in UNION {l[i].objs : i \in 1..Len(l)}}

HasDdl(e) == \E o \in e.objs : o.kind = "catalog"

Init == log = <<>>

\* One transaction becomes snapshot Len(log) + 1.
Append1 ==
    /\ Len(log') = Len(log) + 1
    /\ \A i \in 1..Len(log) : log'[i] = log[i]
    /\ LET e == log'[Len(log) + 1]
       IN  /\ \A o \in e.objs : Key(o) \notin Used(log)
           /\ e.sv = LastVersion(log) + (IF HasDdl(e) THEN 1 ELSE 0)

Spec == Init /\ [][Append1]_log
=============================================================================
