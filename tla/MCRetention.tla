---------------------------- MODULE MCRetention ----------------------------
\* Retention on a few snapshots.  The calls and the holders of leases and pins
\* are interchangeable.
EXTENDS Retention, TLC

Callers == Permutations(Gc)
=============================================================================
