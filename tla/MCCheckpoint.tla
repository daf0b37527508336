----------------------------- MODULE MCCheckpoint -----------------------------
(* Bounds: see MCCheckpoint.cfg.                                            *)
EXTENDS Checkpoint
=============================================================================
