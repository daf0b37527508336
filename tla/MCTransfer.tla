------------------------------ MODULE MCTransfer ------------------------------
(* Bounds: see MCTransfer.cfg.                                              *)
EXTENDS Transfer
=============================================================================
