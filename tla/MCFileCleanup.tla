---------------------------- MODULE MCFileCleanup ----------------------------
(* Bounds: see the cfg files.                                               *)
EXTENDS FileCleanup
CONSTANTS f1, d1
MCPaths == {f1, d1}
MCDeleteFiles == {d1}
MCNone == {}
MCForeign == {f1}
=============================================================================
