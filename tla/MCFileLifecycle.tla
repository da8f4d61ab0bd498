-------------------------- MODULE MCFileLifecycle --------------------------
(* Small instances of FileLifecycle for TLC.                               *)
EXTENDS FileLifecycle
CONSTANTS f1, f2, s1, s2
=============================================================================
