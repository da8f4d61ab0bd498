------------------------------ MODULE MCLinks ------------------------------
(* Small instances of Links for TLC.                                       *)
EXTENDS Links
CONSTANTS v1, v2, a1, x, y, h1, h2, o1, o2
Symmetry == Permutations(Visitors) \cup Permutations(Servers) \cup Permutations(Changes)
=============================================================================
