--------------------------- MODULE MCCredentials ---------------------------
EXTENDS Credentials, TLC

CONSTANTS t1, t2, c1, c2, p1, p2, x1, x2, k1, l1, l2, s1, s2

Symmetry == Permutations(Setups) \cup Permutations(Calls) \cup Permutations(Passwords)
            \cup Permutations(Secrets) \cup Permutations(Codes) \cup Permutations(Resets)
            \cup Permutations(Sessions)
=============================================================================
