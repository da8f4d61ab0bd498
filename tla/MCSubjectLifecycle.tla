------------------------- MODULE MCSubjectLifecycle -------------------------
(* Small instances of SubjectLifecycle for TLC.                            *)
EXTENDS SubjectLifecycle

CONSTANTS s1, s2, a, b, k1

Input(i, k, g, sens) == [ident |-> i, key |-> k, grant |-> g, sensitive |-> sens]

\* Calls that agree or refuse, for one person or another.
PlainCalls == {Input(a, NoKey, "granted", TRUE), Input(a, k1, "refused", FALSE),
               Input(b, k1, "granted", FALSE)}
=============================================================================
