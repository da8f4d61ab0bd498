-------------------------- MODULE MCSubjectRights --------------------------
EXTENDS SubjectRights, TLC

CONSTANTS A, B, s1, s2, a, b, c1, c2, r1

MCQuestions == [contact |-> "email", remark |-> "text", health |-> "sensitive",
                scan |-> "file"]
MCContact == "contact"
MCCorrections == {"contact" :> a, "contact" :> b, "remark" :> "y", "health" :> "z"}

MCSymmetry == Permutations({A, B}) \cup Permutations({s1, s2}) \cup Permutations({a, b})
    \cup Permutations({c1, c2})
=============================================================================
