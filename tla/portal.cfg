SPECIFICATION Spec
CONSTANTS
    A = A
    B = B
    s1 = s1
    s2 = s2
    a = a
    b = b
    r1 = r1
    c1 = c1
    c2 = c2
    Subjects = {A, B}
    Submissions = {s1, s2}
    Idents = {a, b}
    Calls = {c1, c2}
    Questions <- MCQuestions
    Contact <- MCContact
    Corrections <- MCCorrections
    Readers = {}
    Types = {"access", "rectify", "erase", "restrict"}
    MaxRequests = 1
    Jobs = {}
    MaxFaults = 0
SYMMETRY MCSymmetry
INVARIANTS RevisionsReplay ClosedByCorrection
PROPERTIES RestrictedIsKept KeyFollowsAnswer
CHECK_DEADLOCK FALSE
