SPECIFICATION FairSpec
CONSTANTS
    A = A
    B = B
    s1 = s1
    s2 = s2
    a = a
    b = b
    r1 = r1
    c1 = c1
    c2 = c2
    Subjects = {A}
    Submissions = {s1}
    Idents = {a}
    Calls = {}
    Questions <- MCQuestions
    Contact <- MCContact
    Corrections = {}
    Readers = {r1}
    Types = {"erase", "restrict"}
    MaxRequests = 1
    Jobs = {1, 2}
    MaxFaults = 1
INVARIANTS ExpiredIsOver
PROPERTIES ErasureReachesExports QueuedIsSettled
CHECK_DEADLOCK FALSE
