SPECIFICATION FairSpec
CONSTANTS
    s1 = s1  s2 = s2  a = a  b = b  k1 = k1
    Submits = {s1, s2}
    Idents = {a, b}
    Keys = {k1}
    Calls <- PlainCalls
    Types = {"erase", "withdraw", "access", "rectify"}
    MaxRequests = 2
    Batch = 2
    MaxFails = 1
INVARIANTS OneSubmissionPerKey CurrentFollowsLog WaitsGoForward
PROPERTIES ErasedStaysErased EraseIsDone
