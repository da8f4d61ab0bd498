SPECIFICATION FairSpec
CONSTANTS
    e1 = e1  e2 = e2  e3 = e3  w1 = w1  w2 = w2  k1 = k1  k2 = k2  f1 = f1
    Links = {k1, k2}
    Deleted = {}
    Forms = {f1}
    Meta <- MCMeta
    MaxWindow = 2
    MaxBreakdownRows = 1
    MaxTopLinks = 1
    Workers = {w1, w2}
    Events = {e1, e2}
    Skewed = {e2}
    Last = 1
    Width = 1
    Lag = 1
    MaxCatchUp = 1
    Retention = 2
    StreamMax = 1
    BufSize = 1
    Readers = {w1}
    MaxInputs = 2
INVARIANTS Accounted ClosedIsCounted ReportsAgree
PROPERTY StoredIsCounted
