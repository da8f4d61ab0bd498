SPECIFICATION Spec
CONSTANTS
    w1 = w1  w2 = w2  w3 = w3
    Writers = {w1, w2, w3}
    Tenants = {t1, t2}
    MaxWrites = 2
    Tampering = TRUE
CHECK_DEADLOCK FALSE
INVARIANTS ChainNeverForks TamperingShows
PROPERTY IsAuditLog
