SPECIFICATION SignInSpec
CONSTANTS
    u1 = u1  u2 = u2  i1 = i1  i2 = i2  a1 = a1  a2 = a2  c1 = c1
    A = A  B = B  a = a  g1 = g1  g2 = g2  m1 = m1  m2 = m2
    None = None
    Users = {u1, u2}
    Founders = {u1}
    Invs = {i1, i2}
    Offers = {"owner", "member"}
    Admins = {a1, a2}
    Clients = {c1}
    People = {A, B}
    Idents = {a}
    Asks = {g1, g2}
    Links = {m1, m2}
    Limit = 2
    Windows = 2
INVARIANTS RemovedIsRefused StaleHasReason SessionsWithinLimit
PROPERTIES OwnerRemains
CONSTRAINTS TwoAtATime FirstFirst
VIEW Essence
CHECK_DEADLOCK FALSE
