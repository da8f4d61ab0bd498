SPECIFICATION Spec
CONSTANTS
    t1 = t1  t2 = t2  c1 = c1  c2 = c2  p1 = p1  p2 = p2
    x1 = x1  x2 = x2  k1 = k1  l1 = l1  l2 = l2  s1 = s1  s2 = s2
    Setups = {t1, t2}
    Calls = {c1, c2}
    Passwords = {p1, p2}
    Secrets = {x1, x2}
    Codes = {k1}
    Resets = {l1, l2}
    Sessions = {s1, s2}
SYMMETRY Symmetry
CHECK_DEADLOCK FALSE
INVARIANTS OneSetup SpentOnce EnabledIsProven SessionHasPassword
