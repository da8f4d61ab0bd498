SPECIFICATION LinksSpec
CONSTANTS
    v1 = v1  v2 = v2  a1 = a1  x = x  y = y  h1 = h1  h2 = h2  o1 = o1  o2 = o2
    Servers = {x, y}
    Visitors = {v1, v2}
    Admins = {a1}
    None = None
    Hosts = {h1, h2}
    Home = h1
    Changes = {o1, o2}
SYMMETRY Symmetry
INVARIANTS StaleHasReason CodesKeepTheirHost
PROPERTIES ExpiredIsGone
