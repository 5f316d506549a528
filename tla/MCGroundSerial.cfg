\* One session at a time, as the accept loop of v141 serves them.
SPECIFICATION Spec
CONSTANTS
    s1 = s1
    p = p
    q = q
    d1 = d1
    d2 = d2
    d3 = d3
    None = None
    Sessions = {s1}
    Characters = {p, q}
    Drops = {d1, d2, d3}
    Lifetime = 2
    LastKey = 2
    MaxLive = 1
INVARIANTS
    OneItemPerDrop
    StandingIsNotCarried
PROPERTIES
    ImplementsOwnership
SYMMETRY Symmetry
