\* Two sessions on one floor: does one drop stay one item?
SPECIFICATION Spec
CONSTANTS
    s1 = s1
    s2 = s2
    p = p
    q = q
    d1 = d1
    None = None
    Sessions = {s1, s2}
    Characters = {p, q}
    Drops = {d1}
    Lifetime = 2
    LastKey = 1
    MaxLive = 2
INVARIANTS
    OneItemPerDrop
SYMMETRY Symmetry
