\* Two sessions standing in the scene.
SPECIFICATION Spec
CONSTANTS
    s1 = s1
    s2 = s2
    p = p
    d1 = d1
    d2 = d2
    None = None
    Sessions = {s1, s2}
    Characters = {p}
    Drops = {d1, d2}
    Lifetime = 2
    LastKey = 1
    MaxLive = 2
INVARIANTS
    ClaimsAreExclusive
    FloorLifeIsBounded
SYMMETRY Symmetry
