\* One session at a time: is a minted key new?
SPECIFICATION Spec
CONSTANTS
    s1 = s1
    p = p
    d1 = d1
    d2 = d2
    None = None
    Sessions = {s1}
    Characters = {p}
    Drops = {d1, d2}
    Lifetime = 1
    LastKey = 2
    MaxLive = 1
PROPERTIES
    MintedKeysAreNew
SYMMETRY Symmetry
