SPECIFICATION Spec
CONSTANTS
    Accounts = {a1, a2}
    Connections = {c1, c2}
    SessionIds = {s1, s2}
    CharacterIds = {k1, k2, k3}
    Selectors <- MCSelectors
    Fingerprints = {f1, f2}
    None = None
SYMMETRY Symmetry
CHECK_DEADLOCK FALSE
INVARIANTS
    NewestLeaseOnly
    SelectionIsLive
    MemoryAgreesWithRow
    LiveCharactersDiffer
PROPERTIES
    PositionsAreFenced
    DeletedIsHistory
    ImplementsLease
