\* Pickups, mints and rearrangements under every profile, against takeovers.
SPECIFICATION Spec
CONSTANTS
    c1 = c1
    c2 = c2
    None = None
    Connections = {c1, c2}
    LastSlot = 4
    MaxQuantity = 65535
    Templates = {1}
    Quantities = {0, 1, 65536}
    LastIdentity = 6
    Requests <- MCRequests
    Profiles = {"none", "swap", "merge"}
INVARIANTS
    BagIsSound
    TakenRowsCommit
    OneCell
    MemoryIsCurrent
PROPERTIES
    IdentitiesAreFresh
    NobodyIsLockedOut
    QuantitiesStay
SYMMETRY Symmetry
