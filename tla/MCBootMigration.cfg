\* Releases, crashes, full disks and restores.
SPECIFICATION Spec
CONSTANTS
    LastVersion = 3
    Rebuilds <- MCRebuilds
    Releases <- MCReleases
    Oldest <- MCOldest
    c1 = c1
    c2 = c2
    Characters = {c1, c2}
    Resolvable = {c1}
    MaxRows = 2
    MaxEvents = 3
    Unknown = Unknown
INVARIANTS
    MigrationsAreSaved
    ClassesAreSaved
PROPERTIES
    ServedSchemaIsOwn
    RowsSurvive
    ComesUp
