\* Every stop but the ones that never were requests.
SPECIFICATION Spec
CHECK_DEADLOCK FALSE
INVARIANTS
    CleanExitIsClean
    NothingServesOn
    LeaseIsGivenBack
PROPERTIES
    StopIsBounded
    NoHalfServer
