\* Requests of one client, one at a time or two at once, with failures and crashes.
SPECIFICATION FairSpec
CONSTANTS
    k1 = k1
    k2 = k2
    s1 = s1
    s2 = s2
    h1 = h1
    h2 = h2
    None = None
    Handlers = {h1, h2}
    Classes = {k1, k2}
    Skills = {s1, s2}
    Kit <- MCKit
    Cost <- MCCost
    Gear = k1
    LastRow = 1
    MaxPoints = 1
    MaxFails = 2
    MaxLive = 2
INVARIANTS
    OneKit
    AnswerIsTrue
    EveryPaymentHasItsRow
PROPERTIES
    ClassIsFilledInOnly
    DeletedIsLeftAlone
    RetryHeals
CHECK_DEADLOCK FALSE
