\* One session after another.
SPECIFICATION FairSpec
CONSTANTS
    f = f
    g = g
    m = m
    n = n
    s1 = s1
    Wild = Wild
    None = None
    Undated = Undated
    Sessions = {s1}
    Folders = {f, g}
    Home = f
    Ids = {m, n}
    Roster <- MCRoster
    Offensive = {m}
    MaxHp = 2
    Delay = 2
    MaxLive = 1
INVARIANTS
    BalancesAgree
    BooksAgree
    OnlyTheLivingBite
PROPERTIES
    StaysDead
    ComesBack
