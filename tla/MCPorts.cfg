CONSTANTS
    p1 = p1  p2 = p2
    Servers = {p1, p2}
    Managed = {p1}
    PortStart = 6190
    PortEnd = 6191
    PortMax = 6192
    Stale = TRUE
SPECIFICATION FairSpec
INVARIANTS
    TypeOK
PROPERTIES
    ClashesAreRaces
    PortKept
    OnlyClashesHoldUp
