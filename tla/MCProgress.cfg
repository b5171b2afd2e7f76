CONSTANTS
    s1 = s1  s2 = s2  n1 = n1  n2 = n2  n3 = n3  x = x  y = y  i1 = i1  i2 = i2
    Nil = Nil  Other = Other
    Fits <- MCFits
    Sets = {s1}
    Hosts = {x, y}
    BMHs = {n1, n2}
    Images = {i1}
    Foreign = {}
    Custom = {}
    BadIP = {}
    HostMaps <- MCReplacing
    Skip = {}
    Pausable = {s1}
    Volatile = {s1}
    Faults = {}
    MaxGen = 2
    MaxFaults = 0
SPECIFICATION FairSpec
INVARIANTS
    GoneSetsHoldNothing
PROPERTIES
    EventuallyReady
    DeletionCompletes
CHECK_DEADLOCK FALSE
