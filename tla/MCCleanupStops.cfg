CONSTANTS
    s1 = s1  s2 = s2  n1 = n1  n2 = n2  n3 = n3  x = x  y = y  i1 = i1  i2 = i2
    Nil = Nil  Other = Other
    Fits <- MCFits
    Sets = {s1}
    Hosts = {x, y}
    BMHs = {n1, n2}
    Images = {i1}
    Foreign = {}
    Custom = {}
    BadIP = {}
    HostMaps <- MCBoth
    Skip = {}
    Pausable = {}
    Volatile = {}
    Faults = {"bmhdel"}
    MaxGen = 2
    MaxFaults = 1
SPECIFICATION Spec
INVARIANTS
    GoneSetsHoldNothing
CHECK_DEADLOCK FALSE
