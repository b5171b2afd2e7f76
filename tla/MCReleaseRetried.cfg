CONSTANTS
    s1 = s1  s2 = s2  n1 = n1  n2 = n2  n3 = n3  x = x  y = y  i1 = i1  i2 = i2
    Nil = Nil  Other = Other
    Fits <- MCFits
    Sets = {s1, s2}
    Hosts = {x, y}
    BMHs = {n1}
    Images = {i1}
    Foreign = {}
    Custom = {}
    BadIP = {}
    HostMaps <- MCSingle
    Skip = {s2}
    Pausable = {}
    Volatile = {}
    Faults = {"api"}
    MaxGen = 2
    MaxFaults = 1
SPECIFICATION Spec
PROPERTIES
    ReleasesOwnHosts
CHECK_DEADLOCK FALSE
