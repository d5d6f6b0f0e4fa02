SPECIFICATION FairSpec
CONSTANTS
    Rules = {r1}
    Ports = {p1}
    Savers = {s1, s2}
    MaxSaves = 2
    MaxFaults = 2
    MaxChanges = 1
INVARIANTS AppliedIsLoaded
PROPERTIES FilterFollowsConfig NoReloadForEver
