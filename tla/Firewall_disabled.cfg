SPECIFICATION Spec
CONSTANTS
    Rules = {r1}
    Ports = {p1}
    Savers = {s1}
    MaxSaves = 1
    MaxFaults = 0
    MaxChanges = 0
INVARIANT DisabledFiltersNothing
