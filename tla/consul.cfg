CONSTANTS
    Instances = {i1, i2}
    Versions = {v1, v2}
    Plans = {p1}
    Objects = {o1, o2, o3, o4, o5, o6, o7, o8}
    NoPlan = NoPlan
    None = None
    Cap = 1
    MaxChanges = 3
SYMMETRY Symmetry
SPECIFICATION WatcherSpec
INVARIANTS HashIsHeld CacheFollows
CHECK_DEADLOCK FALSE
