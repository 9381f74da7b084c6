CONSTANTS
    Sessions = {s1, s2}
    Callers = {c1, c2}
    Users = {u1, u2}
    Keys = {k1}
    Values = {v1}
    NoUser = NoUser
    None = None
    HasStorage = TRUE
    MaxCalls = 2
SYMMETRY Symmetry
SPECIFICATION Spec
INVARIANTS StoredIsCurrent CopyIsSession
CHECK_DEADLOCK FALSE
