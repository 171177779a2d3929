SPECIFICATION Spec
CONSTANTS
    p1 = p1
    p2 = p2
    d1 = d1
    d2 = d2
    k1 = k1
    k2 = k2
    Procs = {p1, p2}
    Databases = {d1, d2}
    Keys = {k1, k2}
    OldKey = OldKey
    NoKey = NoKey
    Nobody = Nobody
    MaxLosses = 1
INVARIANTS TypeOK RowsUnderOneKey NeverLockedOut
CHECK_DEADLOCK FALSE
