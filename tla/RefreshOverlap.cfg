SPECIFICATION Spec
CONSTANTS
    c1 = c1
    w1 = w1
    w2 = w2
    a1 = a1
    a2 = a2
    r1 = r1
    r2 = r2
    CellKeys = {c1}
    WifiKeys = {w1}
    IpKeys = {}
    LongIps = {}
    Refreshers = {r1, r2}
    PageSize = 1
    MaxRows = 2
    MaxFaults = 1
SYMMETRY Symmetric
INVARIANTS TypeOK Coverage OverlapSettles
PROPERTIES FreshWhenAlone FirstCellWins CopiesSnapshot OnlyCommitsAddWork QuietRefreshMirrors
CHECK_DEADLOCK FALSE
