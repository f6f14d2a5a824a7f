SPECIFICATION Spec
CONSTANTS
    c1 = c1
    w1 = w1
    w2 = w2
    a1 = a1
    a2 = a2
    r1 = r1
    r2 = r2
    CellKeys = {}
    WifiKeys = {w1}
    IpKeys = {a1, a2}
    LongIps = {a1}
    Refreshers = {r1}
    PageSize = 1
    MaxRows = 2
    MaxFaults = 0
INVARIANT AddressesStored
CHECK_DEADLOCK FALSE
