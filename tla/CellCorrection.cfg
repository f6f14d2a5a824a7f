SPECIFICATION Spec
CONSTANTS
    s = s
    t = t
    w = w
    x = x
    y = y
    Blank = Blank
    None = None
    Clients = {c}
    Admins = {r}
    Sessions = {s, t}
    Cells <- Identifiers
    Wifis = {w, Blank}
    Addresses = {}
    Coords = {x, y}
    Requests <- AllRequests
    Half = 2
    MaxSends = 2
    MaxFaults = 0
INVARIANT CellCorrectionFound
