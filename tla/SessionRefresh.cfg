SPECIFICATION Spec
SYMMETRY Symmetry
CONSTANTS
    s = s
    t = t
    w = w
    c = c
    d = d
    x = x
    y = y
    Blank = Blank
    None = None
    Clients = {c, d}
    Admins = {r}
    Sessions = {s, t}
    Cells <- Identifiers
    Wifis = {w, Blank}
    Addresses = {}
    Coords = {x, y}
    Requests <- AllRequests
    Half = 2
    MaxSends = 2
    MaxFaults = 1
INVARIANTS TypeOK AcceptedIsStored CorrectionShows
