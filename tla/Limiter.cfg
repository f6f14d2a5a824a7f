SPECIFICATION Spec
CONSTANTS
    k1 = k1
    i1 = i1
    locate = locate
    update = update
    p1 = p1
    p2 = p2
    None = None
    Endpoints = {locate, update}
    ApiKeys = {k1}
    Sessions = {}
    Addresses = {i1}
    Periods <- AnyPeriods
    Settings <- KeptOrNot
    Requests = {p1, p2}
    Factor = 1
    Half = 8
    EntryTTL = 2
    CleanupInterval = 1
    MaxTime = 4
SYMMETRY Symmetric
INVARIANTS TypeOK MapTidy
PROPERTIES ForgettingUnobservable PeriodUpToTTL
CHECK_DEADLOCK FALSE
