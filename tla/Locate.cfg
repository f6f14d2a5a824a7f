SPECIFICATION FairSpec
CONSTANTS
    c1 = c1
    c2 = c2
    c3 = c3
    w1 = w1
    i1 = i1
    u1 = u1
    bad = bad
    p1 = p1
    p2 = p2
    None = None
    Cells = {c1, c2, c3}
    Wifis = {w1}
    Ips = {i1}
    Untyped = {c3}
    Metro = {c1}
    External = {c1}
    Near <- OneNear
    Bodies <- AllBodies
    BadUuids = {bad}
    Requests = {p1, p2}
    Batches <- Pairs
INVARIANTS TypeOK SourceOrder MetroStaysPut AnswerRecorded StopLosesNothing
PROPERTIES RequestsEnd QueriesRunOut
CHECK_DEADLOCK FALSE
