SPECIFICATION Spec
CONSTANTS
    k1 = k1
    k2 = k2
    q1 = q1
    q2 = q2
    a1 = a1
    a2 = a2
    None = None
    Keys = {k1}
    Bogus = {}
    Requests = {q1}
    Admins = {a1}
    TTL = 2
INVARIANT RevokedNotServed
