SPECIFICATION FairSpec
CONSTANTS
    k1 = k1
    k2 = k2
    q1 = q1
    q2 = q2
    a1 = a1
    a2 = a2
    None = None
    Keys = {k1, k2}
    Bogus = {k2}
    Requests = {q1, q2}
    Admins = {a1}
    TTL = 2
INVARIANT TypeOK
PROPERTIES BoundedStaleness NoLockOut AnswersAsAuthority RevocationFinal FadedForGood
