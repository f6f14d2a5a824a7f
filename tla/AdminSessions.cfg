SPECIFICATION FairSpec
CONSTANTS
    a = a
    b = b
    d = d
    None = None
    Tokens = {a, b, d}
    TTL = 3
    Interval = 2
INVARIANTS TypeOK SessionsTidy
PROPERTIES AnswersAsPromised ExpiredGoes
