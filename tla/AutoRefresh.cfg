SPECIFICATION FairSpec
CONSTANTS
    a = a
    b = b
    None = None
    Admins = {a, b}
    Values <- Periods
    Defaults = 0
    Storable <- Columns
    Poll = 3
    Factor = 1
    Half = 4
    MaxAge = 2
INVARIANTS TypeOK NeverLate
PROPERTIES NewPeriodTakesOver PeriodsKept PanicNotRepeated RestartKeepsSettings
