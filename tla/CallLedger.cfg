SPECIFICATION Spec
CONSTANTS
    Delays = {1, 2}
    DayLength = 4
    Grace = 1
    Settle = 0
    Poll = 2
    HistoryGap = 3
    Fresh = 2
    Precision = 2
    Limit = 2
    MaxEventKeys = 2
    MaxCalls = 3
    MaxTime = 8
INVARIANTS
    TypeOK
    CountsAreExact
    CleanDayIsTrue
