SPECIFICATION FairSpec
CONSTANTS
    Threads = {a, b}
    Windows = {w1, w2}
    None = None
    StaleAfter = 1
    MaxGeneration = 2
    MaxClock = 2
    Values = {v1, v2}
    Signals = {s1}
    Members = {m1, m2}
    Absent = Absent
INVARIANTS
    TypeOK
    ProgressIsHonest
    FreshnessIsOwn
PROPERTIES
    EpisodesInOrder
    ReadsSpec
    CallsEnd
