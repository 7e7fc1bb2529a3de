SPECIFICATION Spec
CONSTANTS
    Tokens = {t1, t2}
    Signals = {s1}
    MaxOutbox = 2
    MaxPosts = 1
    MaxItems = 3
    MaxFaults = 2
SYMMETRY Symmetry
INVARIANTS
    TypeOK
PROPERTIES
    NothingForgotten
    PostsOldestDurable
    RegistrationsAdvance
    RemovedStaysRemoved
