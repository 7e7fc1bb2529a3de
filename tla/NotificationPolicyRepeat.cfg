SPECIFICATION Spec
CONSTANTS
    Phones = {p1, p2}
    Recoveries = {}
    Totals = {1, 2}
    Delays = {1}
    SingleDelay = 1
    Correlation = 2
    UpdateInterval = 3
    RecoveryTime = 2
    Cooldown = 3
    MinimumPhones = 2
    SharedCause = 3
    MaxTime = 8
SYMMETRY Symmetry
CHECK_DEADLOCK FALSE
PROPERTY
    PushedOnce
