SPECIFICATION Spec
CONSTANTS
    Endpoints = {x1, x2}
    Delays = {1, 2}
    PhoneOutage = 2
    PhoneRecovery = 3
    TrunkOutage = 1
    TrunkRecovery = 2
    MaxTime = 8
SYMMETRY Symmetry
INVARIANTS
    TypeOK
    TrackersAgree
    RecoveryEventsAreTrue
PROPERTIES
    AlertNeedsOutage
    AlertOutlivesDoubt
