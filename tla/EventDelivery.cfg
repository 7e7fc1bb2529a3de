SPECIFICATION Spec
CONSTANTS
    Events = {e1}
    Payloads = {p1, p2}
    Tokens = {t1, t2}
    Devices = {d1, d2}
    Handlers = {h1, h2}
    None = None
    MaxEventsPerHour = 1
    LastHour = 0
    MaxChurn = 2
    MaxFaults = 2
SYMMETRY Symmetry
INVARIANTS
    TypeOK
    AcknowledgedIsAnswered
    NoRepeatUnderLease
PROPERTY
    ProgressIsKept
