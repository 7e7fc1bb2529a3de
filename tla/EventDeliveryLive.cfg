SPECIFICATION FairSpec
CONSTANTS
    Events = {e1, e2}
    Payloads = {p1}
    Tokens = {t1}
    Devices = {d1}
    Handlers = {h1, h2}
    None = None
    MaxEventsPerHour = 1
    LastHour = 1
    MaxChurn = 0
    MaxFaults = 1
INVARIANT
    QuotaExact
PROPERTY
    EventuallyCompleted
