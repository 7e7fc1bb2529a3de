CONSTANTS
    k1 = k1
    k2 = k2
    a1 = a1
    a2 = a2
    a3 = a3
    f1 = f1
    f2 = f2
    None = None
    Keys = {k1, k2}
    Activations = {a1, a2, a3}
    Tickets = {e1, e2}
    Tokens = {f1, f2}
    Commands = {c1}
    Handlers = {h1, h2}
    MaxDevices = 2
    MaxAgents = 1
    MaxContent = 2
    LastDay = 2
    Cases <- TicketCases
SPECIFICATION Spec
CHECK_DEADLOCK FALSE
INVARIANT
    EnrolledAgentsMayPair
