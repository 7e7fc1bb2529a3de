SPECIFICATION MCSpec
CONSTANTS
    p1 = p1
    p2 = p2
    trunk = trunk
    queue = queue
    None = None
    Phones <- MCPhones
    Trunk = trunk
    Queue = queue
    SipPhones <- MCSipPhones
    ConfiguredTrunks = {}
    RoleReads = 1
    FirstBatch <- MCFirstBatch
    SharedLines <- MCFirstBatch
    PbxTypes <- MCPbxTypes
    DownAtFirst <- MCDownAtFirst
    BusyAtFirst <- MCBusyAtFirst
    MaxChanges = 1
    MaxFaults = 1
INVARIANTS
    TypeOK
    EvidenceIsWitnessed
    KnownStays
PROPERTY
    EvidenceSettles
