SPECIFICATION Spec
CHECK_DEADLOCK FALSE
CONSTANTS
    n1 = n1
    n2 = n2
    c1 = c1
    c2 = c2
    Nodes <- MCNodes
    Clients <- MCClients
    NoNode = NoNode
    NoTimestamp = NoTimestamp
    MaxPhysical = 2
    LOGICAL_CARDINALITY = 3
    PhysicalReadings = {1, 2}
    LeaseDuration = 1
    BatchSize = 2
    MaxCount = 2
    PrefetchThreshold = 1
    MaxRetries = 0
    MaxAttempts = 1
SYMMETRY Symmetry
INVARIANTS CachedLeaseIsHeld RealTimeOrder
PROPERTIES LeaseIsWaitedOut ImplementsService
