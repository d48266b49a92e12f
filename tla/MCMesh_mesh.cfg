SPECIFICATION Spec
CONSTANTS
    a = a
    b = b
    c = c
    Nodes <- MCNodes
    self = a
    Subjects <- MCSubjects
    fanout = 1
    MaxSeq = 1
    MaxWire = 1
    MaxIncarnation = 1
    Gossipers <- MCGossipers
    max_clock_skew = 1
    MaxPhysical = 3
    LOGICAL_CARDINALITY = 2
    MaxWall = 1
    MaxEventSeq = 2
    MaxIncarnationHeard = 0
    MaxMessages = 1
    MaxEngineRestarts = 1
    s1 = s1
    s2 = s2
    Subscribers <- MCSubscribers
    capacity = 1
    MaxFrames = 2
    RaftGroups = {"A", "B"}
    RaftPeers = {p1}
    max_groups = 1
    MaxLives = 2
    MaxRaftFrames = 2
    MaxCreations = 2
INVARIANTS
    TableIsSound ViewIsSound FramesAreRouted
PROPERTIES  NewerNewsWins
CHECK_DEADLOCK FALSE
