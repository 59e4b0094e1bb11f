CONSTANTS
    r1 = r1
    w1 = w1
    w2 = w2
    NoThread = NoThread
    Threads <- AllThreads
    Writers <- TwoWriters
    MaxDepth = 2
    MaxWindows = 3
SPECIFICATION GateFairSpec
INVARIANTS
    GateSound
PROPERTIES
    ImplementsSharedAccess
    Progress
CHECK_DEADLOCK FALSE
