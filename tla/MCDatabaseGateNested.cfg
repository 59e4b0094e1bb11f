CONSTANTS
    r1 = r1
    w1 = w1
    w2 = w2
    NoThread = NoThread
    Threads <- AllThreads
    Writers <- TwoWriters
    MaxDepth = 2
    MaxWindows = 1
SPECIFICATION GateFairSpec
PROPERTY WindowOpens
CHECK_DEADLOCK FALSE
