CONSTANTS
    t1 = t1
    t2 = t2
    t3 = t3
    sync = sync
    NoThread = NoThread
    NoTool = NoTool
    Threads <- ThreeThreads
    Tools <- OneTool
    Steps = 2
    IncompleteSteps <- Partial
    ReadMayFail = TRUE
SPECIFICATION FairSpec
INVARIANTS
    Exclusion
    Sound
PROPERTIES
    Compatible
    ReservationReturned
