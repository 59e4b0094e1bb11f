SPECIFICATION Spec
CONSTANTS
    m1 = m1
    m2 = m2
    r1 = r1
    r2 = r2
    Dirs <- MCDirs
    Media = {m1, m2}
    Homes <- MCHomes
    Roots = {r1, r2}
    Callers = {1}
    Requests = {"save", "remove", "add", "files", "scan", "browse", "rescan", "relocate", "put"}
    MaxBatch = 2
    MaxRequests = 2
    MaxMoves = 1
    MaxCrashes = 1
    MaxTicks = 1
SYMMETRY Symmetry
INVARIANTS
    Sound
    RegistriesAgree
PROPERTIES
    AnswerIsBrowsable
    ReleaseKeepsFolder
CHECK_DEADLOCK FALSE
