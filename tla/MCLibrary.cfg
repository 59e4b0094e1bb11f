SPECIFICATION Spec
CONSTANTS
    c1 = c1
    c2 = c2
    i1 = i1
    i2 = i2
    Ids = {i1, i2}
    Contents = {c1, c2}
    Md5 <- MCMd5
    Tagged = {c1}
    Paths = {"root", "A", "B"}
    Homes <- MCHomes
    RootPath <- MCRootPath
    Colls = {1}
    u = u
    v = v
    Callers = {u, v}
    Operations = {"toggle", "pin", "add", "remove", "put", "take", "hold", "view", "heart", "tag", "untag", "move", "collections", "lists", "home"}
    OldRows = TRUE
    Null = Null
    MaxRequests = 3
    MaxFaults = 1
    MaxBeside = 0
SYMMETRY Symmetry
INVARIANTS
    Sound
    StaysWithImage
    CountsAddUp
PROPERTIES
    AnswersAreTrue
CHECK_DEADLOCK FALSE
