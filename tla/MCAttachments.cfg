CONSTANTS
    t1 = t1
    t2 = t2
    home = home
    folder = folder
    file = file
    dir = dir
    Threads <- TwoThreads
    Subjects <- TwoSubjects
    Names <- OneName
    Digest <- OneDigest
    Home = home
    Folders <- OneFolder
    NoFolder = NoFolder
    MaxNotes = 2
    MaxRows = 2
SPECIFICATION Spec
SYMMETRY MCSymmetry
INVARIANTS
    Sound
PROPERTIES
    RemovesOnlyAsked
    MigrationIsComplete
