CONSTANTS
    d1 = d1
    d2 = d2
    Directories <- TwoDirectories
    Retentions <- SmallRetentions
    MaxBundles = 4
    MaxEvents = 2
SPECIFICATION BackupSpec
INVARIANTS
    BackupSound
PROPERTIES
    RetiresOnlyItsOwn
    ForgetsOnlyTheGone
    NoMoreThanRetention
CHECK_DEADLOCK FALSE
